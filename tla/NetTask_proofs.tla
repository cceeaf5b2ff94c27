---------------------------- MODULE NetTask_proofs -----------------------------
(***************************************************************************)
(* Theorems about NetTask, for any set of file names.                      *)
(***************************************************************************)
EXTENDS NetTask, FiniteSetTheorems, TLAPS

--------------------------------------------------------------------------------
(***************************************************************************)
(* The server is known to the states that send requests.  Only the upload  *)
(* task's own state matters; and that Upload(), once begun, ends in the    *)
(* state it was begun in.                                                  *)
(***************************************************************************)
UploadTypeOK ==
    upload \in [timer : Timers,
                state : {"Undetected", "Detected", "Update", "Upload"},
                retry : 0..2, updateReq : BOOLEAN, server : Servers]

ServerInv ==
    /\ UploadTypeOK
    /\ ServerKnownForRequests
    /\ pc = "uploading" => upload.state = "Upload"

\* Three failures restart the count, fewer increase it.
LEMMA RetriedInRange == \A retry \in 0..2 : Retried(retry) \in 0..2
  BY DEF Retried

\* The assignments that end a request, a detection or a series of failures.
LEMMA AssignmentsTyped ==
    ASSUME UploadTypeOK,
           NEW timer \in Timers,
           NEW state \in {"Undetected", "Detected", "Update", "Upload"},
           NEW new,
           new = [upload EXCEPT !.timer = timer, !.retry = 0, !.state = state]
    PROVE  /\ new \in [timer : Timers,
                       state : {"Undetected", "Detected", "Update", "Upload"},
                       retry : 0..2, updateReq : BOOLEAN, server : Servers]
           /\ new.state = state
           /\ new.server = upload.server
           /\ new.updateReq = upload.updateReq
<1>1. 0 \in 0..2
  OBVIOUS
<1>2. new = [timer |-> timer, state |-> state, retry |-> 0,
             updateReq |-> upload.updateReq,
             server |-> upload.server]
  BY <1>1 DEF UploadTypeOK
<1>3. upload.updateReq \in BOOLEAN /\ upload.server \in Servers
  BY DEF UploadTypeOK
<1> QED
  BY <1>1, <1>2, <1>3

\* The upload task's part of Progress changes its timer only.
LEMMA ProgressKeepsServer ==
    ASSUME ServerInv, NEW expired, Progress(expired), pc' # "uploading"
    PROVE  ServerInv'
<1>1. Progressed(upload.timer, "upload" \in expired) \in Timers
  BY DEF ServerInv, UploadTypeOK, Progressed, Timers
<1>2. upload' = [upload EXCEPT
                    !.timer = Progressed(upload.timer, "upload" \in expired)]
  BY DEF Progress
<1> QED
  BY <1>1, <1>2 DEF ServerInv, UploadTypeOK, ServerKnownForRequests, ServerKnown

\* A failed request leaves the state as it is or goes back to the detection.
LEMMA FailedKeepsServer ==
    ASSUME ServerInv, upload' = RequestFailed, pc' # "uploading"
    PROVE  ServerInv'
<1>1. Retried(upload.retry) \in 0..2
  BY RetriedInRange DEF ServerInv, UploadTypeOK
<1>2. CASE upload.retry = 2 /\ ~ServerKnown
  <2>1. upload' = [upload EXCEPT !.retry = 0, !.state = "Undetected"]
    BY <1>2 DEF RequestFailed
  <2>2. upload' = [upload EXCEPT !.timer = upload.timer, !.retry = 0,
                                 !.state = "Undetected"]
    BY <2>1 DEF ServerInv, UploadTypeOK
  <2>3. upload.timer \in Timers
    BY DEF ServerInv, UploadTypeOK
  <2>4. UploadTypeOK' /\ upload'.state = "Undetected"
    BY <2>2, <2>3, AssignmentsTyped DEF ServerInv, UploadTypeOK
  <2> QED
    BY <2>4 DEF ServerInv, ServerKnownForRequests, ServerKnown
<1>3. CASE ~(upload.retry = 2 /\ ~ServerKnown)
  BY <1>1, <1>3
  DEF RequestFailed, ServerInv, UploadTypeOK, ServerKnownForRequests,
      ServerKnown, Timers
<1> QED
  BY <1>2, <1>3

\* ProcessEvent, with both requests in one word or one after the other.
LEMMA EventKeepsServer ==
    ASSUME ServerInv, ProcessEvent
    PROVE  ServerInv'
<1>1. upload' = UploadEvent /\ pc' = "withdraw"
  BY DEF ProcessEvent
<1> QED
  BY <1>1 DEF UploadEvent, ServerInv, UploadTypeOK, ServerKnownForRequests,
              ServerKnown, Timers

LEMMA UploadKeepsServer ==
    ASSUME ServerInv, UploadStep
    PROVE  ServerInv'
<1> USE DEF ServerInv, UploadTypeOK, ServerKnownForRequests, ServerKnown,
            Servers, Timers
<1>1. CASE UploadIdle
  BY <1>1 DEF UploadIdle, UploadGoesOn
<1>2. CASE ServerNotReachable
  BY <1>2 DEF ServerNotReachable, UploadAt, UploadGoesOn
<1>3. ASSUME NEW server \in {"address", "unresolved"}, ServerFound(server)
      PROVE  ServerInv'
  <2> DEFINE state == IF upload.updateReq THEN "Update" ELSE "Detected"
             timer == IF upload.updateReq THEN "due" ELSE "running"
  <2>1. upload' = [upload EXCEPT !.server = server, !.retry = 0,
                                 !.state = state, !.timer = timer]
    BY <1>3 DEF ServerFound, UploadGoesOn
  <2>2. upload' = [timer |-> timer, state |-> state, retry |-> 0,
                   updateReq |-> upload.updateReq, server |-> server]
    BY <2>1
  <2>3. 0 \in 0..2 /\ upload.updateReq \in BOOLEAN
    OBVIOUS
  <2>4. /\ UploadTypeOK'
        /\ upload'.server \in {"address", "unresolved"}
        /\ upload'.state # "Upload"
    BY <2>2, <2>3
  <2>5. pc' # "uploading"
    BY <1>3 DEF ServerFound, UploadGoesOn
  <2> QED
    BY <2>4, <2>5
<1>4. CASE ServerNotFound
  <2>1. Retried(upload.retry) \in 0..2
    BY RetriedInRange
  <2> QED
    BY <1>4, <2>1 DEF ServerNotFound, UploadAt, UploadGoesOn
<1>5. CASE DetectedStays
  BY <1>5 DEF DetectedStays, UploadAt, UploadGoesOn
<1>6. CASE UpdateOk
  <2>1. upload' = [RequestDone EXCEPT !.updateReq = FALSE]
    BY <1>6 DEF UpdateOk, UploadGoesOn
  <2>2. upload' = [timer |-> "forever", state |-> "Detected", retry |-> 0,
                   updateReq |-> FALSE, server |-> upload.server]
    BY <2>1 DEF RequestDone
  <2>3. 0 \in 0..2 /\ ServerKnown
    BY <1>6 DEF UpdateOk, UpdateHasUrl
  <2>4. pc' # "uploading"
    BY <1>6 DEF UpdateOk, UploadGoesOn
  <2> QED
    BY <2>2, <2>3, <2>4
<1>7. CASE UpdateFailed
  <2>1. upload' = RequestFailed /\ pc' # "uploading"
    BY <1>7 DEF UpdateFailed, UploadGoesOn
  <2> QED
    BY <2>1, FailedKeepsServer
<1>8. CASE UploadBegin
  BY <1>8 DEF UploadBegin, UploadAt, tasks
<1>9. CASE UploadAccepted
  <2>1. upload' = [timer |-> "forever", state |-> "Detected", retry |-> 0,
                   updateReq |-> upload.updateReq,
                   server |-> upload.server]
    BY <1>9 DEF UploadAccepted, UploadGoesOn, RequestDone
  <2>2. 0 \in 0..2 /\ ServerKnown /\ upload.updateReq \in BOOLEAN
    BY <1>9 DEF UploadAccepted
  <2>3. pc' # "uploading"
    BY <1>9 DEF UploadAccepted, UploadGoesOn
  <2> QED
    BY <2>1, <2>2, <2>3
<1>10. CASE UploadRefused
  <2>1. upload' = RequestFailed /\ pc' # "uploading"
    BY <1>10 DEF UploadRefused, UploadGoesOn
  <2> QED
    BY <2>1, FailedKeepsServer
<1>11. CASE UpdateCrashes
  BY <1>11 DEF UpdateCrashes, tasks
<1> QED
  BY <1>1, <1>2, <1>3, <1>4, <1>5, <1>6, <1>7, <1>8, <1>9, <1>10, <1>11
  DEF UploadStep

\* Every other step leaves the upload task alone.
LEMMA OthersKeepServer ==
    ASSUME ServerInv, UNCHANGED upload, pc' = pc \/ pc' # "uploading"
    PROVE  ServerInv'
  BY DEF ServerInv, UploadTypeOK, ServerKnownForRequests, ServerKnown

LEMMA WifiAndNtpKeepServer ==
    ASSUME ServerInv, WifiStep \/ NtpStep
    PROVE  ServerInv'
<1>1. CASE WifiStep
  <2>1. UNCHANGED upload /\ pc' # "uploading"
    BY <1>1 DEF WifiStep, WifiIdle, WifiNotConnecting, ConnectBegin,
                ConnectAccepted, ConnectRefused, WifiPoll, tasks
  <2> QED
    BY <2>1, OthersKeepServer
<1>2. CASE NtpStep
  <2>1. UNCHANGED upload /\ pc' # "uploading"
    BY <1>2 DEF NtpStep, NtpIdle, NtpNotConnected, NtpOk, NtpFailed,
                NtpResync, NtpGoesOn
  <2> QED
    BY <2>1, OthersKeepServer
<1> QED
  BY <1>1, <1>2

LEMMA ServerInvariant == Spec => []ServerInv
<1>1. Init => ServerInv
  BY DEF Init, ServerInv, UploadTypeOK, ServerKnownForRequests, Servers, Timers
<1>2. ServerInv /\ [Next]_vars => ServerInv'
  <2> SUFFICES ASSUME ServerInv, [Next]_vars
               PROVE  ServerInv'
    OBVIOUS
  <2>1. ASSUME NEW expired \in Expiries,
               PollOnce(expired) \/ ClearAndProgress(expired)
        PROVE  ServerInv'
    <3>1. Progress(expired) /\ pc' # "uploading"
      BY <2>1 DEF PollOnce, ClearAndProgress
    <3> QED
      BY <3>1, ProgressKeepsServer
  <2>2. CASE WakeBySignal \/ WakeByTimeOut \/ Withdraw \/ DriveProcess
    <3>1. UNCHANGED upload /\ pc' # "uploading"
      BY <2>2 DEF WakeBySignal, WakeByTimeOut, Withdraw, DriveProcess, tasks
    <3> QED
      BY <3>1, OthersKeepServer
  <2>3. CASE ProcessEvent
    BY <2>3, EventKeepsServer
  <2>4. CASE WifiStep \/ NtpStep
    BY <2>4, WifiAndNtpKeepServer
  <2>5. CASE UploadStep
    BY <2>5, UploadKeepsServer
  <2>6. ASSUME NEW new, DriverReports(new)
        PROVE  ServerInv'
    <3>1. UNCHANGED <<upload, pc>>
      BY <2>6 DEF DriverReports, tasks
    <3> QED
      BY <3>1, OthersKeepServer
  <2>7. CASE UpdateRequest
    <3>1. UNCHANGED <<upload, pc>>
      BY <2>7 DEF UpdateRequest, tasks
    <3> QED
      BY <3>1, OthersKeepServer
  <2>8. ASSUME NEW f \in Files,
               UploadRequestQueue(f) \/ UploadRequestSignal(f)
        PROVE  ServerInv'
    <3>1. UNCHANGED <<upload, pc>>
      BY <2>8 DEF UploadRequestQueue, UploadRequestSignal, tasks, thread
    <3> QED
      BY <3>1, OthersKeepServer
  <2>9. CASE UNCHANGED vars
    BY <2>9, OthersKeepServer DEF vars
  <2> QED
    BY <2>1, <2>2, <2>3, <2>4, <2>5, <2>6, <2>7, <2>8, <2>9
    DEF Next, ThreadStep, WaitStep
<1> QED
  BY <1>1, <1>2, PTL DEF Spec

\* Only an update right after a query that gave no address is asked of an
\* unknown server, whatever requests arrive while the detection is under way,
\* fails or is repeated; no upload ever is.
THEOREM RequestsKnowServer == Spec => []ServerKnownForRequests
<1>1. ServerInv => ServerKnownForRequests
  BY DEF ServerInv
<1> QED
  BY <1>1, ServerInvariant, PTL

--------------------------------------------------------------------------------
(***************************************************************************)
(* The thread turns deaf.  GoogleDriveTask's timer starts at -1, is made 0 *)
(* by the first Progress, and nothing ever sets it again; GetTimer is 0    *)
(* from then on.                                                           *)
(***************************************************************************)
DriveInv ==
    /\ drive \in {"forever", "due"}
    /\ pc \notin {"wait", "clear"} => drive = "due"

Deaf ==
    /\ drive = "due"
    /\ pc \notin {"clear", "event", "withdraw"}

\* The first progress makes the timer 0, whatever the time elapsed.
LEMMA ProgressMakesDriveDue ==
    ASSUME DriveInv, NEW expired, Progress(expired)
    PROVE  drive' = "due"
  BY DEF DriveInv, Progress, Progressed

\* Which actions touch the timer, or the place in the loop.
LEMMA TasksLeaveDrive ==
    ASSUME WifiStep \/ NtpStep \/ UploadStep
    PROVE  /\ UNCHANGED drive
           /\ pc \in {"wifi", "connecting", "ntp", "upload", "uploading"}
           /\ pc' \in {"connecting", "ntp", "upload", "uploading", "drive",
                      "crashed"}
<1>1. CASE WifiStep
  BY <1>1 DEF WifiStep, WifiIdle, WifiNotConnecting, ConnectBegin,
              ConnectAccepted, ConnectRefused, WifiPoll, tasks
<1>2. CASE NtpStep
  BY <1>2 DEF NtpStep, NtpIdle, NtpNotConnected, NtpOk, NtpFailed, NtpResync,
              NtpGoesOn
<1>3. CASE UploadStep
  BY <1>3 DEF UploadStep, UploadIdle, ServerNotReachable, ServerFound,
              ServerNotFound, DetectedStays, UpdateOk, UpdateFailed,
              UpdateCrashes, UploadBegin, UploadAccepted, UploadRefused, UploadAt,
              UploadGoesOn, tasks
<1> QED
  BY <1>1, <1>2, <1>3

LEMMA OtherThreadsLeaveDrive ==
    ASSUME \/ \E new : DriverReports(new)
           \/ UpdateRequest
           \/ \E f \in Files : UploadRequestQueue(f) \/ UploadRequestSignal(f)
    PROVE  UNCHANGED <<drive, pc>>
  BY DEF DriverReports, UpdateRequest, UploadRequestQueue,
         UploadRequestSignal, tasks, thread

\* A zero time-out excludes both ways of waking with something to clear.
LEMMA DueNeverWakes ==
    ASSUME drive = "due"
    PROVE  ~WakeBySignal /\ ~WakeByTimeOut
<1>1. GetTimer = "due"
  BY DEF GetTimer
<1> QED
  BY <1>1 DEF WakeBySignal, WakeByTimeOut

LEMMA DriveInvariant == Spec => []DriveInv
<1>1. Init => DriveInv
  BY DEF Init, DriveInv
<1>2. DriveInv /\ [Next]_vars => DriveInv'
  <2> SUFFICES ASSUME DriveInv, [Next]_vars
               PROVE  DriveInv'
    OBVIOUS
  <2>1. ASSUME NEW expired \in Expiries,
               PollOnce(expired) \/ ClearAndProgress(expired)
        PROVE  DriveInv'
    <3>1. Progress(expired)
      BY <2>1 DEF PollOnce, ClearAndProgress
    <3> QED
      BY <3>1, ProgressMakesDriveDue DEF DriveInv
  <2>2. CASE WakeBySignal \/ WakeByTimeOut
    BY <2>2 DEF WakeBySignal, WakeByTimeOut, tasks, DriveInv
  <2>3. CASE ProcessEvent \/ Withdraw \/ DriveProcess
    BY <2>3 DEF ProcessEvent, Withdraw, DriveProcess, DriveIdle, tasks,
                DriveInv
  <2>4. CASE WifiStep \/ NtpStep \/ UploadStep
    BY <2>4, TasksLeaveDrive DEF DriveInv
  <2>5. CASE \/ \E new \in {"UP", "DISCONNECTED"} : DriverReports(new)
             \/ UpdateRequest
             \/ \E f \in Files :
                    UploadRequestQueue(f) \/ UploadRequestSignal(f)
    BY <2>5, OtherThreadsLeaveDrive DEF DriveInv
  <2>6. CASE UNCHANGED vars
    BY <2>6 DEF vars, DriveInv
  <2> QED
    BY <2>1, <2>2, <2>3, <2>4, <2>5, <2>6 DEF Next, ThreadStep, WaitStep
<1> QED
  BY <1>1, <1>2, PTL DEF Spec

\* Once the thread has completed one pass it polls for ever, and no signal is
\* handed to a task any more.
THEOREM PollingIsDeaf == Spec => DeafOncePolling
<1>1. DriveInv /\ pc = "drive" => Deaf
  BY DEF DriveInv, Deaf
<1>2. Deaf /\ [Next]_vars => Deaf'
  <2> SUFFICES ASSUME Deaf, [Next]_vars
               PROVE  Deaf'
    OBVIOUS
  <2>1. ASSUME NEW expired \in Expiries, PollOnce(expired)
        PROVE  Deaf'
    BY <2>1 DEF PollOnce, Progress, Progressed, Deaf
  <2>2. ASSUME NEW expired \in Expiries, ClearAndProgress(expired)
        PROVE  FALSE
    BY <2>2 DEF ClearAndProgress, Deaf
  <2>3. ~WakeBySignal /\ ~WakeByTimeOut
    BY DueNeverWakes DEF Deaf
  <2>4. CASE ProcessEvent \/ Withdraw \/ DriveProcess
    BY <2>4 DEF ProcessEvent, Withdraw, DriveProcess, DriveIdle, Deaf
  <2>5. CASE WifiStep \/ NtpStep \/ UploadStep
    BY <2>5, TasksLeaveDrive DEF Deaf
  <2>6. CASE \/ \E new \in {"UP", "DISCONNECTED"} : DriverReports(new)
             \/ UpdateRequest
             \/ \E f \in Files :
                    UploadRequestQueue(f) \/ UploadRequestSignal(f)
    BY <2>6, OtherThreadsLeaveDrive DEF Deaf
  <2>7. CASE UNCHANGED vars
    BY <2>7 DEF vars, Deaf
  <2> QED
    BY <2>1, <2>2, <2>3, <2>4, <2>5, <2>6, <2>7 DEF Next, ThreadStep, WaitStep
<1>3. Deaf => pc \notin {"clear", "event", "withdraw"}
  BY DEF Deaf
<1> QED
  BY <1>1, <1>2, <1>3, DriveInvariant, PTL DEF Spec, DeafOncePolling

--------------------------------------------------------------------------------
(***************************************************************************)
(* The queue.  Upload() is begun for a signal, and the signal is sent      *)
(* after the name was queued; what has to be counted is how many names     *)
(* stand behind the signals that are merged, repeated and lost on the way. *)
(***************************************************************************)
\* Appending a new name, and taking the first one, on sequences without
\* repetition.
LEMMA AppendNew ==
    ASSUME NEW S, NEW s \in Seq(S), NEW e \in S,
           IsInjective(s), e \notin ToSet(s)
    PROVE  /\ Append(s, e) \in Seq(S)
           /\ Len(Append(s, e)) = Len(s) + 1
           /\ ToSet(Append(s, e)) = ToSet(s) \cup {e}
           /\ IsInjective(Append(s, e))
<1> DEFINE t == Append(s, e)
<1>1. /\ t \in Seq(S)
      /\ Len(s) \in Nat
      /\ Len(t) = Len(s) + 1
      /\ DOMAIN s = 1..Len(s)
      /\ DOMAIN t = 1..(Len(s) + 1)
      /\ \A i \in 1..Len(s) : t[i] = s[i]
      /\ t[Len(s) + 1] = e
  OBVIOUS
<1> HIDE DEF t
<1>2. ToSet(t) = ToSet(s) \cup {e}
  BY <1>1 DEF ToSet
<1>3. IsInjective(t)
  <2>1. SUFFICES ASSUME NEW i \in 1..(Len(s) + 1), NEW j \in 1..(Len(s) + 1),
                        t[i] = t[j]
                 PROVE  i = j
    BY <1>1 DEF IsInjective
  <2>2. \A k \in 1..Len(s) : t[k] \in ToSet(s) /\ t[k] # e
    BY <1>1 DEF ToSet
  <2>3. CASE i \in 1..Len(s) /\ j \in 1..Len(s)
    BY <2>1, <2>3, <1>1 DEF IsInjective
  <2> QED
    BY <2>1, <2>2, <2>3, <1>1
<1> QED
  BY <1>1, <1>2, <1>3 DEF t

LEMMA TakeFirst ==
    ASSUME NEW S, NEW s \in Seq(S), s # <<>>, IsInjective(s)
    PROVE  /\ Head(s) \in S
           /\ Tail(s) \in Seq(S)
           /\ Len(Tail(s)) = Len(s) - 1
           /\ ToSet(s) = ToSet(Tail(s)) \cup {Head(s)}
           /\ Head(s) \notin ToSet(Tail(s))
           /\ IsInjective(Tail(s))
<1> DEFINE t == Tail(s)
<1>1. /\ t \in Seq(S)
      /\ Len(s) \in Nat \ {0}
      /\ Len(t) = Len(s) - 1
      /\ DOMAIN s = 1..Len(s)
      /\ DOMAIN t = 1..(Len(s) - 1)
      /\ \A i \in 1..(Len(s) - 1) : t[i] = s[i + 1]
      /\ Head(s) = s[1]
      /\ s[1] \in S
  OBVIOUS
<1> HIDE DEF t
<1>2. ToSet(s) = ToSet(t) \cup {s[1]}
  <2>1. ASSUME NEW i \in 1..Len(s), i # 1
        PROVE  s[i] \in ToSet(t)
    <3>1. i - 1 \in DOMAIN t /\ t[i - 1] = s[i]
      BY <2>1, <1>1
    <3> QED
      BY <3>1 DEF ToSet
  <2>2. ToSet(s) \subseteq ToSet(t) \cup {s[1]}
    BY <2>1, <1>1 DEF ToSet
  <2>3. ToSet(t) \cup {s[1]} \subseteq ToSet(s)
    BY <1>1 DEF ToSet
  <2> QED
    BY <2>2, <2>3
<1>3. s[1] \notin ToSet(t)
  <2>1. ASSUME NEW i \in DOMAIN t
        PROVE  t[i] # s[1]
    <3>1. 1 \in DOMAIN s /\ i + 1 \in DOMAIN s /\ i + 1 # 1 /\ t[i] = s[i + 1]
      BY <1>1
    <3> QED
      BY <3>1 DEF IsInjective
  <2> QED
    BY <2>1 DEF ToSet
<1>4. IsInjective(t)
  <2>1. ASSUME NEW i \in DOMAIN t, NEW j \in DOMAIN t, t[i] = t[j]
        PROVE  i = j
    <3>1. i + 1 \in DOMAIN s /\ j + 1 \in DOMAIN s /\ s[i + 1] = s[j + 1]
      BY <1>1, <2>1
    <3>2. i + 1 = j + 1
      BY <3>1 DEF IsInjective
    <3> QED
      BY <3>2, <1>1
  <2> QED
    BY <2>1 DEF IsInjective
<1> QED
  BY <1>1, <1>2, <1>3, <1>4 DEF t

\* Each name asked for is in the queue or in the hands of Upload(), once.
NamesInv ==
    /\ uploads \in Seq(Files)
    /\ filename \in Files \cup {NoFile}
    /\ (pc = "uploading") <=> (filename # NoFile)
    /\ NoFileForgotten

Credit(b) == IF b THEN 1 ELSE 0

\* The uploads that will be begun: for callers about to signal, for the
\* signal in the word or in the hands of ProcessEvent, and for the state.
Owed ==
    Cardinality(calling)
    + Credit("UploadRequest" \in flags)
    + Credit(pc = "event" /\ "UploadRequest" \in value)
    + Credit(upload.state = "Upload")

Held == Len(uploads) + Credit(pc = "uploading")

\* The copy of the word taken by signal_wait counts only once the word has been
\* cleared.
CreditInv ==
    /\ IsFiniteSet(calling)
    /\ pc = "clear" => value \subseteq flags
    /\ pc = "clear" /\ status # "signal" => value = {}
    /\ pc \notin {"clear", "event", "withdraw"} => value = {}
    /\ Owed <= Held

QueueInv == ServerInv /\ NamesInv /\ CreditInv

\* What a step must respect in order not to concern the queue.
LEMMA OthersKeepNames ==
    ASSUME NamesInv, UNCHANGED <<uploads, filename, asked>>,
           (pc' = "uploading") <=> (pc = "uploading")
    PROVE  NamesInv'
  BY DEF NamesInv, NoFileForgotten

LEMMA OthersKeepCredit ==
    ASSUME CreditInv, UNCHANGED <<uploads, calling>>,
           (pc' = "uploading") <=> (pc = "uploading"),
           upload'.state = "Upload" => upload.state = "Upload",
           "UploadRequest" \in flags' => "UploadRequest" \in flags,
           pc' = "event" /\ "UploadRequest" \in value'
               => pc = "event" /\ "UploadRequest" \in value,
           pc' = "clear" => value' \subseteq flags',
           pc' = "clear" /\ status' # "signal" => value' = {},
           pc' \notin {"clear", "event", "withdraw"} => value' = {},
           uploads \in Seq(Files)
    PROVE  CreditInv'
<1>1. Cardinality(calling) \in Nat /\ Len(uploads) \in Nat
  BY FS_CardinalityType DEF CreditInv
<1>2. Owed' <= Owed /\ Held' = Held /\ Owed \in Nat /\ Held \in Nat
  BY <1>1 DEF Owed, Held, Credit
<1>3. Owed' \in Nat
  BY <1>1 DEF Owed, Credit
<1> QED
  BY <1>2, <1>3 DEF CreditInv

\* A driver's report or a retry adds other signals to the word only.
LEMMA OtherSignals ==
    ASSUME NEW S, Signal(S), "UploadRequest" \notin S
    PROVE  /\ "UploadRequest" \in flags' => "UploadRequest" \in flags
           /\ flags \subseteq flags'
  BY DEF Signal

LEMMA WifiAndNtpKeepQueue ==
    ASSUME QueueInv, WifiStep \/ NtpStep
    PROVE  NamesInv' /\ CreditInv'
<1>1. CASE WifiStep
  <2>1. /\ UNCHANGED <<value, upload, queue>>
        /\ pc' \notin {"clear", "event", "withdraw", "uploading"}
        /\ pc \notin {"clear", "event", "withdraw", "uploading"}
    BY <1>1 DEF WifiStep, WifiIdle, WifiNotConnecting, ConnectBegin,
                ConnectAccepted, ConnectRefused, WifiPoll, tasks, queue
  <2>2. "UploadRequest" \in flags' => "UploadRequest" \in flags
    BY <1>1 DEF WifiStep, WifiIdle, WifiNotConnecting, ConnectBegin,
                ConnectAccepted, ConnectRefused, WifiPoll,
                SetConnectionStatus, Signal
  <2>3. NamesInv'
    BY <2>1, OthersKeepNames DEF QueueInv, queue
  <2>4. value = {}
    BY <2>1 DEF QueueInv, CreditInv
  <2>5. CreditInv'
    BY <2>1, <2>2, <2>4, OthersKeepCredit DEF QueueInv, NamesInv, queue
  <2> QED
    BY <2>3, <2>5
<1>2. CASE NtpStep
  <2>1. /\ UNCHANGED <<flags, value, upload, queue>>
        /\ pc' \notin {"clear", "event", "withdraw", "uploading"}
        /\ pc \notin {"clear", "event", "withdraw", "uploading"}
    BY <1>2 DEF NtpStep, NtpIdle, NtpNotConnected, NtpOk, NtpFailed,
                NtpResync, NtpGoesOn, queue
  <2>2. NamesInv'
    BY <2>1, OthersKeepNames DEF QueueInv, queue
  <2>3. value = {}
    BY <2>1 DEF QueueInv, CreditInv
  <2>4. CreditInv'
    BY <2>1, <2>3, OthersKeepCredit DEF QueueInv, NamesInv, queue
  <2> QED
    BY <2>2, <2>4
<1> QED
  BY <1>1, <1>2

LEMMA WaitKeepsQueue ==
    ASSUME QueueInv, WaitStep
    PROVE  NamesInv' /\ CreditInv'
<1>1. /\ UNCHANGED queue
      /\ pc \in {"wait", "clear"}
      /\ pc' \in {"wifi", "clear", "event"}
    BY DEF WaitStep, PollOnce, ClearAndProgress, WakeBySignal, WakeByTimeOut
<1>2. NamesInv'
  BY <1>1, OthersKeepNames DEF QueueInv, queue
<1>3. upload'.state = upload.state
  BY DEF WaitStep, PollOnce, ClearAndProgress, WakeBySignal, WakeByTimeOut,
         Progress, tasks, QueueInv, ServerInv, UploadTypeOK
<1>4. CASE \E expired \in Expiries : ClearAndProgress(expired)
  <2>1. /\ pc = "clear"
        /\ flags' = {}
        /\ value' = value
        /\ pc' = IF status = "signal" THEN "event" ELSE "wifi"
    BY <1>4 DEF ClearAndProgress
  <2>2. Cardinality(calling) \in Nat /\ Len(uploads) \in Nat
    BY FS_CardinalityType DEF QueueInv, CreditInv, NamesInv
  <2>3. "UploadRequest" \in value => "UploadRequest" \in flags
    BY <2>1 DEF QueueInv, CreditInv
  <2>4. Owed' <= Owed /\ Held' = Held /\ Owed' \in Nat /\ Owed \in Nat
        /\ Held \in Nat
    BY <1>1, <1>3, <2>1, <2>2, <2>3 DEF Owed, Held, Credit, queue
  <2> QED
    BY <1>1, <1>2, <2>1, <2>4 DEF QueueInv, CreditInv, queue
<1>5. CASE \E expired \in Expiries : PollOnce(expired)
  <2>1. pc = "wait" /\ pc' = "wifi" /\ UNCHANGED <<flags, value>>
    BY <1>5 DEF PollOnce
  <2> QED
    BY <1>1, <1>2, <1>3, <2>1, OthersKeepCredit
    DEF QueueInv, CreditInv, NamesInv, queue
<1>6. CASE WakeBySignal
  <2>1. /\ pc = "wait" /\ pc' = "clear" /\ UNCHANGED flags
        /\ value' = flags /\ status' = "signal"
    BY <1>6 DEF WakeBySignal
  <2> QED
    BY <1>1, <1>2, <1>3, <2>1, OthersKeepCredit
    DEF QueueInv, CreditInv, NamesInv, queue
<1>7. CASE WakeByTimeOut
  <2>1. pc = "wait" /\ pc' = "clear" /\ UNCHANGED <<flags, value>>
    BY <1>7 DEF WakeByTimeOut
  <2> QED
    BY <1>1, <1>2, <1>3, <2>1, OthersKeepCredit
    DEF QueueInv, CreditInv, NamesInv, queue
<1> QED
  BY <1>4, <1>5, <1>6, <1>7 DEF WaitStep

\* The handler turns the signal it was handed into the state at most.
LEMMA EventKeepsQueue ==
    ASSUME QueueInv, ProcessEvent
    PROVE  NamesInv' /\ CreditInv'
<1>1. /\ UNCHANGED <<queue, value>> /\ pc = "event" /\ pc' = "withdraw"
      /\ upload' = UploadEvent
  BY DEF ProcessEvent
<1>2. "UploadRequest" \in flags' => "UploadRequest" \in flags
  BY DEF ProcessEvent, Signal
<1>3. upload'.state = "Upload"
          => upload.state = "Upload" \/ "UploadRequest" \in value
  BY <1>1 DEF UploadEvent, QueueInv, ServerInv, UploadTypeOK
<1>4. Cardinality(calling) \in Nat /\ Len(uploads) \in Nat
  BY FS_CardinalityType DEF QueueInv, CreditInv, NamesInv
<1>5. Owed' <= Owed /\ Held' = Held /\ Owed' \in Nat /\ Owed \in Nat
      /\ Held \in Nat
  BY <1>1, <1>2, <1>3, <1>4 DEF Owed, Held, Credit, queue
<1>6. NamesInv'
  BY <1>1, OthersKeepNames DEF QueueInv, queue
<1> QED
  BY <1>1, <1>5, <1>6 DEF QueueInv, CreditInv, queue

\* Upload() finds a name, because its state is owed one.
LEMMA NameForUpload ==
    ASSUME QueueInv
    PROVE  UploadNeverEmpty
<1>1. SUFFICES ASSUME UploadAt("Upload")
               PROVE  uploads # <<>>
  BY DEF UploadNeverEmpty
<1>2. Cardinality(calling) \in Nat /\ Len(uploads) \in Nat
  BY FS_CardinalityType DEF QueueInv, CreditInv, NamesInv
<1>3. Owed >= 1 /\ Held = Len(uploads)
  BY <1>1, <1>2 DEF Owed, Held, Credit, UploadAt
<1>4. Len(uploads) >= 1
  BY <1>2, <1>3 DEF QueueInv, CreditInv, Owed, Credit
<1> QED
  BY <1>4

LEMMA BeginKeepsQueue ==
    ASSUME QueueInv, UploadBegin
    PROVE  NamesInv' /\ CreditInv'
<1>1. /\ pc = "upload" /\ pc' = "uploading" /\ filename = NoFile
      /\ uploads # <<>>
      /\ UNCHANGED <<flags, value, status, upload, calling, asked>>
      /\ filename' = Head(uploads)
      /\ uploads' = Tail(uploads)
  BY NameForUpload
  DEF UploadBegin, UploadAt, UploadNeverEmpty, tasks, QueueInv, NamesInv
<1>2. /\ Head(uploads) \in Files
      /\ Tail(uploads) \in Seq(Files)
      /\ Len(Tail(uploads)) = Len(uploads) - 1
      /\ ToSet(uploads) = ToSet(Tail(uploads)) \cup {Head(uploads)}
      /\ Head(uploads) \notin ToSet(Tail(uploads))
      /\ IsInjective(Tail(uploads))
  BY <1>1, TakeFirst DEF QueueInv, NamesInv, NoFileForgotten
<1>3. ToSet(uploads)' = ToSet(Tail(uploads))
  BY <1>1
<1>4. NamesInv'
  BY <1>1, <1>2, <1>3, FilesAssumption
  DEF QueueInv, NamesInv, NoFileForgotten
<1>5. Cardinality(calling) \in Nat /\ Len(uploads) \in Nat
  BY FS_CardinalityType DEF QueueInv, CreditInv, NamesInv
<1>6. Owed' = Owed /\ Held' = Held
  BY <1>1, <1>2, <1>5 DEF Owed, Held, Credit
<1> QED
  BY <1>1, <1>4, <1>6 DEF QueueInv, CreditInv

\* An accepted name leaves the system, and the state with it.
LEMMA AcceptedKeepsQueue ==
    ASSUME QueueInv, UploadAccepted
    PROVE  NamesInv' /\ CreditInv'
<1>1. /\ pc = "uploading" /\ pc' = "drive" /\ filename # NoFile
      /\ UNCHANGED <<flags, value, status, uploads, calling>>
      /\ filename' = NoFile
      /\ asked' = asked \ {filename}
      /\ upload.state = "Upload"
  BY DEF UploadAccepted, UploadGoesOn, QueueInv, ServerInv
<1>2. upload'.state = "Detected"
  BY DEF UploadAccepted, UploadGoesOn, RequestDone, QueueInv, ServerInv,
         UploadTypeOK
<1>3. ToSet(uploads)' = ToSet(uploads) /\ NoFile \notin ToSet(uploads)
  BY <1>1, FilesAssumption DEF ToSet, QueueInv, NamesInv
<1>4. NamesInv'
  BY <1>1, <1>3 DEF QueueInv, NamesInv, NoFileForgotten
<1>5. Cardinality(calling) \in Nat /\ Len(uploads) \in Nat
  BY FS_CardinalityType DEF QueueInv, CreditInv, NamesInv
<1>6. Owed' = Owed - 1 /\ Held' = Held - 1 /\ Owed \in Int /\ Held \in Int
  BY <1>1, <1>2, <1>5 DEF Owed, Held, Credit
<1> QED
  BY <1>1, <1>4, <1>6 DEF QueueInv, CreditInv

\* A refused one goes back; it is not empty, nor in the queue already.
LEMMA RefusedKeepsQueue ==
    ASSUME QueueInv, UploadRefused
    PROVE  NamesInv' /\ CreditInv'
<1>1. /\ pc = "uploading" /\ pc' = "drive" /\ filename # NoFile
      /\ UNCHANGED <<flags, value, status, calling, asked>>
      /\ uploads' = Append(uploads, filename)
      /\ filename' = NoFile
      /\ upload.state = "Upload"
      /\ filename \in Files /\ filename \notin ToSet(uploads)
  BY DEF UploadRefused, UploadGoesOn, QueueInv, ServerInv, NamesInv,
         NoFileForgotten
<1>2. /\ Append(uploads, filename) \in Seq(Files)
      /\ Len(Append(uploads, filename)) = Len(uploads) + 1
      /\ ToSet(Append(uploads, filename)) = ToSet(uploads) \cup {filename}
      /\ IsInjective(Append(uploads, filename))
  BY <1>1, AppendNew DEF QueueInv, NamesInv, NoFileForgotten
<1>3. /\ ToSet(uploads)' = ToSet(Append(uploads, filename))
      /\ NoFile \notin ToSet(uploads)
      /\ IsInjective(uploads)' = IsInjective(Append(uploads, filename))
  BY <1>1, FilesAssumption DEF ToSet, QueueInv, NamesInv
<1>4. NamesInv'
  BY <1>1, <1>2, <1>3 DEF QueueInv, NamesInv, NoFileForgotten
<1>5. Cardinality(calling) \in Nat /\ Len(uploads) \in Nat
  BY FS_CardinalityType DEF QueueInv, CreditInv, NamesInv
<1>6. Owed' <= Owed /\ Held' = Held /\ Owed \in Nat /\ Owed' \in Nat
      /\ Held \in Nat
  BY <1>1, <1>2, <1>5 DEF Owed, Held, Credit
<1> QED
  BY <1>1, <1>4, <1>6 DEF QueueInv, CreditInv

LEMMA UploadKeepsQueue ==
    ASSUME QueueInv, UploadStep
    PROVE  NamesInv' /\ CreditInv'
<1>1. CASE UploadBegin
  BY <1>1, BeginKeepsQueue
<1>2. CASE UploadAccepted
  BY <1>2, AcceptedKeepsQueue
<1>3. CASE UploadRefused
  BY <1>3, RefusedKeepsQueue
<1>4. CASE \/ UploadIdle \/ ServerNotReachable \/ ServerNotFound
           \/ \E server \in {"address", "unresolved"} : ServerFound(server)
           \/ DetectedStays \/ UpdateOk \/ UpdateFailed \/ UpdateCrashes
  <2>1. /\ pc = "upload" /\ pc' \in {"drive", "crashed"}
        /\ UNCHANGED <<flags, value, queue>>
    BY <1>4 DEF UploadIdle, ServerNotReachable, ServerFound, ServerNotFound,
                DetectedStays, UpdateOk, UpdateFailed, UpdateCrashes,
                UploadAt, UploadGoesOn, tasks
  <2>2. upload'.state = "Upload" => upload.state = "Upload"
    BY <1>4 DEF UploadIdle, ServerNotReachable, ServerFound, ServerNotFound,
                DetectedStays, UpdateOk, UpdateFailed, UpdateCrashes, UploadAt,
                UploadGoesOn, tasks, RequestDone, RequestFailed, QueueInv, ServerInv, UploadTypeOK
  <2>3. value = {}
    BY <2>1 DEF QueueInv, CreditInv
  <2>4. NamesInv'
    BY <2>1, OthersKeepNames DEF QueueInv, queue
  <2>5. CreditInv'
    BY <2>1, <2>2, <2>3, OthersKeepCredit DEF QueueInv, NamesInv, queue
  <2> QED
    BY <2>4, <2>5
<1> QED
  BY <1>1, <1>2, <1>3, <1>4 DEF UploadStep

\* UploadRequest pays in advance: a name for the signal it is going to send.
LEMMA CallersKeepQueue ==
    ASSUME QueueInv, NEW f \in Files,
           UploadRequestQueue(f) \/ UploadRequestSignal(f)
    PROVE  NamesInv' /\ CreditInv'
<1>1. /\ Cardinality(calling) \in Nat /\ Len(uploads) \in Nat
      /\ IsFiniteSet(calling)
  BY FS_CardinalityType DEF QueueInv, CreditInv, NamesInv
<1>2. CASE UploadRequestQueue(f)
  <2>1. /\ UNCHANGED <<flags, value, status, pc, upload, filename>>
        /\ f \notin asked /\ f \notin calling /\ f # NoFile
        /\ uploads' = Append(uploads, f)
        /\ asked' = asked \cup {f}
        /\ calling' = calling \cup {f}
    BY <1>2, FilesAssumption DEF UploadRequestQueue, thread, tasks
  <2>2. f \notin ToSet(uploads) /\ f # filename
    BY <2>1 DEF QueueInv, NamesInv, NoFileForgotten
  <2>3. /\ Append(uploads, f) \in Seq(Files)
        /\ Len(Append(uploads, f)) = Len(uploads) + 1
        /\ ToSet(Append(uploads, f)) = ToSet(uploads) \cup {f}
        /\ IsInjective(Append(uploads, f))
    BY <2>2, AppendNew DEF QueueInv, NamesInv, NoFileForgotten
  <2>4. /\ ToSet(uploads)' = ToSet(Append(uploads, f))
        /\ IsInjective(uploads)' = IsInjective(Append(uploads, f))
    BY <2>1
  <2>5. NamesInv'
    BY <2>1, <2>2, <2>3, <2>4 DEF QueueInv, NamesInv, NoFileForgotten
  <2>6. IsFiniteSet(calling') /\ Cardinality(calling') = Cardinality(calling) + 1
    BY <1>1, <2>1, FS_AddElement
  <2>7. Owed' = Owed + 1 /\ Held' = Held + 1 /\ Owed \in Nat /\ Held \in Nat
    BY <1>1, <2>1, <2>3, <2>6 DEF Owed, Held, Credit
  <2> QED
    BY <2>1, <2>5, <2>6, <2>7 DEF QueueInv, CreditInv
<1>3. CASE UploadRequestSignal(f)
  <2>1. /\ UNCHANGED <<value, status, pc, upload, uploads, filename, asked>>
        /\ f \in calling
        /\ flags' = flags \cup {"UploadRequest"}
        /\ calling' = calling \ {f}
    BY <1>3 DEF UploadRequestSignal, Signal, tasks
  <2>2. IsFiniteSet(calling') /\ Cardinality(calling') = Cardinality(calling) - 1
    BY <1>1, <2>1, FS_RemoveElement
  <2>3. Owed' <= Owed /\ Held' = Held /\ Owed \in Nat /\ Owed' \in Int
        /\ Held \in Nat
    BY <1>1, <2>1, <2>2 DEF Owed, Held, Credit
  <2>4. NamesInv'
    BY <2>1, OthersKeepNames DEF QueueInv
  <2> QED
    BY <2>1, <2>2, <2>3, <2>4 DEF QueueInv, CreditInv
<1> QED
  BY <1>2, <1>3

LEMMA QueueInvariant == Spec => []QueueInv
<1>1. Init => QueueInv
  <2> SUFFICES ASSUME Init
               PROVE  QueueInv
    OBVIOUS
  <2>1. ServerInv
    BY DEF Init, ServerInv, UploadTypeOK, ServerKnownForRequests, Servers, Timers
  <2>2. NamesInv
    BY DEF Init, NamesInv, NoFileForgotten, ToSet, IsInjective
  <2>3. CreditInv
    BY FS_EmptySet DEF Init, CreditInv, Owed, Held, Credit
  <2> QED
    BY <2>1, <2>2, <2>3 DEF QueueInv
<1>2. QueueInv /\ [Next]_vars => NamesInv' /\ CreditInv'
  <2> SUFFICES ASSUME QueueInv, [Next]_vars
               PROVE  NamesInv' /\ CreditInv'
    OBVIOUS
  <2>1. CASE WaitStep
    BY <2>1, WaitKeepsQueue
  <2>2. CASE ProcessEvent
    BY <2>2, EventKeepsQueue
  <2>3. CASE WifiStep \/ NtpStep
    BY <2>3, WifiAndNtpKeepQueue
  <2>4. CASE UploadStep
    BY <2>4, UploadKeepsQueue
  <2>5. CASE Withdraw \/ DriveProcess
    <3>1. /\ UNCHANGED <<upload, queue>> /\ flags' \subseteq flags
          /\ value' = {} /\ pc' \in {"wifi", "wait"} /\ pc # "uploading"
      BY <2>5 DEF Withdraw, DriveProcess, tasks, QueueInv, CreditInv
    <3> QED
      BY <3>1, OthersKeepNames, OthersKeepCredit
      DEF QueueInv, NamesInv, CreditInv, queue
  <2>6. ASSUME NEW new \in {"UP", "DISCONNECTED"}, DriverReports(new)
        PROVE  NamesInv' /\ CreditInv'
    <3>1. UNCHANGED <<upload, queue, value, status, pc>>
      BY <2>6 DEF DriverReports, tasks
    <3>2. /\ "UploadRequest" \in flags' => "UploadRequest" \in flags
          /\ flags \subseteq flags'
      BY <2>6 DEF DriverReports, SetConnectionStatus, Signal
    <3> QED
      BY <3>1, <3>2, OthersKeepNames, OthersKeepCredit
      DEF QueueInv, NamesInv, CreditInv, queue
  <2>7. CASE UpdateRequest
    <3>1. /\ UNCHANGED <<upload, queue, value, status, pc>>
          /\ Signal({"UpdateRequest"})
      BY <2>7 DEF UpdateRequest, tasks
    <3>2. /\ "UploadRequest" \in flags' => "UploadRequest" \in flags
          /\ flags \subseteq flags'
      BY <3>1 DEF Signal
    <3> QED
      BY <3>1, <3>2, OthersKeepNames, OthersKeepCredit
      DEF QueueInv, NamesInv, CreditInv, queue
  <2>8. ASSUME NEW f \in Files,
               UploadRequestQueue(f) \/ UploadRequestSignal(f)
        PROVE  NamesInv' /\ CreditInv'
    BY <2>8, CallersKeepQueue
  <2>9. CASE UNCHANGED vars
    <3>1. UNCHANGED <<flags, upload, queue, value, status, pc>>
      BY <2>9 DEF vars, queue
    <3> QED
      BY <3>1, OthersKeepNames, OthersKeepCredit
      DEF QueueInv, NamesInv, CreditInv, queue
  <2> QED
    BY <2>1, <2>2, <2>3, <2>4, <2>5, <2>6, <2>7, <2>8, <2>9
    DEF Next, ThreadStep
<1>3. QueueInv /\ ServerInv' /\ [Next]_vars => QueueInv'
  BY <1>2 DEF QueueInv
<1> QED
  BY <1>1, <1>3, ServerInvariant, PTL DEF Spec

\* An upload is begun only when a name is waiting: every signal sent stands
\* for a name of its own, whatever becomes of signals and requests.
THEOREM QueueNotEmpty == Spec => []UploadNeverEmpty
  BY QueueInvariant, NameForUpload, PTL

\* Names are neither lost nor duplicated by failures, retries and concurrent
\* requests, for any number of files.
THEOREM NamesKept == Spec => []NoFileForgotten
<1>1. QueueInv => NoFileForgotten
  BY DEF QueueInv, NamesInv
<1> QED
  BY <1>1, QueueInvariant, PTL
--------------------------------------------------------------------------------
(***************************************************************************)
(* Type correctness, and the box.  What the other invariants have not said *)
(* is typed here: the mailbox, the driver, and the tasks other than the    *)
(* uploading one.                                                          *)
(***************************************************************************)
WifiTypes == [timer : Timers, state : {"Disconnected", "Connecting", "Connected"}]

NtpTypes == [timer : Timers, state : {"Unsynced", "Synced"}, retry : 0..2]

MailboxTypeOK ==
    /\ flags \subseteq Signals
    /\ evf \in BOOLEAN
    /\ pc \in {"wait", "clear", "event", "withdraw", "wifi", "connecting",
               "ntp", "upload", "uploading", "drive", "crashed"}
    /\ status \in {"signal", "timeout"}
    /\ value \subseteq Signals

TasksTypeOK ==
    /\ esp \in Statuses
    /\ wifi \in WifiTypes
    /\ ntp \in NtpTypes
    /\ calling \subseteq Files

TypeInv == MailboxTypeOK /\ TasksTypeOK

LEMMA SignalTyped ==
    ASSUME MailboxTypeOK, NEW S, S \subseteq Signals, Signal(S)
    PROVE  flags' \subseteq Signals /\ evf' \in BOOLEAN
  BY DEF MailboxTypeOK, Signal

\* Progress, of whichever tasks.
LEMMA ProgressTyped ==
    ASSUME TasksTypeOK, NEW expired, Progress(expired)
    PROVE  wifi' \in WifiTypes /\ ntp' \in NtpTypes
<1>1. \A timer, elapsed : Progressed(timer, elapsed) \in Timers
  BY DEF Progressed, Timers
<1> QED
  BY <1>1 DEF Progress, TasksTypeOK, WifiTypes, NtpTypes

LEMMA WaitTyped ==
    ASSUME TypeInv, WaitStep
    PROVE  TypeInv'
<1>1. MailboxTypeOK'
  BY DEF TypeInv, MailboxTypeOK, WaitStep, PollOnce, ClearAndProgress,
         WakeBySignal, WakeByTimeOut
<1>2. UNCHANGED <<esp, calling>>
  BY DEF WaitStep, PollOnce, ClearAndProgress, WakeBySignal, WakeByTimeOut,
         queue
<1>3. CASE \E expired \in Expiries :
               PollOnce(expired) \/ ClearAndProgress(expired)
  <2>1. PICK expired \in Expiries : Progress(expired)
    BY <1>3 DEF PollOnce, ClearAndProgress
  <2>2. wifi' \in WifiTypes /\ ntp' \in NtpTypes
    BY <2>1, ProgressTyped DEF TypeInv
  <2> QED
    BY <1>1, <1>2, <2>2 DEF TypeInv, TasksTypeOK
<1>4. CASE WakeBySignal \/ WakeByTimeOut
  BY <1>1, <1>2, <1>4
  DEF TypeInv, TasksTypeOK, WakeBySignal, WakeByTimeOut, tasks
<1> QED
  BY <1>3, <1>4 DEF WaitStep

LEMMA EventTyped ==
    ASSUME TypeInv, ProcessEvent
    PROVE  TypeInv'
<1>1. WifiEvent \in WifiTypes
  BY DEF WifiEvent, WifiTypes, TypeInv, TasksTypeOK, Statuses, Timers
<1>2. NtpEvent \in NtpTypes
  BY DEF NtpEvent, NtpTypes, TypeInv, TasksTypeOK, Timers
<1>3. flags' \subseteq Signals /\ evf' \in BOOLEAN
  BY SignalTyped DEF ProcessEvent, TypeInv, Signals
<1> QED
  BY <1>1, <1>2, <1>3
  DEF ProcessEvent, TypeInv, MailboxTypeOK, TasksTypeOK, queue

LEMMA WifiTyped ==
    ASSUME TypeInv, WifiStep
    PROVE  TypeInv'
<1> USE DEF TypeInv, MailboxTypeOK, TasksTypeOK, tasks, queue
<1>1. CASE WifiIdle
  BY <1>1 DEF WifiIdle
<1>2. CASE WifiNotConnecting
  BY <1>2 DEF WifiNotConnecting, WifiTypes, Timers
<1>3. CASE ConnectBegin
  <2>1. flags' \subseteq Signals /\ evf' \in BOOLEAN
    BY <1>3, SignalTyped DEF ConnectBegin, SetConnectionStatus, Signals
  <2> QED
    BY <1>3, <2>1 DEF ConnectBegin, SetConnectionStatus, Statuses
<1>4. CASE ConnectAccepted
  BY <1>4 DEF ConnectAccepted, WifiTypes, Timers
<1>5. CASE ConnectRefused
  <2>1. flags' \subseteq Signals /\ evf' \in BOOLEAN
    BY <1>5, SignalTyped DEF ConnectRefused, SetConnectionStatus, Signals
  <2> QED
    BY <1>5, <2>1
    DEF ConnectRefused, SetConnectionStatus, Statuses, WifiTypes, Timers
<1>6. CASE WifiPoll
  <2>1. flags' \subseteq Signals /\ evf' \in BOOLEAN
    BY <1>6, SignalTyped DEF WifiPoll, Signals
  <2>2. wifi' \in WifiTypes
    BY <1>6 DEF WifiPoll, WifiTypes, Statuses, Timers
  <2> QED
    BY <1>6, <2>1, <2>2 DEF WifiPoll
<1> QED
  BY <1>1, <1>2, <1>3, <1>4, <1>5, <1>6 DEF WifiStep

LEMMA NtpTyped ==
    ASSUME TypeInv, NtpStep
    PROVE  TypeInv'
<1>1. Retried(ntp.retry) \in 0..2
  BY RetriedInRange DEF TypeInv, TasksTypeOK, NtpTypes
<1>2. ntp' \in NtpTypes
  <2> USE DEF NtpTypes, Timers, TypeInv, TasksTypeOK
  <2>1. CASE NtpIdle \/ NtpNotConnected \/ NtpResync
    BY <2>1 DEF NtpIdle, NtpNotConnected, NtpResync, NtpGoesOn
  <2>2. CASE NtpOk
    <3>1. 0 \in 0..2
      OBVIOUS
    <3> QED
      BY <2>2, <3>1 DEF NtpOk, NtpGoesOn
  <2>3. CASE NtpFailed
    BY <1>1, <2>3 DEF NtpFailed, NtpGoesOn
  <2> QED
    BY <2>1, <2>2, <2>3 DEF NtpStep
<1>3. pc' = "upload" /\ UNCHANGED <<flags, evf, status, value, esp, wifi, calling>>
  BY DEF NtpStep, NtpIdle, NtpNotConnected, NtpOk, NtpFailed, NtpResync,
         NtpGoesOn, queue
<1> QED
  BY <1>2, <1>3 DEF TypeInv, MailboxTypeOK, TasksTypeOK

LEMMA TypesInductive == Spec => []TypeInv
<1>1. Init => TypeInv
  <2> SUFFICES ASSUME Init
               PROVE  TypeInv
    OBVIOUS
  <2>1. MailboxTypeOK
    BY DEF Init, MailboxTypeOK
  <2>2. wifi \in WifiTypes /\ ntp \in NtpTypes
    <3>1. 0 \in 0..2
      OBVIOUS
    <3> QED
      BY <3>1 DEF Init, WifiTypes, NtpTypes, Timers
  <2> QED
    BY <2>1, <2>2 DEF Init, TypeInv, TasksTypeOK, Statuses
<1>2. TypeInv /\ [Next]_vars => TypeInv'
  <2> SUFFICES ASSUME TypeInv, [Next]_vars
               PROVE  TypeInv'
    OBVIOUS
  <2>1. CASE WaitStep
    BY <2>1, WaitTyped
  <2>2. CASE ProcessEvent
    BY <2>2, EventTyped
  <2>3. CASE Withdraw \/ DriveProcess
    BY <2>3 DEF Withdraw, DriveProcess, TypeInv, MailboxTypeOK, TasksTypeOK,
                tasks, queue
  <2>4. CASE WifiStep
    BY <2>4, WifiTyped
  <2>5. CASE NtpStep
    BY <2>5, NtpTyped
  <2>6. CASE UploadStep
    <3>1. /\ pc' \in {"uploading", "drive", "crashed"}
          /\ UNCHANGED <<flags, evf, status, value, esp, wifi, ntp, calling>>
      BY <2>6 DEF UploadStep, UploadIdle, ServerNotReachable, ServerFound,
                  ServerNotFound, DetectedStays, UpdateOk, UpdateFailed,
                  UpdateCrashes, UploadBegin, UploadAccepted, UploadRefused, UploadGoesOn,
                  tasks, queue
    <3> QED
      BY <3>1 DEF TypeInv, MailboxTypeOK, TasksTypeOK
  <2>7. ASSUME NEW new \in {"UP", "DISCONNECTED"}, DriverReports(new)
        PROVE  TypeInv'
    <3>1. flags' \subseteq Signals /\ evf' \in BOOLEAN
      BY <2>7, SignalTyped
      DEF DriverReports, SetConnectionStatus, TypeInv, Signals
    <3> QED
      BY <2>7, <3>1 DEF DriverReports, SetConnectionStatus, Statuses, TypeInv,
                        MailboxTypeOK, TasksTypeOK, tasks, queue
  <2>8. CASE UpdateRequest
    <3>1. flags' \subseteq Signals /\ evf' \in BOOLEAN
      BY <2>8, SignalTyped DEF UpdateRequest, TypeInv, Signals
    <3> QED
      BY <2>8, <3>1 DEF UpdateRequest, TypeInv, MailboxTypeOK, TasksTypeOK,
                        tasks, queue
  <2>9. ASSUME NEW f \in Files, UploadRequestQueue(f)
        PROVE  TypeInv'
    BY <2>9 DEF UploadRequestQueue, TypeInv, MailboxTypeOK, TasksTypeOK,
                thread, tasks
  <2>10. ASSUME NEW f \in Files, UploadRequestSignal(f)
         PROVE  TypeInv'
    <3>1. flags' \subseteq Signals /\ evf' \in BOOLEAN
      BY <2>10, SignalTyped DEF UploadRequestSignal, TypeInv, Signals
    <3> QED
      BY <2>10, <3>1 DEF UploadRequestSignal, TypeInv, MailboxTypeOK,
                         TasksTypeOK, tasks
  <2>11. CASE UNCHANGED vars
    BY <2>11 DEF vars, TypeInv, MailboxTypeOK, TasksTypeOK
  <2> QED
    BY <2>1, <2>2, <2>3, <2>4, <2>5, <2>6, <2>7, <2>8, <2>9, <2>10, <2>11
    DEF Next, ThreadStep
<1> QED
  BY <1>1, <1>2, PTL DEF Spec

\* The state is well-typed for any files; the retry counts in particular never
\* leave 0..2.
THEOREM TypeCorrect == Spec => []TypeOK
<1>1. TypeInv /\ QueueInv /\ DriveInv => TypeOK
  <2> SUFFICES ASSUME TypeInv, QueueInv, DriveInv
               PROVE  TypeOK
    OBVIOUS
  <2>1. asked \subseteq Files
    BY DEF QueueInv, NamesInv, NoFileForgotten, ToSet
  <2> QED
    BY <2>1 DEF TypeOK, TypeInv, MailboxTypeOK, TasksTypeOK, WifiTypes,
                NtpTypes, QueueInv, ServerInv, UploadTypeOK, NamesInv,
                DriveInv, Timers
<1> QED
  BY <1>1, TypesInductive, QueueInvariant, DriveInvariant, PTL

(***************************************************************************)
(* Attempts.  A state is left either for the result of an attempt, which   *)
(* resets the count, or for a signal; and signals are handled at the first *)
(* wake-up only, before any attempt was made.                              *)
(***************************************************************************)
NoAttempts == upload.retry = 0 /\ ntp.retry = 0

AttemptsInv ==
    /\ upload.state = "Detected" => upload.retry = 0
    /\ ntp.state = "Synced" => ntp.retry = 0
    /\ drive = "forever" \/ pc \in {"clear", "event", "withdraw"} => NoAttempts

AttemptsTypeOK == ServerInv /\ ntp \in NtpTypes

\* What a step does to the two counts.
StartsAfresh ==
    /\ upload'.state # upload.state => upload'.retry = 0
    /\ ntp'.state # ntp.state => ntp'.retry = 0

\* Steps that change neither task's state nor its count, made after the first
\* wake-up or leading nowhere from it.
LEMMA OthersKeepAttempts ==
    ASSUME AttemptsInv,
           upload'.state = upload.state, upload'.retry = upload.retry,
           ntp'.state = ntp.state, ntp'.retry = ntp.retry,
           drive' = "forever" \/ pc' \in {"clear", "event", "withdraw"}
               => drive = "forever" \/ pc \in {"clear", "event", "withdraw"}
    PROVE  AttemptsInv' /\ StartsAfresh
  BY DEF AttemptsInv, NoAttempts, StartsAfresh

LEMMA WaitKeepsAttempts ==
    ASSUME AttemptsTypeOK, DriveInv, AttemptsInv, WaitStep
    PROVE  AttemptsInv' /\ StartsAfresh
<1>1. CASE \E expired \in Expiries :
               PollOnce(expired) \/ ClearAndProgress(expired)
  <2>1. PICK expired \in Expiries :
               PollOnce(expired) \/ ClearAndProgress(expired)
    BY <1>1
  <2>2. Progress(expired)
    BY <2>1 DEF PollOnce, ClearAndProgress
  <2>3. /\ upload'.state = upload.state /\ upload'.retry = upload.retry
        /\ ntp'.state = ntp.state /\ ntp'.retry = ntp.retry
    BY <2>2 DEF Progress, AttemptsTypeOK, ServerInv, UploadTypeOK, NtpTypes
  <2>4. drive' = "due"
    BY <2>2, ProgressMakesDriveDue
  <2>5. pc' \in {"clear", "event", "withdraw"} => pc = "clear"
    BY <2>1 DEF PollOnce, ClearAndProgress
  <2> QED
    BY <2>3, <2>4, <2>5, OthersKeepAttempts
<1>2. CASE WakeBySignal \/ WakeByTimeOut
  <2>1. drive = "forever"
    BY <1>2, DueNeverWakes DEF DriveInv
  <2>2. UNCHANGED <<upload, ntp>>
    BY <1>2 DEF WakeBySignal, WakeByTimeOut, tasks
  <2> QED
    BY <2>1, <2>2, OthersKeepAttempts
<1> QED
  BY <1>1, <1>2 DEF WaitStep

\* The signals are handled while no attempt counts.
LEMMA EventKeepsAttempts ==
    ASSUME AttemptsTypeOK, DriveInv, AttemptsInv, ProcessEvent
    PROVE  AttemptsInv' /\ StartsAfresh
<1>1. pc = "event" /\ NoAttempts
  BY DEF ProcessEvent, AttemptsInv
<1>2. upload'.retry = upload.retry
  BY DEF ProcessEvent, UploadEvent, AttemptsTypeOK, ServerInv, UploadTypeOK
<1>3. ntp'.retry = ntp.retry
  BY DEF ProcessEvent, NtpEvent, AttemptsTypeOK, NtpTypes
<1>4. NoAttempts'
  BY <1>1, <1>2, <1>3 DEF NoAttempts
<1> QED
  BY <1>4 DEF AttemptsInv, StartsAfresh, NoAttempts

LEMMA NtpKeepsAttempts ==
    ASSUME AttemptsTypeOK, DriveInv, AttemptsInv, NtpStep
    PROVE  AttemptsInv' /\ StartsAfresh
<1>1. /\ pc = "ntp" /\ pc' = "upload" /\ drive = "due" /\ drive' = "due"
      /\ UNCHANGED upload
  BY DEF NtpStep, NtpIdle, NtpNotConnected, NtpOk, NtpFailed, NtpResync,
         NtpGoesOn, DriveInv
<1> DEFINE Fresh == /\ ntp'.state = "Synced" => ntp'.retry = 0
                    /\ ntp'.state # ntp.state => ntp'.retry = 0
<1>2. Fresh
  <2> USE DEF NtpGoesOn, AttemptsTypeOK, NtpTypes, AttemptsInv
  <2>1. CASE NtpIdle \/ NtpNotConnected
    BY <2>1 DEF NtpIdle, NtpNotConnected
  <2>2. CASE NtpOk
    <3>1. ntp'.retry = 0
      BY <2>2 DEF NtpOk
    <3> QED
      BY <3>1
  <2>3. CASE NtpFailed
    BY <2>3 DEF NtpFailed
  <2>4. CASE NtpResync
    BY <2>4 DEF NtpResync
  <2> QED
    BY <2>1, <2>2, <2>3, <2>4 DEF NtpStep
<1> QED
  BY <1>1, <1>2 DEF AttemptsInv, StartsAfresh, NoAttempts

\* A state is left, or "Detected" entered, with the count reset only.
LEMMA UploadKeepsAttempts ==
    ASSUME AttemptsTypeOK, DriveInv, AttemptsInv, UploadStep
    PROVE  AttemptsInv' /\ StartsAfresh
<1>1. /\ pc' \in {"uploading", "drive", "crashed"}
      /\ drive = "due" /\ drive' = "due" /\ UNCHANGED ntp
  BY DEF UploadStep, UploadIdle, ServerNotReachable, ServerFound,
         ServerNotFound, DetectedStays, UpdateOk, UpdateFailed, UpdateCrashes,
         UploadBegin, UploadAccepted, UploadRefused, UploadAt, UploadGoesOn,
         tasks, DriveInv
<1> DEFINE Fresh == /\ upload'.state = "Detected" => upload'.retry = 0
                    /\ upload'.state # upload.state => upload'.retry = 0
<1>2. SUFFICES Fresh
  BY <1>1 DEF StartsAfresh, AttemptsInv, NoAttempts
<1> USE DEF AttemptsTypeOK, ServerInv, UploadTypeOK, AttemptsInv
<1>3. CASE UploadIdle \/ UploadBegin \/ UpdateCrashes
  BY <1>3 DEF UploadIdle, UploadBegin, UpdateCrashes, UploadGoesOn, tasks
<1>4. CASE ServerNotReachable \/ ServerNotFound
  BY <1>4 DEF ServerNotReachable, ServerNotFound, UploadAt, UploadGoesOn
<1>5. CASE \E server \in {"address", "unresolved"} : ServerFound(server)
  BY <1>5 DEF ServerFound, UploadGoesOn
<1>6. CASE DetectedStays
  BY <1>6 DEF DetectedStays, UploadAt, UploadGoesOn
<1>7. CASE UpdateOk \/ UploadAccepted
  <2>1. upload'.retry = 0
    BY <1>7 DEF UpdateOk, UploadAccepted, UploadGoesOn, RequestDone
  <2> QED
    BY <2>1
<1>8. CASE UpdateFailed \/ UploadRefused
  <2>1. upload' = RequestFailed
    BY <1>8 DEF UpdateFailed, UploadRefused, UploadGoesOn
  <2>2. upload'.state # upload.state => upload'.retry = 0
    BY <2>1 DEF RequestFailed
  <2>3. upload.state # "Detected"
    BY <1>8 DEF UpdateFailed, UploadRefused, UploadAt
  <2> QED
    BY <2>2, <2>3
<1> QED
  BY <1>3, <1>4, <1>5, <1>6, <1>7, <1>8 DEF UploadStep

LEMMA StepKeepsAttempts ==
    ASSUME AttemptsTypeOK, DriveInv, AttemptsInv, [Next]_vars
    PROVE  AttemptsInv' /\ StartsAfresh
<1>1. CASE WaitStep
  BY <1>1, WaitKeepsAttempts
<1>2. CASE ProcessEvent
  BY <1>2, EventKeepsAttempts
<1>3. CASE WifiStep
  <2>1. UNCHANGED <<upload, ntp>>
    BY <1>3 DEF WifiStep, WifiIdle, WifiNotConnecting, ConnectBegin,
                ConnectAccepted, ConnectRefused, WifiPoll, tasks
  <2> QED
    BY <1>3, <2>1, TasksLeaveDrive, OthersKeepAttempts
<1>4. CASE NtpStep
  BY <1>4, NtpKeepsAttempts
<1>5. CASE UploadStep
  BY <1>5, UploadKeepsAttempts
<1>6. CASE Withdraw \/ DriveProcess
  <2>1. UNCHANGED <<upload, ntp, drive>> /\ pc' \in {"wifi", "wait"}
    BY <1>6 DEF Withdraw, DriveProcess, DriveIdle, tasks
  <2> QED
    BY <2>1, OthersKeepAttempts
<1>7. CASE \/ \E new \in {"UP", "DISCONNECTED"} : DriverReports(new)
           \/ UpdateRequest
           \/ \E f \in Files :
                  UploadRequestQueue(f) \/ UploadRequestSignal(f)
  <2>1. UNCHANGED <<upload, ntp, drive, pc>>
    BY <1>7 DEF DriverReports, UpdateRequest, UploadRequestQueue,
                UploadRequestSignal, tasks, thread
  <2> QED
    BY <2>1, OthersKeepAttempts
<1>8. CASE UNCHANGED vars
  BY <1>8, OthersKeepAttempts DEF vars
<1> QED
  BY <1>1, <1>2, <1>3, <1>4, <1>5, <1>6, <1>7, <1>8 DEF Next, ThreadStep

\* No request, detection or synchronisation inherits the failures of another.
THEOREM AttemptsNotInherited == Spec => FullAttempts
<1>1. Init => AttemptsInv
  BY DEF Init, AttemptsInv, NoAttempts
<1>2. TypeInv /\ ServerInv => AttemptsTypeOK
  BY DEF TypeInv, TasksTypeOK, AttemptsTypeOK
<1>3. AttemptsTypeOK /\ DriveInv /\ AttemptsInv /\ [Next]_vars
          => AttemptsInv' /\ StartsAfresh
  BY StepKeepsAttempts
<1>4. AttemptsTypeOK /\ DriveInv /\ AttemptsInv /\ [Next]_vars
          => [/\ upload'.state # upload.state => upload'.retry = 0
              /\ ntp'.state # ntp.state => ntp'.retry = 0]_vars
  BY <1>3 DEF StartsAfresh
<1> QED
  BY <1>1, <1>2, <1>3, <1>4, TypesInductive, ServerInvariant, DriveInvariant,
     PTL
  DEF Spec, FullAttempts

\* The network thread's mailbox is the lossy box: each step is a step of the
\* box or leaves it alone.
THEOREM ImplementsBox == Spec => BoxSpec
<1> DEFINE InHand == IF pc \in {"event", "withdraw"} THEN value ELSE {}
<1>1. Init => Box!Init
  BY DEF Init, Box!Init
<1>2. ASSUME NEW S, Signal(S), S = {} \/ (\E s \in Signals : S = {s}),
             InHand' = InHand, (pc' = "wait") <=> (pc = "wait")
      PROVE  [Box!Next]_(Box!vars)
  <2>1. CASE S = {}
    BY <1>2, <2>1 DEF Signal, Box!vars
  <2>2. CASE \E s \in Signals : S = {s}
    <3>1. PICK s \in Signals : S = {s}
      BY <2>2
    <3>2. Box!Post(s)
      BY <1>2, <3>1 DEF Signal, Box!Post
    <3> QED
      BY <3>2 DEF Box!Next
  <2> QED
    BY <1>2, <2>1, <2>2
<1>3. TypeInv /\ CreditInv /\ [Next]_vars => [Box!Next]_(Box!vars)
  <2> SUFFICES ASSUME TypeInv, CreditInv, [Next]_vars
               PROVE  [Box!Next]_(Box!vars)
    OBVIOUS
  <2>1. CASE WakeBySignal \/ WakeByTimeOut
    <3>1. Box!Wake
      BY <2>1 DEF WakeBySignal, WakeByTimeOut, Box!Wake
    <3> QED
      BY <3>1 DEF Box!Next
  <2>2. ASSUME NEW expired \in Expiries, PollOnce(expired)
        PROVE  Box!Next
    <3>1. Box!Wake
      BY <2>2 DEF PollOnce, Box!Wake
    <3> QED
      BY <3>1 DEF Box!Next
  <2>3. ASSUME NEW expired \in Expiries, ClearAndProgress(expired)
        PROVE  Box!Next
    <3>1. flags \subseteq Signals /\ value \subseteq Signals
      BY DEF TypeInv, MailboxTypeOK
    <3>2. value \subseteq flags
      BY <2>3 DEF ClearAndProgress, CreditInv
    <3>3. CASE status = "signal"
      <4>1. Box!DropAndHand(flags \ value, value)
        BY <2>3, <3>2, <3>3 DEF ClearAndProgress, Box!DropAndHand
      <4> QED
        BY <3>1, <4>1 DEF Box!Next
    <3>4. CASE status # "signal"
      <4>1. Box!DropAndHand(flags, {})
        BY <2>3, <3>4 DEF ClearAndProgress, Box!DropAndHand
      <4> QED
        BY <3>1, <4>1 DEF Box!Next
    <3> QED
      BY <3>3, <3>4
  <2>4. CASE ProcessEvent
    <3> DEFINE S == IF "WifiStatusChanged" \in value /\ esp = "UP"
                    THEN {"WifiConnected"} ELSE {}
    <3>1. Signal(S) /\ InHand' = InHand /\ pc # "wait" /\ pc' # "wait"
      BY <2>4 DEF ProcessEvent
    <3>2. S = {} \/ \E s \in Signals : S = {s}
      BY DEF Signals
    <3> QED
      BY <1>2, <3>1, <3>2
  <2>5. CASE Withdraw
    <3>1. Box!Withdraw
      BY <2>5 DEF Withdraw, Box!Withdraw
    <3> QED
      BY <3>1 DEF Box!Next
  <2>6. CASE WifiStep
    <3>1. InHand' = {} /\ InHand = {} /\ pc # "wait" /\ pc' # "wait"
      BY <2>6 DEF WifiStep, WifiIdle, WifiNotConnecting, ConnectBegin,
                  ConnectAccepted, ConnectRefused, WifiPoll
    <3>2. CASE UNCHANGED flags
      BY <3>1, <3>2 DEF Box!vars
    <3>3. CASE ConnectBegin \/ ConnectRefused
      <4>1. PICK new \in Statuses : SetConnectionStatus(new)
        BY <3>3 DEF ConnectBegin, ConnectRefused, Statuses
      <4> DEFINE S == IF esp # new THEN {"WifiStatusChanged"} ELSE {}
      <4>2. Signal(S) /\ (S = {} \/ \E s \in Signals : S = {s})
        BY <4>1 DEF SetConnectionStatus, Signals
      <4> QED
        BY <1>2, <3>1, <4>2
    <3>4. CASE WifiPoll
      <4> DEFINE S == IF esp = "UP" /\ wifi.state = "Connecting"
                      THEN {"WifiConnected"} ELSE {}
      <4>1. Signal(S) /\ (S = {} \/ \E s \in Signals : S = {s})
        BY <3>4 DEF WifiPoll, Signals
      <4> QED
        BY <1>2, <3>1, <4>1
    <3> QED
      BY <2>6, <3>2, <3>3, <3>4
      DEF WifiStep, WifiIdle, WifiNotConnecting, ConnectAccepted
  <2>7. CASE NtpStep \/ UploadStep
    <3>1. /\ pc \in {"ntp", "upload", "uploading"}
          /\ pc' \in {"upload", "uploading", "drive", "crashed"}
          /\ UNCHANGED flags
      BY <2>7 DEF NtpStep, NtpIdle, NtpNotConnected, NtpOk, NtpFailed,
                  NtpResync, NtpGoesOn, UploadStep, UploadIdle, UploadAt,
                  ServerNotReachable, ServerFound, ServerNotFound,
                  DetectedStays, UpdateOk, UpdateFailed, UpdateCrashes,
                  UploadBegin, UploadAccepted, UploadRefused, UploadGoesOn
    <3> QED
      BY <3>1 DEF Box!vars
  <2>8. CASE DriveProcess
    <3>1. Box!Sleep
      BY <2>8 DEF DriveProcess, Box!Sleep
    <3> QED
      BY <3>1 DEF Box!Next
  <2>9. ASSUME NEW new \in {"UP", "DISCONNECTED"}, DriverReports(new)
        PROVE  [Box!Next]_(Box!vars)
    <3> DEFINE S == IF esp # new THEN {"WifiStatusChanged"} ELSE {}
    <3>1. Signal(S) /\ InHand' = InHand /\ pc' = pc
      BY <2>9 DEF DriverReports, SetConnectionStatus
    <3>2. S = {} \/ \E s \in Signals : S = {s}
      BY DEF Signals
    <3> QED
      BY <1>2, <3>1, <3>2
  <2>10. CASE UpdateRequest
    <3>1. Signal({"UpdateRequest"}) /\ InHand' = InHand /\ pc' = pc
      BY <2>10 DEF UpdateRequest
    <3> QED
      BY <1>2, <3>1 DEF Signals
  <2>11. ASSUME NEW f \in Files, UploadRequestQueue(f)
         PROVE  UNCHANGED Box!vars
    BY <2>11 DEF UploadRequestQueue, thread, Box!vars
  <2>12. ASSUME NEW f \in Files, UploadRequestSignal(f)
         PROVE  [Box!Next]_(Box!vars)
    <3>1. Signal({"UploadRequest"}) /\ InHand' = InHand /\ pc' = pc
      BY <2>12 DEF UploadRequestSignal
    <3> QED
      BY <1>2, <3>1 DEF Signals
  <2>13. CASE UNCHANGED vars
    BY <2>13 DEF vars, Box!vars
  <2> QED
    BY <2>1, <2>2, <2>3, <2>4, <2>5, <2>6, <2>7, <2>8, <2>9, <2>10, <2>11,
       <2>12, <2>13
    DEF Next, ThreadStep, WaitStep
<1> QED
  <2>1. QueueInv => CreditInv
    BY DEF QueueInv
  <2> QED
    BY <1>1, <1>3, <2>1, TypesInductive, QueueInvariant, PTL
    DEF Spec, BoxSpec, Box!Spec
================================================================================
