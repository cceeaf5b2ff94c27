---------------------------- MODULE LeptonRequests -----------------------------
(***************************************************************************)
(* PeachCam/src/Lepton.h:175-187 and state UpdateParam of LeptonTask       *)
(* (Lepton.cpp): the shell thread asks for settings of the thermal camera  *)
(* by writing request variables, and once per frame the lepton thread      *)
(* serves them: each switch reads its variable, resets it, and acts.       *)
(* Nothing is locked, so every access to a shared variable is a step.      *)
(*                                                                         *)
(* A region of interest is written and copied in two halves, its start     *)
(* and its end, where the code has two fields each.                        *)
(***************************************************************************)
EXTENDS Naturals, Sequences

CONSTANTS
    Served,     \* the switches the shell makes requests to
    Rois        \* the regions it asks for

Switches == <<"agc", "radiometry", "ffc", "telemetry", "spotmeter">>
Toggles == {"agc", "radiometry", "telemetry"}

ASSUME ServedAssumption == Served \subseteq Toggles \cup {"ffc", "spotmeter"}

NoRoi == "none"         \* the region before the first request
ASSUME RoisAssumption == NoRoi \notin Rois

VARIABLES
    req,        \* _agcReq, _radiometryReq, _runFFCNormReq, _telemetryReq and
                \*   _spotmeterReq
    reqRoi,     \* _reqSpotmeterRoi
    turn,       \* the switch of UpdateParam being run, 0 in other states
    step,       \* where the thread is in that switch
    read,       \* the value the switch branched on
    told,       \* what the camera was last told, by toggle
    roi,        \* the region SetSpotmeterRoi has copied
    shell,      \* where the shell is in ReqSetSpotmeterRoi
    region,     \* the region it is asking for
    asked,      \* history: the last request, by toggle
    askedRoi,   \* history: the last region asked for
    ffcOwed,    \* history: a normalisation was asked for and has not begun
    overtaken   \* history: switches whose last request was overwritten before
                \*   it could be read

cell == <<req, reqRoi>>
lepton == <<turn, step, read, told, roi>>
shellVars == <<shell, region>>
history == <<asked, askedRoi, ffcOwed, overtaken>>
vars == <<cell, lepton, shellVars, history>>

Names == {Switches[i] : i \in DOMAIN Switches}
Halves == [start : Rois \cup {NoRoi}, end : Rois \cup {NoRoi}]
Whole(r) == [start |-> r, end |-> r]
Values(w) ==
    CASE w \in Toggles -> {"none", "off", "on"}
      [] w = "ffc" -> {"none", "run"}
      [] w = "spotmeter" -> {"none", "get", "set"}

TypeOK ==
    /\ DOMAIN req = Names /\ \A w \in Names : req[w] \in Values(w)
    /\ reqRoi \in Halves
    /\ turn \in 0..Len(Switches)
    /\ step \in {"switch", "reset", "act", "copy"}
    /\ read \in UNION {Values(w) : w \in Names}
    /\ told \in [Toggles -> {"none", "off", "on"}]
    /\ roi \in Halves
    /\ shell \in {"idle", "end", "post"}
    /\ region \in Rois \cup {NoRoi}
    /\ asked \in [Toggles -> {"none", "off", "on"}]
    /\ askedRoi \in Rois \cup {NoRoi}
    /\ ffcOwed \in BOOLEAN
    /\ overtaken \subseteq Names

Init ==
    /\ req = [w \in Names |-> "none"]
    /\ reqRoi = Whole(NoRoi)
    /\ turn = 0
    /\ step = "switch"
    /\ read = "none"
    /\ told = [w \in Toggles |-> "none"]
    /\ roi = Whole(NoRoi)
    /\ shell = "idle"
    /\ region = NoRoi
    /\ asked = [w \in Toggles |-> "none"]
    /\ askedRoi = NoRoi
    /\ ffcOwed = FALSE
    /\ overtaken = {}

--------------------------------------------------------------------------------
(***************************************************************************)
(* The lepton thread, in state UpdateParam                                 *)
(***************************************************************************)
At(w, s) == turn # 0 /\ Switches[turn] = w /\ step = s

Advance ==
    /\ turn' = IF turn = Len(Switches) THEN 0 ELSE turn + 1
    /\ step' = "switch"
    /\ read' = "none"

UpdateParam ==
    /\ turn = 0
    /\ turn' = 1
    /\ UNCHANGED <<cell, step, read, told, roi, shellVars, history>>

ReadNothing(w) ==
    /\ At(w, "switch")
    /\ req[w] = "none"
    /\ Advance
    /\ UNCHANGED <<cell, told, roi, shellVars, history>>

ReadRequest(w) ==
    /\ At(w, "switch")
    /\ req[w] # "none"
    /\ read' = req[w]
    /\ step' = "reset"
    /\ UNCHANGED <<cell, turn, told, roi, shellVars, history>>

ResetAll(w) ==
    /\ At(w, "reset")
    /\ req' = [x \in Names |-> "none"]
    /\ step' = "act"
    /\ UNCHANGED <<reqRoi, turn, read, told, roi, shellVars, history>>

Reset(w) ==
    /\ At(w, "reset")
    /\ req' = [req EXCEPT ![w] = "none"]
    /\ step' = "act"
    /\ UNCHANGED <<reqRoi, turn, read, told, roi, shellVars, history>>

ToldAnew(w) == IF req[w] = "on" THEN "on" ELSE "off"
Told(w) == read

\* EnableAgc, EnableRadiometry and EnableTelemetry
Enable(w) ==
    /\ w \in Toggles
    /\ At(w, "act")
    /\ told' = [told EXCEPT ![w] = Told(w)]
    /\ Advance
    /\ UNCHANGED <<cell, roi, shellVars, history>>

RunFFCNormalization ==
    /\ At("ffc", "act")
    /\ ffcOwed' = FALSE
    /\ Advance
    /\ UNCHANGED <<cell, told, roi, shellVars, asked, askedRoi, overtaken>>

GetSpotmeterObj ==
    /\ At("spotmeter", "act")
    /\ read = "get"
    /\ Advance
    /\ UNCHANGED <<cell, told, roi, shellVars, history>>

\* SetSpotmeterRoi(_reqSpotmeterRoi) copies its argument.
CopyStart ==
    /\ At("spotmeter", "act")
    /\ read = "set"
    /\ roi' = [roi EXCEPT !.start = reqRoi.start]
    /\ step' = "copy"
    /\ UNCHANGED <<cell, turn, read, told, shellVars, history>>

CopyEndThenReset ==
    /\ At("spotmeter", "copy")
    /\ roi' = [roi EXCEPT !.end = reqRoi.end]
    /\ req' = [req EXCEPT !["spotmeter"] = "none"]
    /\ Advance
    /\ UNCHANGED <<reqRoi, told, shellVars, history>>

CopyEnd ==
    /\ At("spotmeter", "copy")
    /\ roi' = [roi EXCEPT !.end = reqRoi.end]
    /\ Advance
    /\ UNCHANGED <<cell, told, shellVars, history>>

LeptonStep ==
    \/ UpdateParam
    \/ \E w \in Names :
          ReadNothing(w) \/ ReadRequest(w) \/ Reset(w) \/ Enable(w)
    \/ RunFFCNormalization \/ GetSpotmeterObj \/ CopyStart \/ CopyEnd

--------------------------------------------------------------------------------
(***************************************************************************)
(* The shell thread                                                        *)
(***************************************************************************)
Post(w, v) == req' = [req EXCEPT ![w] = v]

\* A request written over the one that has been read is reset unread.
Overtakes(w) == At(w, "reset")

ReqToggle(w, v) ==
    /\ shell = "idle"
    /\ w \in Served \cap Toggles
    /\ Post(w, v)
    /\ asked' = [asked EXCEPT ![w] = v]
    /\ overtaken' = IF Overtakes(w) THEN overtaken \cup {w}
                                    ELSE overtaken \ {w}
    /\ UNCHANGED <<reqRoi, lepton, shellVars, askedRoi, ffcOwed>>

ReqFFCNormalization ==
    /\ shell = "idle"
    /\ "ffc" \in Served
    /\ Post("ffc", "run")
    /\ ffcOwed' = TRUE
    /\ UNCHANGED <<reqRoi, lepton, shellVars, asked, askedRoi, overtaken>>

\* ReqGetSpotmeterObj shares its variable with ReqSetSpotmeterRoi: a region
\* posted and not yet read is forgotten.
ReqGetSpotmeterObj ==
    /\ shell = "idle"
    /\ "spotmeter" \in Served
    /\ Post("spotmeter", "get")
    /\ overtaken' = IF /\ req["spotmeter"] = "set"
                       /\ ~(At("spotmeter", "reset") /\ read = "set")
                    THEN overtaken \cup {"spotmeter"} ELSE overtaken
    /\ UNCHANGED <<reqRoi, lepton, shellVars, asked, askedRoi, ffcOwed>>

\* ReqSetSpotmeterRoi: the region is written first and posted last.
WriteStart(r) ==
    /\ shell = "idle"
    /\ "spotmeter" \in Served
    /\ region' = r
    /\ reqRoi' = [reqRoi EXCEPT !.start = r]
    /\ shell' = "end"
    /\ UNCHANGED <<req, lepton, history>>

WriteEnd ==
    /\ shell = "end"
    /\ reqRoi' = [reqRoi EXCEPT !.end = region]
    /\ shell' = "post"
    /\ UNCHANGED <<req, lepton, region, history>>

\* The request is not lost if it overtakes another "set": what is copied then
\* is the region just written.  It is lost if it overtakes a "get".
PostRoi ==
    /\ shell = "post"
    /\ Post("spotmeter", "set")
    /\ askedRoi' = region
    /\ overtaken' = IF Overtakes("spotmeter") /\ read = "get"
                    THEN overtaken \cup {"spotmeter"}
                    ELSE overtaken \ {"spotmeter"}
    /\ shell' = "idle"
    /\ UNCHANGED <<reqRoi, lepton, region, asked, ffcOwed>>

ShellStep ==
    \/ \E w \in Toggles, v \in {"off", "on"} : ReqToggle(w, v)
    \/ ReqFFCNormalization \/ ReqGetSpotmeterObj
    \/ \E r \in Rois : WriteStart(r)
    \/ WriteEnd \/ PostRoi

Next == LeptonStep \/ ShellStep

Spec == Init /\ [][Next]_vars

--------------------------------------------------------------------------------
(***************************************************************************)
(* Properties                                                              *)
(***************************************************************************)
Settled(w) ==
    /\ req[w] = "none"
    /\ \A s \in {"reset", "act", "copy"} : ~At(w, s)

\* Once a toggle's request has been served, the camera has been told what the
\* shell asked for last, unless that request was overtaken: written between
\* the switch's look at the variable and its reset.
TogglesObeyed ==
    \A w \in Toggles : Settled(w) /\ w \notin overtaken => told[w] = asked[w]

\* A normalisation asked for is never forgotten, even when it is asked for
\* while another one is being served: the variable is reset before it is run.
FFCNotForgotten ==
    ffcOwed => ~Settled("ffc")

\* Once the spotmeter's request has been served, the region the camera has is
\* whole and is the one asked for last, although it is written and copied
\* without a lock, unless a request to read the spotmeter came in between.
RoiArrives ==
    Settled("spotmeter") /\ shell = "idle" /\ "spotmeter" \notin overtaken
        => roi = Whole(askedRoi)
================================================================================
