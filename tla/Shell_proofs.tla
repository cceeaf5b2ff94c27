----------------------------- MODULE Shell_proofs ------------------------------
(***************************************************************************)
(* Proofs about what the shell thread shares with others: the characters   *)
(* it reads (ShellInput), for any number of typists, any characters and    *)
(* bursts of any length, and the requests it makes to the lepton thread    *)
(* (LeptonRequests), for any regions and any switches in use.  The two     *)
(* have no variable in common.                                             *)
(***************************************************************************)
EXTENDS ShellInput, LeptonRequests, TLAPS

--------------------------------------------------------------------------------
(***************************************************************************)
(* ShellInput                                                              *)
(***************************************************************************)

\* What the proof needs to know of the state: the type invariant without the
\* queue's contents, which no step below depends on.
InputInv ==
    /\ typing \in [Typists -> {"outside", "pushed", "ored"}]
    /\ NoStrandedInput

\* A burst that is pushed is announced by its own typist.
LEMMA PushAnnounces ==
    ASSUME InputInv, NEW t \in Typists, NEW burst, Push(t, burst)
    PROVE  InputInv'
<1>1. typing' \in [Typists -> {"outside", "pushed", "ored"}]
  BY DEF InputInv, Push
<1>2. typing'[t] = "pushed"
  BY DEF InputInv, Push
<1>3. \E u \in Typists : typing'[u] # "outside"
  BY <1>2
<1> QED
  BY <1>1, <1>3 DEF InputInv, NoStrandedInput

\* The shell never sleeps on a character that nobody will wake it for: each
\* call of Stdin signals after it has pushed, and uart_read looks at the queue
\* once more after each wake-up.
THEOREM NothingStranded == InputSpec => []NoStrandedInput
<1>1. InputInit => InputInv
  BY DEF InputInit, InputInv, NoStrandedInput
<1>2. InputInv /\ [InputNext]_inputVars => InputInv'
  <2> SUFFICES ASSUME InputInv, [InputNext]_inputVars
               PROVE  InputInv'
    OBVIOUS
  <2>1. ASSUME NEW t \in Typists, NEW burst \in Bursts, Push(t, burst)
        PROVE  InputInv'
    BY <2>1, PushAnnounces
  <2>2. ASSUME NEW t \in Typists, OrFlag(t)
        PROVE  InputInv'
    <3>1. typing'[t] = "ored"
      BY <2>2 DEF OrFlag, InputInv
    <3>2. typing' \in [Typists -> {"outside", "pushed", "ored"}]
      BY <2>2 DEF OrFlag, InputInv
    <3> QED
      BY <3>1, <3>2 DEF InputInv, NoStrandedInput
  <2>3. ASSUME NEW t \in Typists, SetEvent(t)
        PROVE  InputInv'
    BY <2>3 DEF SetEvent, InputInv, NoStrandedInput
  <2>4. CASE ReadChar
    BY <2>4 DEF ReadChar, InputInv, NoStrandedInput
  <2>5. CASE FindEmpty
    BY <2>5 DEF FindEmpty, InputInv, NoStrandedInput
  <2>6. CASE Awake
    BY <2>6 DEF Awake, InputInv, NoStrandedInput
  <2>7. CASE ResetEvent
    BY <2>7 DEF ResetEvent, InputInv, NoStrandedInput
  <2>8. CASE ClearFlags
    BY <2>8 DEF ClearFlags, InputInv, NoStrandedInput
  <2>9. CASE SignalClr
    BY <2>9 DEF SignalClr, InputInv, NoStrandedInput
  <2>10. CASE UNCHANGED inputVars
    BY <2>10 DEF inputVars, InputInv, NoStrandedInput
  <2> QED
    BY <2>1, <2>2, <2>3, <2>4, <2>5, <2>6, <2>7, <2>8, <2>9, <2>10
    DEF InputNext, UartRead
<1>3. InputInv => NoStrandedInput
  BY DEF InputInv
<1> QED
  BY <1>1, <1>2, <1>3, PTL DEF InputSpec
--------------------------------------------------------------------------------
\* Whatever is queued came from the typists; the shell takes from the front
\* what is there.
LEMMA BurstTyped ==
    ASSUME NEW burst \in Bursts
    PROVE  burst \in Seq(Chars)
<1>1. PICK n \in 1..MaxBurst : burst \in [1..n -> Chars \ Queued]
  BY DEF Bursts
<1>2. n \in Nat /\ burst \in [1..n -> Chars]
  BY <1>1
<1> QED
  BY <1>2

\* The state is well-typed for any typists and characters.
THEOREM InputTypeCorrect == InputSpec => []InputTypeOK
<1>1. InputInit => InputTypeOK
  <2>1. <<>> \in Seq(Chars)
    OBVIOUS
  <2> QED
    BY <2>1 DEF InputInit, InputTypeOK
<1>2. InputTypeOK /\ [InputNext]_inputVars => InputTypeOK'
  <2> SUFFICES ASSUME InputTypeOK, [InputNext]_inputVars
               PROVE  InputTypeOK'
    OBVIOUS
  <2>1. ASSUME NEW t \in Typists, NEW burst \in Bursts, Push(t, burst)
        PROVE  InputTypeOK'
    <3>1. stdin_queue \o burst \in Seq(Chars)
      BY BurstTyped DEF InputTypeOK
    <3> QED
      BY <2>1, <3>1 DEF Push, InputTypeOK
  <2>2. ASSUME NEW t \in Typists, OrFlag(t) \/ SetEvent(t)
        PROVE  InputTypeOK'
    BY <2>2 DEF OrFlag, SetEvent, InputTypeOK
  <2>3. CASE ReadChar
    <3>1. Tail(stdin_queue) \in Seq(Chars)
      BY <2>3 DEF ReadChar, InputTypeOK
    <3> QED
      BY <2>3, <3>1 DEF ReadChar, InputTypeOK
  <2>4. CASE FindEmpty \/ Awake \/ ResetEvent \/ ClearFlags \/ SignalClr
    BY <2>4 DEF FindEmpty, Awake, ResetEvent, ClearFlags, SignalClr, InputTypeOK
  <2>5. CASE UNCHANGED inputVars
    BY <2>5 DEF inputVars, InputTypeOK
  <2> QED
    BY <2>1, <2>2, <2>3, <2>4, <2>5 DEF InputNext, UartRead
<1> QED
  BY <1>1, <1>2, PTL DEF InputSpec
--------------------------------------------------------------------------------
(***************************************************************************)
(* LeptonRequests.  The thread is at one place of one switch, which        *)
(* settles most cases: the inductive invariants say where the last         *)
(* request is on its way.                                                  *)
(***************************************************************************)
Said == {"none", "off", "on", "run", "get", "set"}

\* What the proofs need of the types.
Shapes ==
    /\ req \in [Names -> Said]
    /\ req["spotmeter"] \in {"none", "get", "set"}
    /\ reqRoi \in Halves
    /\ roi \in Halves
    /\ region \in Rois \cup {NoRoi}
    /\ askedRoi \in Rois \cup {NoRoi}
    /\ told \in [Toggles -> Said]
    /\ asked \in [Toggles -> Said]
    /\ read \in Said
    /\ turn = 0 => step = "switch"


LEMMA NamesKnown == Names = Toggles \cup {"ffc", "spotmeter"}
  <1>1. DOMAIN Switches = 1..5
    BY DEF Switches
  <1>2. /\ Switches[1] = "agc" /\ Switches[2] = "radiometry"
        /\ Switches[3] = "ffc" /\ Switches[4] = "telemetry"
        /\ Switches[5] = "spotmeter"
    BY DEF Switches
  <1>3. 1..5 = {1, 2, 3, 4, 5}
    OBVIOUS
  <1>. QED
    BY <1>1, <1>2, <1>3 DEF Names, Toggles

LEMMA ShapesInductive == Spec => []Shapes
<1>1. Init => Shapes
  BY NamesKnown DEF Init, Shapes, Said, Halves, Whole
<1>2. Shapes /\ [Next]_vars => Shapes'
  <2>. SUFFICES ASSUME Shapes, [Next]_vars PROVE Shapes'
    OBVIOUS
  <2>1. ASSUME NEW w \in Names, ReadNothing(w) \/ ReadRequest(w) \/ Reset(w)
        PROVE  Shapes'
    BY <2>1, NamesKnown
       DEF Shapes, Said, ReadNothing, ReadRequest, Reset, Advance, At, cell,
           history, shellVars
  <2>2. ASSUME NEW w \in Names, Enable(w)
        PROVE  Shapes'
    BY <2>2 DEF Shapes, Said, Enable, Told, Advance, cell, history, shellVars
  <2>3. CASE UpdateParam \/ RunFFCNormalization \/ GetSpotmeterObj
    BY <2>3 DEF Shapes, Said, UpdateParam, RunFFCNormalization, GetSpotmeterObj,
                Advance, cell, history, shellVars
  <2>4. CASE CopyStart \/ CopyEnd
    BY <2>4 DEF Shapes, Said, CopyStart, CopyEnd, At, Advance, Halves, cell,
                history, shellVars
  <2>5. ASSUME NEW w \in Toggles, NEW v \in {"off", "on"}, ReqToggle(w, v)
        PROVE  Shapes'
    BY <2>5, NamesKnown
       DEF Shapes, Said, Toggles, ReqToggle, Post, lepton, shellVars
  <2>6. CASE ReqFFCNormalization \/ ReqGetSpotmeterObj \/ PostRoi
    BY <2>6, NamesKnown
       DEF Shapes, Said, ReqFFCNormalization, ReqGetSpotmeterObj, PostRoi,
           Post, lepton, shellVars
  <2>7. ASSUME NEW r \in Rois, WriteStart(r)
        PROVE  Shapes'
    BY <2>7 DEF Shapes, Said, WriteStart, Halves, lepton, history
  <2>8. CASE WriteEnd
    BY <2>8 DEF Shapes, Said, WriteEnd, Halves, lepton, history
  <2>9. CASE UNCHANGED vars
    BY <2>9 DEF Shapes, Said, vars, cell, lepton, shellVars, history
  <2>. QED
    BY <2>1, <2>2, <2>3, <2>4, <2>5, <2>6, <2>7, <2>8, <2>9
       DEF Next, LeptonStep, ShellStep
<1>. QED
  BY <1>1, <1>2, PTL DEF Spec

--------------------------------------------------------------------------------
(***************************************************************************)
(* The region of interest                                                  *)
(***************************************************************************)
\* Where the last region is while it is on its way: posted, with the switch
\* not about to erase the post for a "get"; read; half copied; or arrived.
OnItsWay ==
    \/ /\ req["spotmeter"] = "set"
       /\ ~(At("spotmeter", "reset") /\ read = "get")
    \/ At("spotmeter", "reset") /\ read = "set"
    \/ At("spotmeter", "act") /\ read = "set"
    \/ At("spotmeter", "copy") /\ roi.start = askedRoi
    \/ ~At("spotmeter", "copy") /\ roi = Whole(askedRoi)

RoiInv ==
    /\ shell = "idle" => reqRoi = Whole(askedRoi)
    /\ shell = "end" => reqRoi.start = region
    /\ shell = "post" => reqRoi = Whole(region)
    /\ At("spotmeter", "reset") => read \in {"get", "set"}
    /\ shell \in {"idle", "end", "post"}
    /\ shell = "idle" /\ "spotmeter" \notin overtaken => OnItsWay

\* The initial region counts as one that has arrived; every step moves the last
\* region along its way.
LEMMA RoiStep == Shapes /\ Shapes' /\ RoiInv /\ [Next]_vars => RoiInv'
<1>. SUFFICES ASSUME Shapes, Shapes', RoiInv, [Next]_vars PROVE RoiInv'
  OBVIOUS
<1>. USE NamesKnown
<1>1. ASSUME NEW w \in Names, ReadNothing(w)
      PROVE  RoiInv'
  <2>1. step = "switch" /\ step' = "switch"
    BY <1>1 DEF ReadNothing, Advance, At
  <2>2. OnItsWay => OnItsWay'
    BY <1>1, <2>1 DEF OnItsWay, ReadNothing, At, cell, history
  <2>3. UNCHANGED <<reqRoi, shell, region, askedRoi, overtaken>>
    BY <1>1 DEF ReadNothing, cell, history, shellVars
  <2>4. ~At("spotmeter", "reset")'
    BY <2>1 DEF At
  <2>. QED
    BY <2>2, <2>3, <2>4 DEF RoiInv, Whole
<1>2. ASSUME NEW w \in Names, ReadRequest(w)
      PROVE  RoiInv'
  <2>1. /\ step = "switch" /\ step' = "reset"
        /\ turn' = turn /\ Switches[turn] = w /\ read' = req[w]
    BY <1>2 DEF ReadRequest, At
  <2>2. UNCHANGED <<req, reqRoi, roi, shell, region, askedRoi, overtaken>>
    BY <1>2 DEF ReadRequest, cell, history, shellVars
  <2>3. At("spotmeter", "reset")' => read' \in {"get", "set"}
    BY <1>2, <2>1 DEF Shapes, ReadRequest, At
  <2>4. OnItsWay => OnItsWay'
    BY <2>1, <2>2 DEF OnItsWay, At, Whole
  <2>. QED
    BY <2>2, <2>3, <2>4 DEF RoiInv, Whole
<1>3. ASSUME NEW w \in Names, Reset(w)
      PROVE  RoiInv'
  BY <1>3 DEF Shapes, RoiInv, OnItsWay, Reset, At, history, shellVars
<1>4. ASSUME NEW w \in Names, Enable(w)
      PROVE  RoiInv'
  <2>1. w # "spotmeter" /\ Switches[turn] = w /\ step' = "switch"
    BY <1>4 DEF Enable, Advance, At, Toggles
  <2>2. OnItsWay => OnItsWay'
    BY <1>4, <2>1 DEF OnItsWay, Enable, At, cell, history
  <2>3. UNCHANGED <<reqRoi, shell, region, askedRoi, overtaken>>
    BY <1>4 DEF Enable, cell, history, shellVars
  <2>4. ~At("spotmeter", "reset")'
    BY <2>1 DEF At
  <2>. QED
    BY <2>2, <2>3, <2>4 DEF RoiInv, Whole
<1>5. CASE UpdateParam
  <2>1. turn = 0 /\ UNCHANGED step
    BY <1>5 DEF UpdateParam
  <2>2. UNCHANGED <<req, reqRoi, roi, read, shell, region, askedRoi, overtaken>>
    BY <1>5 DEF UpdateParam, cell, history, shellVars
  <2>3. Switches[turn'] = "agc"
    BY <1>5 DEF UpdateParam, Switches
  <2>4. OnItsWay => OnItsWay'
    BY <2>1, <2>2, <2>3 DEF OnItsWay, At, Whole
  <2>. QED
    BY <2>1, <2>2, <2>3, <2>4 DEF RoiInv, At, Whole
<1>6. CASE RunFFCNormalization
  BY <1>6 DEF RoiInv, OnItsWay, RunFFCNormalization, Advance, At, cell,
              shellVars
<1>7. CASE GetSpotmeterObj
  BY <1>7 DEF RoiInv, OnItsWay, GetSpotmeterObj, Advance, At, cell, history,
              shellVars
<1>8. CASE CopyStart
  BY <1>8 DEF Shapes, Halves, RoiInv, OnItsWay, CopyStart, Whole, At, cell,
              history, shellVars
<1>9. CASE CopyEnd
  BY <1>9 DEF Shapes, Halves, RoiInv, OnItsWay, CopyEnd, Whole, Advance, At,
              cell, history, shellVars
<1>10. ASSUME NEW w \in Toggles, NEW v \in {"off", "on"}, ReqToggle(w, v)
       PROVE  RoiInv'
  <2>1. w # "spotmeter"
    BY DEF Toggles
  <2>. QED
    BY <1>10, <2>1 DEF Shapes, RoiInv, OnItsWay, ReqToggle, Post, Overtakes,
                       At, lepton, shellVars
<1>11. CASE ReqFFCNormalization
  BY <1>11 DEF Shapes, RoiInv, OnItsWay, ReqFFCNormalization, Post, At,
               lepton, shellVars
<1>12. CASE ReqGetSpotmeterObj
  BY <1>12 DEF Shapes, RoiInv, OnItsWay, ReqGetSpotmeterObj, Post, At, lepton,
               shellVars
<1>13. ASSUME NEW r \in Rois, WriteStart(r)
       PROVE  RoiInv'
  BY <1>13 DEF Shapes, Halves, RoiInv, OnItsWay, WriteStart, At, lepton,
               history
<1>14. CASE WriteEnd
  BY <1>14 DEF Shapes, Halves, RoiInv, OnItsWay, WriteEnd, Whole, At, lepton,
               history
<1>15. CASE PostRoi
  BY <1>15 DEF Shapes, RoiInv, OnItsWay, PostRoi, Post, Overtakes, At, lepton
<1>16. CASE UNCHANGED vars
  BY <1>16 DEF RoiInv, OnItsWay, vars, cell, lepton, shellVars, history, At
<1>. QED
  BY <1>1, <1>2, <1>3, <1>4, <1>5, <1>6, <1>7, <1>8, <1>9, <1>10, <1>11,
     <1>12, <1>13, <1>14, <1>15, <1>16
     DEF Next, LeptonStep, ShellStep

\* At rest, the camera's region of interest is the last one asked for, whole,
\* unless its request was overwritten unread: ReqSetSpotmeterRoi writes the
\* region before it posts, and the switch resets before it copies.
THEOREM RegionArrives == Spec => []RoiArrives
<1>1. Init => RoiInv
  BY NamesKnown DEF Init, RoiInv, OnItsWay, At, Whole
<1>2. RoiInv => RoiArrives
  BY DEF RoiInv, RoiArrives, OnItsWay, Settled
<1>. QED
  BY <1>1, <1>2, RoiStep, ShapesInductive, PTL DEF Spec

--------------------------------------------------------------------------------
(***************************************************************************)
(* The normalisation and the toggles                                       *)
(***************************************************************************)
\* A normalisation asked for is never forgotten: its switch resets the request
\* before it begins the run.
THEOREM NormalisationRuns == Spec => []FFCNotForgotten
<1>1. Init => FFCNotForgotten
  BY DEF Init, FFCNotForgotten
<1>2. Shapes /\ FFCNotForgotten /\ [Next]_vars => FFCNotForgotten'
  <2>. SUFFICES ASSUME Shapes, FFCNotForgotten, [Next]_vars
                PROVE  FFCNotForgotten'
    OBVIOUS
  <2>. USE NamesKnown DEF FFCNotForgotten, Settled
  <2>1. ASSUME NEW w \in Names, ReadNothing(w)
        PROVE  FFCNotForgotten'
    BY <2>1 DEF ReadNothing, At, cell, history
  <2>2. ASSUME NEW w \in Names, ReadRequest(w)
        PROVE  FFCNotForgotten'
    BY <2>2 DEF ReadRequest, At, cell, history
  <2>3. ASSUME NEW w \in Names, Reset(w)
        PROVE  FFCNotForgotten'
    BY <2>3 DEF Shapes, Reset, At, history
  <2>4. ASSUME NEW w \in Names, Enable(w)
        PROVE  FFCNotForgotten'
    BY <2>4 DEF Enable, At, Toggles, cell, history
  <2>5. CASE UpdateParam
    BY <2>5 DEF UpdateParam, At, cell, history
  <2>6. CASE RunFFCNormalization
    BY <2>6 DEF RunFFCNormalization
  <2>7. CASE GetSpotmeterObj \/ CopyStart \/ CopyEnd
    BY <2>7 DEF GetSpotmeterObj, CopyStart, CopyEnd, At, cell, history
  <2>8. ASSUME NEW w \in Toggles, NEW v \in {"off", "on"}, ReqToggle(w, v)
        PROVE  FFCNotForgotten'
    BY <2>8 DEF Shapes, Toggles, ReqToggle, Post, At, lepton
  <2>9. CASE ReqFFCNormalization
    BY <2>9 DEF Shapes, ReqFFCNormalization, Post
  <2>10. CASE ReqGetSpotmeterObj \/ PostRoi
    BY <2>10 DEF Shapes, ReqGetSpotmeterObj, PostRoi, Post, At, lepton
  <2>11. ASSUME NEW r \in Rois, WriteStart(r)
         PROVE  FFCNotForgotten'
    BY <2>11 DEF WriteStart, At, lepton, history
  <2>12. CASE WriteEnd \/ UNCHANGED vars
    BY <2>12 DEF WriteEnd, At, vars, cell, lepton, history
  <2>. QED
    BY <2>1, <2>2, <2>3, <2>4, <2>5, <2>6, <2>7, <2>8, <2>9, <2>10, <2>11,
       <2>12 DEF Next, LeptonStep, ShellStep
<1>. QED
  BY <1>1, <1>2, ShapesInductive, PTL DEF Spec

\* Where the last request of a toggle is: posted and not being erased; read;
\* reset and about to be told; or told.
ToggleOnItsWay(w) ==
    \/ req[w] # "none" /\ req[w] = asked[w] /\ ~At(w, "reset")
    \/ At(w, "reset") /\ read = asked[w]
    \/ At(w, "act") /\ req[w] = "none" /\ read = asked[w]
    \/ /\ ~At(w, "reset") /\ ~At(w, "act")
       /\ req[w] = "none" /\ told[w] = asked[w]

ToggleInv == \A w \in Toggles : w \notin overtaken => ToggleOnItsWay(w)

\* A toggle's request that is not overtaken reaches the camera.
THEOREM TogglesReachCamera == Spec => []TogglesObeyed
<1>1. Init => ToggleInv
  BY NamesKnown DEF Init, ToggleInv, ToggleOnItsWay, At
<1>2. Shapes /\ ToggleInv /\ [Next]_vars => ToggleInv'
  <2>. SUFFICES ASSUME Shapes, ToggleInv, [Next]_vars,
                       NEW x \in Toggles, x \notin overtaken'
                PROVE  ToggleOnItsWay(x)'
    BY DEF ToggleInv
  <2>0. x \in Names /\ x # "ffc" /\ x # "spotmeter"
    BY NamesKnown DEF Toggles
  <2>. USE <2>0 DEF ToggleOnItsWay
  <2>1. ASSUME NEW w \in Names, ReadNothing(w)
        PROVE  ToggleOnItsWay(x)'
    BY <2>1 DEF ToggleInv, ReadNothing, Advance, At, cell, history
  <2>2. ASSUME NEW w \in Names, ReadRequest(w)
        PROVE  ToggleOnItsWay(x)'
    BY <2>2 DEF ToggleInv, ReadRequest, At, cell, history
  <2>3. ASSUME NEW w \in Names, Reset(w)
        PROVE  ToggleOnItsWay(x)'
    BY <2>3 DEF Shapes, ToggleInv, Reset, At, history
  <2>4. ASSUME NEW w \in Names, Enable(w)
        PROVE  ToggleOnItsWay(x)'
    BY <2>4 DEF Shapes, ToggleInv, Enable, Told, Advance, At, cell, history
  <2>5. CASE UpdateParam
    <3>1. step = "switch" /\ step' = "switch"
      BY <2>5 DEF Shapes, UpdateParam
    <3>2. UNCHANGED <<req, told, asked, overtaken>>
      BY <2>5 DEF UpdateParam, cell, history
    <3>. QED
      BY <3>1, <3>2 DEF ToggleInv, At
  <2>6. CASE RunFFCNormalization
    BY <2>6 DEF ToggleInv, RunFFCNormalization, Advance, At, cell
  <2>7. CASE GetSpotmeterObj \/ CopyStart \/ CopyEnd
    BY <2>7 DEF ToggleInv, GetSpotmeterObj, CopyStart, CopyEnd, Advance, At,
                cell, history
  <2>8. ASSUME NEW w \in Toggles, NEW v \in {"off", "on"}, ReqToggle(w, v)
        PROVE  ToggleOnItsWay(x)'
    BY <2>8 DEF Shapes, ToggleInv, ReqToggle, Post, Overtakes, At, lepton
  <2>9. CASE ReqFFCNormalization
    BY <2>9 DEF Shapes, ToggleInv, ReqFFCNormalization, Post, At, lepton
  <2>10. CASE ReqGetSpotmeterObj \/ PostRoi
    BY <2>10 DEF Shapes, ToggleInv, ReqGetSpotmeterObj, PostRoi, Post, At,
                 lepton
  <2>11. ASSUME NEW r \in Rois, WriteStart(r)
         PROVE  ToggleOnItsWay(x)'
    BY <2>11 DEF ToggleInv, WriteStart, At, lepton, history
  <2>12. CASE WriteEnd \/ UNCHANGED vars
    BY <2>12 DEF ToggleInv, WriteEnd, At, vars, cell, lepton, history
  <2>. QED
    BY <2>1, <2>2, <2>3, <2>4, <2>5, <2>6, <2>7, <2>8, <2>9, <2>10, <2>11,
       <2>12 DEF Next, LeptonStep, ShellStep
<1>3. ToggleInv => TogglesObeyed
  BY DEF ToggleInv, ToggleOnItsWay, TogglesObeyed, Settled
<1>. QED
  BY <1>1, <1>2, <1>3, ShapesInductive, PTL DEF Spec
--------------------------------------------------------------------------------
(***************************************************************************)
(* Type correctness.  A request variable only ever holds what its switch   *)
(* knows, and the value read is of the switch that is being run.           *)
(***************************************************************************)
ToggleValues == {"none", "off", "on"}

TypeInv ==
    /\ TypeOK
    /\ turn = 0 => step = "switch"
    /\ \A w \in Names : At(w, "reset") \/ At(w, "act") => read \in Values(w)

LEMMA ValuesKnown ==
    /\ \A w \in Toggles : Values(w) = ToggleValues
    /\ Values("ffc") = {"none", "run"}
    /\ Values("spotmeter") = {"none", "get", "set"}
    /\ UNION {Values(w) : w \in Names} = Said
<1>1. \A w \in Toggles : Values(w) = ToggleValues
  BY DEF Values, ToggleValues, Toggles
<1>2. /\ Values("ffc") = {"none", "run"}
      /\ Values("spotmeter") = {"none", "get", "set"}
  BY DEF Values, Toggles
<1>3. UNION {Values(w) : w \in Names}
          = ToggleValues \cup {"none", "run"} \cup {"none", "get", "set"}
  <2>1. "agc" \in Toggles
    BY DEF Toggles
  <2> QED
    BY <1>1, <1>2, <2>1, NamesKnown
<1> QED
  BY <1>1, <1>2, <1>3 DEF ToggleValues, Said

LEMMA FiveSwitches == Len(Switches) = 5
  BY DEF Switches

\* The end of a switch, whichever it is.
LEMMA AdvanceTyped ==
    ASSUME TypeInv, turn # 0, Advance
    PROVE  /\ turn' \in 0..Len(Switches)
           /\ step' = "switch"
           /\ read' = "none"
           /\ \A w : ~At(w, "reset")' /\ ~At(w, "act")'
  BY FiveSwitches DEF TypeInv, TypeOK, Advance, At

\* A request is written over whatever was there.
LEMMA PostTyped ==
    ASSUME TypeInv, NEW w \in Names, NEW v \in Values(w), Post(w, v)
    PROVE  DOMAIN req' = Names /\ \A x \in Names : req'[x] \in Values(x)
  BY DEF TypeInv, TypeOK, Post

\* The lepton thread's steps that end a switch.
LEMMA ServedTyped ==
    ASSUME TypeInv,
           \/ \E w \in Names : ReadNothing(w) \/ Enable(w)
           \/ RunFFCNormalization \/ GetSpotmeterObj \/ CopyEnd
    PROVE  TypeInv'
<1>1. turn # 0 /\ Advance /\ UNCHANGED <<cell, shellVars>>
  BY DEF ReadNothing, Enable, RunFFCNormalization, GetSpotmeterObj, CopyEnd, At
<1>2. /\ turn' \in 0..Len(Switches)
      /\ step' = "switch"
      /\ read' = "none"
      /\ \A w : ~At(w, "reset")' /\ ~At(w, "act")'
  BY <1>1, AdvanceTyped
<1>3. UNCHANGED <<asked, askedRoi, overtaken>> /\ ffcOwed' \in BOOLEAN
  BY DEF ReadNothing, Enable, RunFFCNormalization, GetSpotmeterObj, CopyEnd,
         history, TypeInv, TypeOK
<1>4. roi' \in Halves
  BY DEF ReadNothing, Enable, RunFFCNormalization, GetSpotmeterObj, CopyEnd,
         TypeInv, TypeOK, Halves
<1>5. told' \in [Toggles -> ToggleValues]
  <2>1. ASSUME NEW w \in Names, Enable(w)
        PROVE  told' \in [Toggles -> ToggleValues]
    <3>1. w \in Toggles /\ read \in ToggleValues
      BY <2>1, ValuesKnown DEF Enable, TypeInv
    <3> QED
      BY <2>1, <3>1 DEF Enable, Told, TypeInv, TypeOK, ToggleValues
  <2>2. ASSUME UNCHANGED told
        PROVE  told' \in [Toggles -> ToggleValues]
    BY <2>2 DEF TypeInv, TypeOK, ToggleValues
  <2> QED
    BY <2>1, <2>2
    DEF ReadNothing, RunFFCNormalization, GetSpotmeterObj, CopyEnd
<1>6. TypeOK'
  BY <1>1, <1>2, <1>3, <1>4, <1>5, ValuesKnown
  DEF TypeInv, TypeOK, cell, shellVars, ToggleValues, Said
<1> QED
  BY <1>2, <1>6 DEF TypeInv

\* Its other steps.
LEMMA ServingTyped ==
    ASSUME TypeInv,
           UpdateParam \/ CopyStart
               \/ \E w \in Names : ReadRequest(w) \/ Reset(w)
    PROVE  TypeInv'
<1>1. CASE UpdateParam
  <2>1. turn' \in 0..Len(Switches) /\ turn' # 0 /\ step' = "switch"
    BY <1>1, FiveSwitches DEF UpdateParam, TypeInv
  <2>2. TypeOK'
    BY <1>1, <2>1
    DEF UpdateParam, TypeInv, TypeOK, cell, shellVars, history
  <2> QED
    BY <2>1, <2>2 DEF TypeInv, At
<1>2. CASE CopyStart
  <2>1. roi' \in Halves
    BY <1>2 DEF CopyStart, TypeInv, TypeOK, Halves
  <2>2. turn' # 0 /\ step' = "copy"
    BY <1>2 DEF CopyStart, At
  <2>3. TypeOK'
    BY <1>2, <2>1, <2>2
    DEF CopyStart, TypeInv, TypeOK, cell, shellVars, history
  <2> QED
    BY <2>2, <2>3 DEF TypeInv, At
<1>3. ASSUME NEW w \in Names, ReadRequest(w)
      PROVE  TypeInv'
  <2>1. /\ turn # 0 /\ UNCHANGED turn /\ Switches[turn] = w
        /\ step' = "reset" /\ read' \in Values(w)
    BY <1>3 DEF ReadRequest, At, TypeInv, TypeOK
  <2>2. read' \in UNION {Values(x) : x \in Names}
    BY <2>1
  <2>3. TypeOK'
    BY <1>3, <2>1, <2>2
    DEF ReadRequest, TypeInv, TypeOK, cell, shellVars, history
  <2> QED
    BY <2>1, <2>3 DEF TypeInv, At
<1>4. ASSUME NEW w \in Names, Reset(w)
      PROVE  TypeInv'
  <2>1. /\ turn # 0 /\ UNCHANGED <<turn, read>> /\ Switches[turn] = w
        /\ step = "reset" /\ step' = "act" /\ read \in Values(w)
    BY <1>4 DEF Reset, At, TypeInv
  <2>2. "none" \in Values(w)
    BY ValuesKnown, NamesKnown DEF ToggleValues
  <2>3. DOMAIN req' = Names /\ \A x \in Names : req'[x] \in Values(x)
    BY <1>4, <2>2 DEF Reset, TypeInv, TypeOK
  <2>4. TypeOK'
    BY <1>4, <2>1, <2>3 DEF Reset, TypeInv, TypeOK, shellVars, history
  <2> QED
    BY <2>1, <2>4 DEF TypeInv, At
<1> QED
  BY <1>1, <1>2, <1>3, <1>4

LEMMA ShellTyped ==
    ASSUME TypeInv, ShellStep
    PROVE  TypeInv'
<1>1. UNCHANGED lepton
  BY DEF ShellStep, ReqToggle, ReqFFCNormalization, ReqGetSpotmeterObj,
         WriteStart, WriteEnd, PostRoi
<1>2. DOMAIN req' = Names /\ \A x \in Names : req'[x] \in Values(x)
  <2>1. ASSUME NEW w \in Toggles, NEW v \in {"off", "on"}, ReqToggle(w, v)
        PROVE  DOMAIN req' = Names /\ \A x \in Names : req'[x] \in Values(x)
    <3>1. w \in Names /\ v \in Values(w) /\ Post(w, v)
      BY <2>1, NamesKnown, ValuesKnown DEF ReqToggle, ToggleValues
    <3> QED
      BY <3>1, PostTyped
  <2>2. CASE ReqFFCNormalization
    <3>1. "ffc" \in Names /\ "run" \in Values("ffc") /\ Post("ffc", "run")
      BY <2>2, NamesKnown, ValuesKnown DEF ReqFFCNormalization
    <3> QED
      BY <3>1, PostTyped
  <2>3. CASE ReqGetSpotmeterObj
    <3>1. /\ "spotmeter" \in Names /\ "get" \in Values("spotmeter")
          /\ Post("spotmeter", "get")
      BY <2>3, NamesKnown, ValuesKnown DEF ReqGetSpotmeterObj
    <3> QED
      BY <3>1, PostTyped
  <2>4. CASE PostRoi
    <3>1. /\ "spotmeter" \in Names /\ "set" \in Values("spotmeter")
          /\ Post("spotmeter", "set")
      BY <2>4, NamesKnown, ValuesKnown DEF PostRoi
    <3> QED
      BY <3>1, PostTyped
  <2>5. CASE WriteEnd \/ \E r \in Rois : WriteStart(r)
    BY <2>5 DEF WriteEnd, WriteStart, TypeInv, TypeOK
  <2> QED
    BY <2>1, <2>2, <2>3, <2>4, <2>5 DEF ShellStep
<1>3. /\ reqRoi' \in Halves
      /\ shell' \in {"idle", "end", "post"}
      /\ region' \in Rois \cup {NoRoi}
      /\ askedRoi' \in Rois \cup {NoRoi}
      /\ ffcOwed' \in BOOLEAN
  BY DEF ShellStep, ReqToggle, ReqFFCNormalization, ReqGetSpotmeterObj,
         WriteStart, WriteEnd, PostRoi, TypeInv, TypeOK, Halves, shellVars,
         history
<1>4. asked' \in [Toggles -> {"none", "off", "on"}] /\ overtaken' \subseteq Names
  <2>1. ASSUME NEW w \in Toggles, NEW v \in {"off", "on"}, ReqToggle(w, v)
        PROVE  /\ asked' \in [Toggles -> {"none", "off", "on"}]
               /\ overtaken' \subseteq Names
    BY <2>1, NamesKnown DEF ReqToggle, TypeInv, TypeOK
  <2>2. CASE ReqGetSpotmeterObj \/ PostRoi
    BY <2>2, NamesKnown DEF ReqGetSpotmeterObj, PostRoi, TypeInv, TypeOK
  <2>3. CASE ReqFFCNormalization \/ WriteEnd \/ \E r \in Rois : WriteStart(r)
    BY <2>3 DEF ReqFFCNormalization, WriteEnd, WriteStart, TypeInv, TypeOK,
                history
  <2> QED
    BY <2>1, <2>2, <2>3 DEF ShellStep
<1>5. TypeOK'
  BY <1>1, <1>2, <1>3, <1>4 DEF TypeInv, TypeOK, lepton
<1> QED
  BY <1>1, <1>5 DEF TypeInv, At, lepton

\* The state is well-typed for any regions and any switches in use.
THEOREM TypeCorrect == Spec => []TypeOK
<1>1. Init => TypeInv
  <2> SUFFICES ASSUME Init
               PROVE  TypeInv
    OBVIOUS
  <2>1. \A w \in Names : "none" \in Values(w)
    BY ValuesKnown, NamesKnown DEF ToggleValues
  <2>2. "none" \in UNION {Values(w) : w \in Names}
    BY ValuesKnown DEF Said
  <2>3. 0 \in 0..Len(Switches)
    BY FiveSwitches
  <2>4. TypeOK
    BY <2>1, <2>2, <2>3 DEF Init, TypeOK, Halves, Whole
  <2> QED
    BY <2>4 DEF Init, TypeInv, At
<1>2. TypeInv /\ [Next]_vars => TypeInv'
  <2> SUFFICES ASSUME TypeInv, [Next]_vars
               PROVE  TypeInv'
    OBVIOUS
  <2>1. CASE LeptonStep
    BY <2>1, ServedTyped, ServingTyped DEF LeptonStep
  <2>2. CASE ShellStep
    BY <2>2, ShellTyped
  <2>3. CASE UNCHANGED vars
    BY <2>3
    DEF TypeInv, TypeOK, At, vars, cell, lepton, shellVars, history
  <2> QED
    BY <2>1, <2>2, <2>3 DEF Next
<1>3. TypeInv => TypeOK
  BY DEF TypeInv
<1> QED
  BY <1>1, <1>2, <1>3, PTL DEF Spec
================================================================================
