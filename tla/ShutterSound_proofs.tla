-------------------------- MODULE ShutterSound_proofs --------------------------
(***************************************************************************)
(* Theorems about ShutterSound, for a ring of any size from three buffers. *)
(***************************************************************************)
EXTENDS ShutterSound, SequenceTheorems, TLAPS

--------------------------------------------------------------------------------
(***************************************************************************)
(* What the state consists of.                                             *)
(***************************************************************************)
Indices == 0 .. N-1

\* Only an idle callback is about no buffer.
StateInv ==
    /\ TypeOK
    /\ IF callback.at = "idle" THEN callback = Idle ELSE callback.buffer \in Indices

\* A callback's buffer stays what it is while the callback goes on.
LEMMA CallbackGoesOn ==
    ASSUME StateInv, callback.at # "idle",
           NEW at \in {"played", "more", "advanced", "end"},
           callback' = [callback EXCEPT !.at = at]
    PROVE  /\ callback'.at = at
           /\ callback'.buffer = callback.buffer
           /\ callback'.buffer \in Indices
           /\ callback' \in [buffer : 0 .. N,
                             at : {"idle", "played", "more", "advanced", "end"}]
  BY DEF StateInv, TypeOK

LEMMA AfterIsIndex == \A index \in Indices : After(index) \in Indices
  BY NAssumption DEF After, Indices

LEMMA InitState == Init => StateInv
<1> SUFFICES ASSUME Init
             PROVE  StateInv
  OBVIOUS
<1>1. Idle \in [buffer : 0 .. N,
               at : {"idle", "played", "more", "advanced", "end"}]
  BY NAssumption DEF Idle
<1>2. playing \in Seq(0 .. N-1)
  BY DEF Init
<1>3. 0 \in 0 .. N-1 /\ 0 \in 0 .. N /\ 0 # N
  BY NAssumption
<1>4. TypeOK
  BY <1>1, <1>2, <1>3 DEF Init, TypeOK
<1> QED
  BY <1>4 DEF Init, StateInv, Idle

LEMMA DriverKeepsState ==
    ASSUME StateInv, DriverStep
    PROVE  StateInv'
<1> USE DEF StateInv, TypeOK, ring, history
<1>1. CASE Played
  <2>1. Head(playing) \in 0 .. N-1 /\ Tail(playing) \in Seq(0 .. N-1)
    BY <1>1, HeadTailProperties DEF Played
  <2>2. callback'.at = "played" /\ callback'.buffer \in Indices
    <3>1. callback'.buffer = Head(playing) /\ callback'.at = "played"
      BY <1>1 DEF Played
    <3> QED
      BY <2>1, <3>1 DEF Indices
  <2>3. Head(playing) \in 0 .. N
    BY <2>1, NAssumption
  <2>4. callback' \in [buffer : 0 .. N,
                       at : {"idle", "played", "more", "advanced", "end"}]
    BY <1>1, <2>3 DEF Played
  <2> QED
    BY <1>1, <2>1, <2>2, <2>4 DEF Played
<1>2. CASE Compare
  <2>1. PICK at \in {"end", "more"} : callback' = [callback EXCEPT !.at = at]
    BY <1>2 DEF Compare
  <2> QED
    BY <1>2, <2>1, CallbackGoesOn DEF Compare, Note
<1>3. CASE AdvanceRead
  <2>1. ridx' \in 0 .. N-1
    BY <1>3, AfterIsIndex DEF AdvanceRead, Indices
  <2> QED
    BY <1>3, <2>1, CallbackGoesOn DEF AdvanceRead
<1>4. CASE CallbackSignals
  <2>1. callback' = Idle /\ callback'.at = "idle"
        /\ callback' \in [buffer : 0 .. N,
                          at : {"idle", "played", "more", "advanced", "end"}]
    BY <1>4, NAssumption DEF CallbackSignals, Idle
  <2> QED
    BY <1>4, <2>1 DEF CallbackSignals, Signals
<1> QED
  BY <1>1, <1>2, <1>3, <1>4 DEF DriverStep

LEMMA ThreadKeepsState ==
    ASSUME StateInv, ThreadStep
    PROVE  StateInv'
<1> USE DEF StateInv, TypeOK, ring, driver, history
<1>1. CASE Wake \/ ClearFlags \/ TimeOut \/ Fill \/ EndOfFile \/ Withdraw
  BY <1>1 DEF Wake, ClearFlags, TimeOut, Fill, EndOfFile, Withdraw, Lose
<1>2. CASE Trigger
  BY <1>2 DEF Trigger, Note
<1>3. CASE Start
  <2>1. limit' \in 0 .. N-1
    BY <1>3, NAssumption DEF Start, Limit
  <2>2. disorder' \subseteq {"retriggered", "late", "overtaken"}
    BY <1>3 DEF Start, Note
  <2>3. pc' \in {"fill", "end"}
    BY <1>3 DEF Start
  <2>4. UNCHANGED <<flags, value, open, ridx, widx, playing, callback, loud>>
        /\ widx # N /\ lost' \in BOOLEAN
    BY <1>3 DEF Start
  <2> QED
    <3>1. TypeOK'
      BY <2>1, <2>2, <2>3, <2>4
    <3> QED
      BY <2>4, <3>1
<1>4. CASE Write
  <2>1. widx \in 0 .. N-1
    BY <1>4, NAssumption DEF Write
  <2>2. playing' \in Seq(0 .. N-1)
    <3>1. Append(playing, widx) \in Seq(0 .. N-1)
      BY <2>1, AppendProperties
    <3> QED
      BY <1>4, <3>1 DEF Write
  <2> QED
    BY <1>4, <2>2 DEF Write
<1>5. CASE AdvanceWrite
  <2>1. widx' \in 0 .. N
    BY <1>5, NAssumption DEF AdvanceWrite
  <2> QED
    BY <1>5, <2>1 DEF AdvanceWrite
<1>6. CASE Wrap
  <2>1. widx' \in 0 .. N /\ widx' # N
    BY <1>6, NAssumption DEF Wrap
  <2> QED
    BY <1>6, <2>1 DEF Wrap
<1>7. CASE End
  BY <1>7 DEF End
<1> QED
  BY <1>1, <1>2, <1>3, <1>4, <1>5, <1>6, <1>7 DEF ThreadStep

LEMMA NextKeepsState == StateInv /\ [Next]_vars => StateInv'
<1> SUFFICES ASSUME StateInv, [Next]_vars
             PROVE  StateInv'
  OBVIOUS
<1>1. CASE TriggerOn
  BY <1>1 DEF TriggerOn, Signals, StateInv, TypeOK, ring, driver, history
<1>2. CASE UNCHANGED vars
  BY <1>2 DEF vars, StateInv, TypeOK
<1> QED
  BY <1>1, <1>2, DriverKeepsState, ThreadKeepsState DEF Next

\* Every index stays in the ring: only between _out_widx++ and the test that
\* follows it may _out_widx be AUDIO_OUT_BUF_NUM.
THEOREM TypeCorrect == Spec => []TypeOK
<1>1. StateInv => TypeOK
  BY DEF StateInv
<1> QED
  BY <1>1, InitState, NextKeepsState, PTL DEF Spec

--------------------------------------------------------------------------------
(***************************************************************************)
(* How the two indices relate to what the driver holds.                    *)
(***************************************************************************)
\* The steps from a to b, and the index k steps before b, in the ring.
Distance(a, b) == IF b >= a THEN b - a ELSE (b - a) + N

Before(b, k) == IF b >= k THEN b - k ELSE (b - k) + N

\* Where the next buffer goes, be the last one counted yet or not.
Top == IF pc = "advance" THEN After(widx) ELSE IF widx = N THEN 0 ELSE widx

\* The buffers handed over that _out_ridx has not passed, those that were not
\* played or whose callback has not moved it, and those still to be filled.
Ahead == Distance(ridx, Top)

Unread == IF callback.at \in {"played", "more"} THEN 1 ELSE 0

Held == Len(playing) + Unread

Left == Distance(Top, limit)

Orderly == disorder \subseteq {"overtaken"}

\* Nothing was refused, and _out_ridx lags one behind at most, once overtaken.
CountInv ==
    /\ Held <= Ahead
    /\ Ahead <= Held + 1
    /\ disorder = {} => Held = Ahead

\* The driver holds the buffers below the top, in their order.
PlayInv ==
    /\ \A i \in 1..Len(playing) :
           playing[i] = Before(Top, (Len(playing) - i) + 1)
    /\ Unread = 1 => callback.buffer = Before(Top, Held)

EndInv ==
    (callback.at = "end" \/ "EndShutter" \in flags \cup value) => disorder # {}

\* StartShutter will be handled after the handler's present run.
More ==
    callback.at = "advanced" \/ ("StartShutter" \in flags \ value)

\* A StartShutter on its way, or the first one, finds room for a buffer, and
\* the loop stops short of filling the ring.
RoomInv ==
    /\ (/\ pc \in {"wait", "clear", "trigger", "start"}
        /\ callback.at = "advanced" \/ "StartShutter" \in flags \cup value)
           => Ahead <= N - 2
    /\ (pc \in {"end", "withdraw"} /\ More) => Ahead <= N - 2
    /\ pc \in {"fill", "write", "advance", "wrap"} =>
           /\ Ahead + Left <= N - 1
           /\ More => Ahead + Left <= N - 2
    /\ pc \in {"fill", "write", "advance"} => widx # limit
    /\ (pc = "start" /\ "TriggerOn" \in value)
           => playing = <<>> /\ callback = Idle /\ "StartShutter" \notin flags

SoundInv == Orderly => CountInv /\ PlayInv /\ EndInv /\ RoomInv

--------------------------------------------------------------------------------
\* Arithmetic in the ring.
LEMMA RingArithmetic ==
    ASSUME NEW a \in Indices, NEW b \in Indices
    PROVE  /\ Distance(a, b) \in Indices
           /\ Distance(a, b) = 0 <=> a = b
           /\ a # b => Distance(After(a), b) = Distance(a, b) - 1
           /\ Distance(a, b) <= N - 2
                  => Distance(a, After(b)) = Distance(a, b) + 1
           /\ Before(After(b), 1) = b
           /\ \A k \in 1 .. N-1 : /\ Before(After(b), k + 1) = Before(b, k)
                                  /\ Before(b, k) # b
  BY NAssumption DEF Indices, Distance, Before, After

LEMMA SoundTypes ==
    ASSUME StateInv
    PROVE  /\ Top \in Indices /\ ridx \in Indices /\ limit \in Indices
           /\ Ahead \in Indices /\ Left \in Indices
           /\ Len(playing) \in Nat /\ Unread \in {0, 1} /\ Held \in Nat
           /\ pc # "wrap" => widx \in Indices
           /\ pc \notin {"advance", "wrap"} => Top = widx
<1>1. ridx \in Indices /\ limit \in Indices /\ widx \in 0 .. N
      /\ (widx = N => pc = "wrap")
  BY DEF StateInv, TypeOK, Indices
<1>2. Len(playing) \in Nat
  BY DEF StateInv, TypeOK
<1>3. Unread \in {0, 1}
  BY DEF Unread
<1>4. widx # N => widx \in Indices
  BY <1>1, NAssumption DEF Indices
<1>5. Top \in Indices
  BY <1>1, <1>4, AfterIsIndex, NAssumption DEF Top, Indices
<1>6. Ahead \in Indices /\ Left \in Indices
  BY <1>1, <1>5, RingArithmetic DEF Ahead, Left
<1>7. Held \in Nat
  BY <1>2, <1>3 DEF Held
<1> QED
  BY <1>1, <1>2, <1>3, <1>4, <1>5, <1>6, <1>7 DEF Top

\* What a step that moves no buffer and no index has to show.
LEMMA SameSound ==
    ASSUME StateInv, StateInv', SoundInv, Orderly',
           disorder \subseteq disorder',
           Top' = Top, ridx' = ridx, playing' = playing, callback' = callback,
           EndInv' \/ (flags' \cup value' \subseteq flags \cup value)
    PROVE  /\ CountInv /\ PlayInv /\ EndInv /\ RoomInv
           /\ Ahead' = Ahead /\ Held' = Held
           /\ CountInv' /\ PlayInv' /\ EndInv'
<1>1. CountInv /\ PlayInv /\ EndInv /\ RoomInv
  BY DEF SoundInv, Orderly
<1>2. Ahead' = Ahead /\ Held' = Held /\ Unread' = Unread
  BY DEF Ahead, Held, Unread, Distance
<1>3. CountInv'
  BY <1>1, <1>2 DEF CountInv
<1>4. PlayInv'
  BY <1>1, <1>2 DEF PlayInv, Before
<1>5. EndInv'
  BY <1>1 DEF EndInv
<1> QED
  BY <1>1, <1>2, <1>3, <1>4, <1>5

--------------------------------------------------------------------------------
\* Accidents are never taken back.
LEMMA StillOrderly ==
    ASSUME disorder \subseteq disorder', SoundInv, Orderly'
    PROVE  CountInv /\ PlayInv /\ EndInv /\ RoomInv
  BY DEF SoundInv, Orderly

LEMMA PlayedKeepsSound ==
    ASSUME StateInv, SoundInv, Played, Orderly'
    PROVE  CountInv' /\ PlayInv' /\ EndInv' /\ RoomInv'
<1> USE DEF Played, ring, history
<1>1. CountInv /\ PlayInv /\ EndInv /\ RoomInv
  BY StillOrderly
<1>2. Top' = Top /\ Ahead' = Ahead /\ Left' = Left
  BY DEF Top, Ahead, Left, Distance, After
<1>3. playing \in Seq(Indices) /\ playing # <<>> /\ Len(playing) \in Nat
  BY DEF StateInv, TypeOK, Indices
<1>4. /\ Len(playing') = Len(playing) - 1
      /\ Head(playing) = playing[1] /\ Len(playing) >= 1
      /\ \A i \in 1..Len(playing') : playing'[i] = playing[i + 1]
  BY <1>3, HeadTailProperties
<1>5. callback.at = "idle" /\ callback'.at = "played"
      /\ callback'.buffer = playing[1]
  BY <1>4 DEF Idle
<1>6. Unread = 0 /\ Unread' = 1 /\ Held = Len(playing)
  BY <1>3, <1>5 DEF Unread, Held
<1>7. Held' = Held
  BY <1>3, <1>4, <1>6 DEF Held
<1>8. CountInv'
  BY <1>1, <1>2, <1>7 DEF CountInv
<1>9. PlayInv'
  <2>1. ASSUME NEW i \in 1..Len(playing')
        PROVE  playing'[i] = Before(Top', (Len(playing') - i) + 1)
    <3>1. i + 1 \in 1..Len(playing)
          /\ (Len(playing) - (i + 1)) + 1 = (Len(playing') - i) + 1
      BY <1>3, <1>4
    <3> QED
      BY <1>1, <1>2, <1>4, <3>1 DEF PlayInv
  <2>2. callback'.buffer = Before(Top', Held')
    <3>1. 1 \in 1..Len(playing) /\ (Len(playing) - 1) + 1 = Held'
      BY <1>3, <1>4, <1>6, <1>7
    <3> QED
      BY <1>1, <1>2, <1>5, <3>1 DEF PlayInv
  <2>3. \A i \in 1..Len(playing') :
            playing'[i] = Before(Top', (Len(playing') - i) + 1)
    BY <2>1
  <2> QED
    BY <2>2, <2>3 DEF PlayInv
<1>10. EndInv'
  BY <1>1, <1>5 DEF EndInv
<1>11. RoomInv'
  BY <1>1, <1>2, <1>3, <1>5 DEF RoomInv, More
<1> QED
  BY <1>8, <1>9, <1>10, <1>11

\* A callback that finds the indices equal is overtaking the handler.
LEMMA CompareKeepsSound ==
    ASSUME StateInv, SoundInv, Compare, Orderly'
    PROVE  CountInv' /\ PlayInv' /\ EndInv' /\ RoomInv'
<1> USE DEF Compare, ring, history
<1>1. CountInv /\ PlayInv /\ EndInv /\ RoomInv /\ disorder \subseteq disorder'
  BY StillOrderly DEF Note
<1>2. Top' = Top /\ Ahead' = Ahead /\ Left' = Left
  BY DEF Top, Ahead, Left, Distance, After
<1>3. Unread = 1 /\ Held = Len(playing) + 1 /\ Len(playing) \in Nat
  BY SoundTypes DEF Unread, Held
<1>4. CASE IsLast
  <2>1. callback'.at = "end"
    BY <1>4, CallbackGoesOn
  <2>2. Unread' = 0 /\ Held' = Len(playing)
    BY <1>3, <2>1 DEF Unread, Held
  <2>3. widx = ridx /\ widx \in Indices /\ widx # N
    BY <1>4, SoundTypes, NAssumption DEF IsLast, Indices
  <2>4. pc = "advance" /\ Top = After(widx)
    <3> SUFFICES ASSUME pc # "advance"
                 PROVE  FALSE
      BY DEF Top
    <3>1. Top = ridx
      BY <2>3 DEF Top
    <3>2. Ahead = 0
      BY <2>3, <3>1, RingArithmetic DEF Ahead
    <3> QED
      BY <1>1, <1>3, <3>2 DEF CountInv
  <2>5. Ahead = 1
    <3>1. Distance(widx, widx) = 0
      BY <2>3, RingArithmetic
    <3> QED
      BY <2>3, <2>4, <3>1, RingArithmetic, NAssumption DEF Ahead
  <2>6. Len(playing) = 0 /\ Held = 1
    BY <1>1, <1>3, <2>5, SoundTypes DEF CountInv
  <2>7. callback.buffer = widx
    BY <1>1, <1>3, <2>3, <2>4, <2>6, RingArithmetic DEF PlayInv
  <2>8. disorder' # {}
    BY <2>4, <2>7 DEF Note
  <2>9. CountInv' /\ PlayInv' /\ EndInv'
    BY <1>2, <2>2, <2>5, <2>6, <2>8 DEF CountInv, PlayInv, EndInv
  <2>10. RoomInv'
    BY <1>1, <1>2, <2>1, <2>4 DEF RoomInv, More
  <2> QED
    BY <2>9, <2>10
<1>5. CASE ~IsLast
  <2>1. callback'.at = "more" /\ callback'.buffer = callback.buffer
    BY <1>5, CallbackGoesOn
  <2>2. Unread' = 1 /\ Held' = Held
    BY <1>3, <2>1 DEF Unread, Held
  <2>3. CountInv' /\ EndInv'
    BY <1>1, <1>2, <2>1, <2>2 DEF CountInv, EndInv
  <2>4. PlayInv'
    BY <1>1, <1>2, <1>3, <2>1, <2>2 DEF PlayInv
  <2>5. RoomInv'
    <3>1. callback # Idle
      BY DEF Idle
    <3> QED
      BY <1>1, <1>2, <2>1, <3>1 DEF RoomInv, More
  <2> QED
    BY <2>3, <2>4, <2>5
<1> QED
  BY <1>4, <1>5

LEMMA AdvanceReadKeepsSound ==
    ASSUME StateInv, SoundInv, AdvanceRead, Orderly'
    PROVE  CountInv' /\ PlayInv' /\ EndInv' /\ RoomInv'
<1> USE DEF AdvanceRead, history
<1>1. CountInv /\ PlayInv /\ EndInv /\ RoomInv
  BY StillOrderly
<1>2. Top' = Top /\ Left' = Left
  BY DEF Top, Left, Distance, After
<1>3. callback'.at = "advanced"
  BY CallbackGoesOn
<1>4. Unread = 1 /\ Unread' = 0
  BY <1>3 DEF Unread
<1>5. Held' = Held - 1 /\ Held >= 1
  BY <1>4, SoundTypes DEF Held
<1>6. ridx # Top
  BY <1>1, <1>5, SoundTypes, RingArithmetic DEF Ahead, CountInv
<1>7. Ahead' = Ahead - 1
  BY <1>2, <1>6, SoundTypes, RingArithmetic DEF Ahead
<1>8. CountInv' /\ EndInv'
  BY <1>1, <1>3, <1>5, <1>7, SoundTypes DEF CountInv, EndInv, Indices
<1>9. PlayInv'
  BY <1>1, <1>2, <1>4 DEF PlayInv
<1>10. RoomInv'
  <2>1. callback # Idle
    BY DEF Idle
  <2>2. Ahead' <= N - 2
    BY <1>7, SoundTypes, NAssumption DEF Indices
  <2>3. pc \in {"fill", "write", "advance", "wrap"} => Ahead' + Left' <= N - 2
    BY <1>1, <1>2, <1>7, SoundTypes, NAssumption DEF RoomInv, Indices
  <2>4. Ahead' + Left' <= N - 2 => Ahead' + Left' <= N - 1
    BY <1>2, <1>7, SoundTypes, NAssumption DEF Indices
  <2> QED
    BY <1>1, <2>1, <2>2, <2>3, <2>4 DEF RoomInv
<1> QED
  BY <1>8, <1>9, <1>10

LEMMA SignalKeepsSound ==
    ASSUME StateInv, SoundInv, CallbackSignals, Orderly'
    PROVE  CountInv' /\ PlayInv' /\ EndInv' /\ RoomInv'
<1> USE DEF CallbackSignals, ring, history
<1>1. CountInv /\ PlayInv /\ EndInv /\ RoomInv
  BY StillOrderly
<1>2. Top' = Top /\ Ahead' = Ahead /\ Left' = Left
  BY DEF Top, Ahead, Left, Distance, After
<1>3. callback'.at = "idle"
  BY DEF Idle
<1>4. Unread' = Unread /\ Unread = 0
  BY <1>3 DEF Unread
<1>5. Held' = Held
  BY <1>4 DEF Held
<1>6. CountInv' /\ PlayInv'
  BY <1>1, <1>2, <1>4, <1>5 DEF CountInv, PlayInv
<1>7. EndInv'
  BY <1>1, <1>3 DEF EndInv
<1>8. RoomInv'
  <2>1. callback # Idle
    BY DEF Idle
  <2> QED
    BY <1>1, <1>2, <1>3, <2>1 DEF RoomInv, More
<1> QED
  BY <1>6, <1>7, <1>8

LEMMA DriverKeepsSound ==
    ASSUME StateInv, SoundInv, DriverStep
    PROVE  SoundInv'
  BY PlayedKeepsSound, CompareKeepsSound, AdvanceReadKeepsSound, SignalKeepsSound
  DEF DriverStep, SoundInv

--------------------------------------------------------------------------------
\* The steps outside the loop, which move no buffer and no index.
LEMMA WaitingKeepsSound ==
    ASSUME StateInv, StateInv', SoundInv, Orderly',
           Wake \/ ClearFlags \/ TimeOut \/ End \/ Withdraw \/ TriggerOn
    PROVE  CountInv' /\ PlayInv' /\ EndInv' /\ RoomInv'
<1> USE DEF Wake, ClearFlags, TimeOut, End, Withdraw, TriggerOn, ring, driver,
            history
<1>1. /\ pc \notin {"advance", "wrap"} \/ pc' = pc
      /\ pc' \notin {"advance", "wrap"} \/ pc' = pc
      /\ UNCHANGED <<ridx, widx, limit, playing, callback, disorder>>
  OBVIOUS
<1>2. Top' = Top
  BY <1>1 DEF Top, After
<1>3. EndInv' \/ (flags' \cup value' \subseteq flags \cup value)
  <2>1. CASE TriggerOn
    BY <1>1, <2>1, StillOrderly DEF EndInv
  <2> QED
    BY <2>1
<1>4. /\ CountInv /\ PlayInv /\ EndInv /\ RoomInv
      /\ Ahead' = Ahead /\ Held' = Held
      /\ CountInv' /\ PlayInv' /\ EndInv'
  BY <1>1, <1>2, <1>3, SameSound
<1>5. Left' = Left
  BY <1>1, <1>2 DEF Left, Distance
<1>6. RoomInv'
  <2>1. CASE Wake \/ ClearFlags \/ TimeOut
    BY <1>1, <1>4, <1>5, <2>1 DEF RoomInv, More
  <2>2. CASE End
    BY <1>1, <1>4, <1>5, <2>2 DEF RoomInv, More
  <2>3. CASE Withdraw
    BY <1>1, <1>4, <1>5, <2>3 DEF RoomInv, More
  <2>4. CASE TriggerOn
    BY <1>1, <1>4, <1>5, <2>4 DEF RoomInv, More
  <2> QED
    BY <2>1, <2>2, <2>3, <2>4
<1> QED
  BY <1>4, <1>6

\* An orderly trigger finds the ring played out.
LEMMA TriggerKeepsSound ==
    ASSUME StateInv, StateInv', SoundInv, Orderly', Trigger
    PROVE  CountInv' /\ PlayInv' /\ EndInv' /\ RoomInv'
<1> USE DEF Trigger, ring, driver, history
<1>1. /\ pc = "trigger" /\ pc' = "start" /\ disorder \subseteq disorder'
      /\ UNCHANGED <<ridx, widx, limit, playing, callback, flags, value>>
  BY DEF Note
<1>2. Top' = Top
  BY <1>1 DEF Top
<1>3. /\ RoomInv /\ Ahead' = Ahead
      /\ CountInv' /\ PlayInv' /\ EndInv'
  BY <1>1, <1>2, SameSound
<1>4. "TriggerOn" \in value => SoundIsOver
  BY DEF Note, Orderly
<1>5. RoomInv'
  BY <1>1, <1>3, <1>4 DEF RoomInv, SoundIsOver
<1> QED
  BY <1>3, <1>5

\* The loop is entered with room for a buffer, and with a limit one short of
\* the ring's size.
LEMMA StartKeepsSound ==
    ASSUME StateInv, StateInv', SoundInv, Orderly', Start
    PROVE  CountInv' /\ PlayInv' /\ EndInv' /\ RoomInv'
<1> USE DEF Start, driver, history
<1>1. /\ pc = "start" /\ disorder \subseteq disorder'
      /\ UNCHANGED <<ridx, widx, playing, callback, flags, value>>
  BY DEF Note
<1>2. Top' = Top /\ Top = widx
  BY <1>1, SoundTypes DEF Top
<1>3. /\ CountInv /\ RoomInv /\ Ahead' = Ahead
      /\ CountInv' /\ PlayInv' /\ EndInv'
  BY <1>1, <1>2, SameSound
<1>4. CASE pc' = "end"
  BY <1>1, <1>3, <1>4 DEF RoomInv, More
<1>5. CASE pc' = "fill"
  <2>1. limit' = Limit /\ callback.at # "advanced"
        /\ value \cap {"TriggerOn", "StartShutter"} # {}
    BY <1>5 DEF Note, Orderly
  <2>2. Ahead <= N - 2
    <3>1. CASE "StartShutter" \in value
      BY <1>1, <1>3, <3>1 DEF RoomInv
    <3>2. CASE "TriggerOn" \in value
      <4>1. playing = <<>> /\ callback.at = "idle"
        BY <1>1, <1>3, <3>2 DEF RoomInv, Idle
      <4>2. Held = 0
        BY <4>1 DEF Held, Unread
      <4> QED
        BY <1>3, <4>2, SoundTypes, NAssumption DEF CountInv, Indices
    <3> QED
      BY <2>1, <3>1, <3>2
  <2>3. Ahead + Left' = N - 1 /\ Left' >= 1
    <3>1. /\ Distance(widx, Limit) \in Nat
          /\ Distance(ridx, widx) + Distance(widx, Limit) = N - 1
      BY <1>2, SoundTypes, NAssumption DEF Distance, Limit, Indices
    <3>2. Ahead = Distance(ridx, widx) /\ Left' = Distance(widx, Limit)
      BY <1>1, <1>2, <2>1 DEF Ahead, Left, Distance
    <3> QED
      BY <2>2, <3>1, <3>2, SoundTypes, NAssumption DEF Indices
  <2>4. widx' # limit'
    <3>1. Left' # 0
      BY <2>3, SoundTypes, NAssumption DEF Indices
    <3> QED
      BY <1>1, <1>2, <3>1, SoundTypes, RingArithmetic DEF Left
  <2>5. ~More'
    BY <1>1, <1>3, <2>1 DEF RoomInv, More
  <2>6. Ahead' + Left' <= N - 1
    BY <1>3, <2>3, NAssumption
  <2> QED
    BY <1>3, <1>5, <2>4, <2>5, <2>6 DEF RoomInv
<1> QED
  BY <1>4, <1>5

\* The steps of the loop that hand nothing over.
LEMMA LoopKeepsSound ==
    ASSUME StateInv, StateInv', SoundInv, Orderly',
           Fill \/ EndOfFile \/ AdvanceWrite \/ Wrap
    PROVE  CountInv' /\ PlayInv' /\ EndInv' /\ RoomInv'
<1> USE DEF Fill, EndOfFile, AdvanceWrite, Wrap, ring, driver, history
<1>1. UNCHANGED <<ridx, limit, playing, callback, flags, value, disorder>>
  OBVIOUS
<1>2. Top' = Top
  <2>1. CASE Fill \/ EndOfFile
    BY <2>1 DEF Top
  <2>2. CASE AdvanceWrite
    <3>1. widx \in Indices
      BY <2>2, SoundTypes
    <3> QED
      BY <2>2, <3>1, NAssumption DEF Top, After, Indices
  <2>3. CASE Wrap
    <3>1. widx \in 0 .. N
      BY DEF StateInv, TypeOK
    <3> QED
      BY <2>3, <3>1, NAssumption DEF Top
  <2> QED
    BY <2>1, <2>2, <2>3
<1>3. /\ RoomInv /\ Ahead' = Ahead
      /\ CountInv' /\ PlayInv' /\ EndInv'
  BY <1>1, <1>2, SameSound
<1>4. Left' = Left /\ More' = More
  BY <1>1, <1>2 DEF Left, Distance, More
<1>5. RoomInv'
  <2>1. CASE Fill
    BY <1>1, <1>3, <1>4, <2>1 DEF RoomInv
  <2>2. CASE EndOfFile
    <3>1. Left # 0
      BY <1>3, <2>2, SoundTypes, RingArithmetic DEF RoomInv, Left
    <3>2. Ahead <= N - 2
      BY <1>3, <2>2, <3>1, SoundTypes, NAssumption DEF RoomInv, Indices
    <3> QED
      BY <1>3, <2>2, <3>2 DEF RoomInv
  <2>3. CASE AdvanceWrite
    BY <1>3, <1>4, <2>3 DEF RoomInv
  <2>4. CASE Wrap
    <3>1. More => Ahead <= N - 2
      BY <1>3, <2>4, SoundTypes, NAssumption DEF RoomInv, Indices
    <3> QED
      BY <1>1, <1>3, <1>4, <2>4, <3>1 DEF RoomInv
  <2> QED
    BY <2>1, <2>2, <2>3, <2>4
<1> QED
  BY <1>3, <1>5

\* In the loop there is room for one buffer more.
LEMMA RoomToWrite ==
    ASSUME StateInv, CountInv, RoomInv, pc \in {"fill", "write"}
    PROVE  /\ Ahead <= N - 2 /\ Left >= 1
           /\ Len(playing) <= N - 2 /\ Len(playing) < MaxWrites
<1>1. Left >= 1
  <2>1. Left # 0
    BY SoundTypes, RingArithmetic DEF RoomInv, Left
  <2> QED
    BY <2>1, SoundTypes, NAssumption DEF Indices
<1>2. Ahead <= N - 2
  BY <1>1, SoundTypes, NAssumption DEF RoomInv, Indices
<1>3. Len(playing) <= Ahead
  BY SoundTypes, NAssumption DEF CountInv, Held, Indices
<1> QED
  BY <1>1, <1>2, <1>3, SoundTypes, NAssumption, MaxWritesAssumption DEF Indices

\* Nothing is refused: the driver has one buffer more, and the top moves on.
LEMMA WriteKeepsSound ==
    ASSUME StateInv, StateInv', SoundInv, Orderly', Write
    PROVE  CountInv' /\ PlayInv' /\ EndInv' /\ RoomInv'
<1> USE DEF Write, ring, history
<1>1. /\ CountInv /\ PlayInv /\ EndInv /\ RoomInv
      /\ UNCHANGED <<flags, value, callback, disorder, ridx, widx, limit>>
  BY StillOrderly
<1>2. /\ Ahead <= N - 2 /\ Left >= 1
      /\ Len(playing) <= N - 2 /\ Len(playing) < MaxWrites
  BY <1>1, RoomToWrite
<1>3. widx \in Indices /\ Top = widx /\ Top' = After(widx)
  BY SoundTypes DEF Top
<1>4. playing \in Seq(Indices) /\ playing' = Append(playing, widx)
  BY <1>2 DEF StateInv, TypeOK, Indices
<1>5. /\ Len(playing') = Len(playing) + 1 /\ Len(playing) \in Nat
      /\ playing'[Len(playing) + 1] = widx
      /\ \A i \in 1..Len(playing) : playing'[i] = playing[i]
  BY <1>3, <1>4, AppendProperties
<1>6. Unread' = Unread /\ Held' = Held + 1 /\ Held \in Nat
  <2>1. Unread' = Unread
    BY <1>1 DEF Unread
  <2> QED
    BY <1>5, <2>1, SoundTypes DEF Held
<1>7. Ahead' = Ahead + 1
  BY <1>1, <1>2, <1>3, SoundTypes, RingArithmetic DEF Ahead
<1>8. Left' = Left - 1
  <2>1. widx # limit
    BY <1>1 DEF RoomInv
  <2> QED
    BY <1>1, <1>3, <2>1, SoundTypes, RingArithmetic DEF Left
<1>9. CountInv' /\ EndInv'
  BY <1>1, <1>6, <1>7, SoundTypes DEF CountInv, EndInv, Indices
<1>10. PlayInv'
  <2>1. ASSUME NEW i \in 1..Len(playing')
        PROVE  playing'[i] = Before(Top', (Len(playing') - i) + 1)
    <3>1. CASE i = Len(playing) + 1
      <4>1. (Len(playing') - i) + 1 = 1
        BY <1>5, <3>1
      <4> QED
        BY <1>3, <1>5, <3>1, <4>1, RingArithmetic
    <3>2. CASE i # Len(playing) + 1
      <4>1. /\ i \in 1..Len(playing)
            /\ (Len(playing) - i) + 1 \in 1 .. N-1
            /\ (Len(playing') - i) + 1 = ((Len(playing) - i) + 1) + 1
        BY <1>2, <1>5, <3>2, NAssumption
      <4>2. playing'[i] = Before(widx, (Len(playing) - i) + 1)
        BY <1>1, <1>3, <1>5, <4>1 DEF PlayInv
      <4> QED
        BY <1>3, <4>1, <4>2, RingArithmetic
    <3> QED
      BY <3>1, <3>2
  <2>2. ASSUME Unread = 1
        PROVE  callback'.buffer = Before(Top', Held')
    <3>1. Held \in 1 .. N-1
      BY <1>1, <1>2, <1>6, <2>2, SoundTypes, NAssumption
      DEF CountInv, Held, Indices
    <3>2. callback.buffer = Before(widx, Held)
      BY <1>1, <1>3, <2>2 DEF PlayInv
    <3> QED
      BY <1>1, <1>3, <1>6, <3>1, <3>2, RingArithmetic
  <2> QED
    BY <1>6, <2>1, <2>2 DEF PlayInv
<1>11. RoomInv'
  <2>1. Ahead' + Left' = Ahead + Left
    BY <1>7, <1>8, SoundTypes, NAssumption DEF Indices
  <2>2. More' = More
    BY <1>1 DEF More
  <2> QED
    BY <1>1, <2>1, <2>2 DEF RoomInv
<1> QED
  BY <1>9, <1>10, <1>11

--------------------------------------------------------------------------------
LEMMA InitSound == Init => SoundInv
<1> SUFFICES ASSUME Init
             PROVE  CountInv /\ PlayInv /\ EndInv /\ RoomInv
  BY DEF SoundInv
<1>1. Top = 0 /\ Len(playing) = 0 /\ callback.at = "idle"
  BY NAssumption DEF Init, Top, Idle
<1>2. Ahead = 0 /\ Held = 0 /\ Unread = 0
  BY <1>1 DEF Init, Ahead, Distance, Held, Unread
<1> QED
  BY <1>1, <1>2, NAssumption DEF Init, CountInv, PlayInv, EndInv, RoomInv, More

LEMMA NextKeepsSound ==
    StateInv /\ StateInv' /\ SoundInv /\ [Next]_vars => SoundInv'
<1> SUFFICES ASSUME StateInv, StateInv', SoundInv, [Next]_vars
             PROVE  SoundInv'
  OBVIOUS
<1>1. CASE UNCHANGED vars
  <2> SUFFICES ASSUME Orderly'
               PROVE  CountInv' /\ PlayInv' /\ EndInv' /\ RoomInv'
    BY DEF SoundInv
  <2> USE <1>1 DEF vars
  <2>1. Top' = Top
    BY DEF Top, After
  <2>2. RoomInv /\ Ahead' = Ahead /\ CountInv' /\ PlayInv' /\ EndInv'
    BY <2>1, SameSound
  <2>3. Left' = Left /\ More' = More
    BY <2>1 DEF Left, Distance, More
  <2>4. RoomInv'
    BY <2>2, <2>3 DEF RoomInv
  <2> QED
    BY <2>2, <2>4
<1>2. CASE ThreadStep \/ TriggerOn
  BY <1>2, WaitingKeepsSound, TriggerKeepsSound, StartKeepsSound,
     LoopKeepsSound, WriteKeepsSound
  DEF ThreadStep, SoundInv
<1> QED
  BY <1>1, <1>2, DriverKeepsSound DEF Next

\* However long the ring: no buffer is filled while the driver holds it, and
\* none is refused, as long as each trigger finds the last sound over and no
\* handler reads _out_ridx between a callback's two steps.
THEOREM NotOverrun == Spec => []RingNotOverrun
<1>1. StateInv /\ SoundInv => RingNotOverrun
  <2> SUFFICES ASSUME StateInv, SoundInv, pc = "write", Orderly
               PROVE  widx \notin ToSet(playing) /\ Len(playing) < MaxWrites
    BY DEF RingNotOverrun, Orderly
  <2>1. CountInv /\ PlayInv /\ RoomInv
    BY DEF SoundInv
  <2>2. Len(playing) <= N - 2 /\ Len(playing) < MaxWrites
    BY <2>1, RoomToWrite
  <2>3. widx \in Indices /\ Top = widx /\ Len(playing) \in Nat
    BY SoundTypes
  <2>4. ASSUME NEW i \in 1..Len(playing)
        PROVE  playing[i] # widx
    <3>1. (Len(playing) - i) + 1 \in 1 .. N-1
      BY <2>2, <2>3, NAssumption
    <3>2. playing[i] = Before(widx, (Len(playing) - i) + 1)
      BY <2>1, <2>3 DEF PlayInv
    <3> QED
      BY <2>3, <3>1, <3>2, RingArithmetic
  <2>5. playing \in Seq(Indices)
    BY DEF StateInv, TypeOK, Indices
  <2> QED
    BY <2>2, <2>4, <2>5 DEF ToSet
<1> QED
  BY <1>1, InitState, NextKeepsState, InitSound, NextKeepsSound, PTL DEF Spec

\* The volume is turned down only after one of the three accidents: in an
\* orderly sound EndShutter is never signalled.
THEOREM LoudForGood == Spec => StaysLoud
<1>1. StateInv /\ SoundInv /\ [Next]_vars
          => (loud /\ ~loud' => disorder # {}) \/ UNCHANGED vars
  <2> SUFFICES ASSUME StateInv, SoundInv, Next, loud, ~loud', disorder = {}
               PROVE  FALSE
    OBVIOUS
  <2>1. End
    BY DEF Next, ThreadStep, DriverStep, Wake, ClearFlags, TimeOut, Trigger,
           Start, Fill, EndOfFile, Write, AdvanceWrite, Wrap, Withdraw,
           Played, Compare, AdvanceRead, CallbackSignals, TriggerOn
  <2>2. "EndShutter" \in value
    BY <2>1 DEF End
  <2>3. EndInv
    BY DEF SoundInv, Orderly
  <2> QED
    BY <2>2, <2>3 DEF EndInv
<1>2. StateInv /\ SoundInv /\ [Next]_vars
          => [loud /\ ~loud' => disorder # {}]_vars
  BY <1>1
<1> QED
  BY <1>2, InitState, NextKeepsState, InitSound, NextKeepsSound, PTL
  DEF Spec, StaysLoud

--------------------------------------------------------------------------------
(***************************************************************************)
(* The sound goes on.                                                      *)
(***************************************************************************)
\* Something will come that makes the handler look at the ring again.
Pending == "StartShutter" \in flags \/ callback # Idle \/ playing # <<>>

\* The handler will fill the ring in its present run.
Heeding ==
    \/ pc \in {"clear", "trigger", "start"} /\ "StartShutter" \in value
    \/ pc = "start" /\ "TriggerOn" \in value
    \/ pc \in {"fill", "write"}

Faultless == open /\ ~lost /\ disorder = {}

GoingOnInv == Faultless => Pending \/ Heeding

\* A callback ends with StartShutter, for EndShutter is an accident's.
LEMMA DriverGoesOn ==
    ASSUME StateInv, SoundInv, GoingOnInv, DriverStep
    PROVE  GoingOnInv'
<1> SUFFICES ASSUME Faultless'
             PROVE  Pending' \/ Heeding'
  BY DEF GoingOnInv
<1> USE DEF ring, history
<1>1. CASE Played
  <2>1. callback' # Idle
    BY <1>1, NAssumption DEF Played, Idle
  <2> QED
    BY <2>1 DEF Pending
<1>2. CASE Compare \/ AdvanceRead
  <2>1. callback'.at # "idle"
    BY <1>2, CallbackGoesOn DEF Compare, AdvanceRead
  <2> QED
    BY <2>1 DEF Pending, Idle
<1>3. CASE CallbackSignals
  <2>1. EndInv /\ disorder = {}
    BY <1>3 DEF CallbackSignals, Faultless, SoundInv, Orderly
  <2>2. callback.at # "end"
    BY <2>1 DEF EndInv
  <2> QED
    BY <1>3, <2>2 DEF CallbackSignals, Pending
<1> QED
  BY <1>1, <1>2, <1>3 DEF DriverStep

\* What the thread clears without handling it is lost, and is then excepted.
LEMMA ThreadGoesOn ==
    ASSUME StateInv, GoingOnInv, ThreadStep
    PROVE  GoingOnInv'
<1> SUFFICES ASSUME Faultless'
             PROVE  Pending' \/ Heeding'
  BY DEF GoingOnInv
<1> USE DEF ring, driver, history
<1>1. CASE Wake
  BY <1>1 DEF Wake, Faultless, GoingOnInv, Pending, Heeding
<1>2. CASE ClearFlags
  BY <1>2 DEF ClearFlags, Lose, Faultless, GoingOnInv, Pending, Heeding
<1>3. CASE TimeOut
  BY <1>3 DEF TimeOut, Lose, Faultless, GoingOnInv, Pending, Heeding
<1>4. CASE Trigger
  <2>1. CASE "TriggerOn" \in value
    BY <1>4, <2>1 DEF Trigger, Heeding
  <2>2. CASE "TriggerOn" \notin value
    BY <1>4, <2>2 DEF Trigger, Faultless, GoingOnInv, Pending, Heeding
  <2> QED
    BY <2>1, <2>2
<1>5. CASE Start
  <2>1. CASE pc' = "fill"
    BY <2>1 DEF Heeding
  <2>2. CASE pc' # "fill"
    <3>1. ~Heeding /\ Faultless /\ UNCHANGED <<flags, callback, playing>>
      BY <1>5, <2>2 DEF Start, Faultless, Heeding
    <3> QED
      BY <3>1 DEF GoingOnInv, Pending
  <2> QED
    BY <2>1, <2>2
<1>6. CASE Fill
  BY <1>6 DEF Fill, Heeding
<1>7. CASE EndOfFile
  BY <1>7 DEF EndOfFile, Faultless
<1>8. CASE Write
  <2>1. playing' # <<>>
    <3>1. CASE Len(playing) < MaxWrites
      <4>1. widx \in 0 .. N-1
        BY <1>8, NAssumption DEF Write, StateInv, TypeOK
      <4>2. Append(playing, widx) # <<>>
        BY <4>1, AppendProperties DEF StateInv, TypeOK
      <4> QED
        BY <1>8, <3>1, <4>2 DEF Write
    <3>2. CASE ~(Len(playing) < MaxWrites)
      <4>1. Len(playing) # 0
        BY <3>2, NAssumption, MaxWritesAssumption
      <4> QED
        BY <1>8, <3>2, <4>1 DEF Write
    <3> QED
      BY <3>1, <3>2
  <2> QED
    BY <2>1 DEF Pending
<1>9. CASE AdvanceWrite \/ Wrap \/ End
  BY <1>9 DEF AdvanceWrite, Wrap, End, Faultless, GoingOnInv, Pending, Heeding
<1>10. CASE Withdraw
  BY <1>10 DEF Withdraw, Lose, Faultless, GoingOnInv, Pending, Heeding
<1> QED
  BY <1>1, <1>2, <1>3, <1>4, <1>5, <1>6, <1>7, <1>8, <1>9, <1>10
  DEF ThreadStep

LEMMA NextGoesOn ==
    StateInv /\ SoundInv /\ GoingOnInv /\ [Next]_vars => GoingOnInv'
<1> SUFFICES ASSUME StateInv, SoundInv, GoingOnInv, [Next]_vars
             PROVE  GoingOnInv'
  OBVIOUS
<1>1. CASE TriggerOn
  BY <1>1 DEF TriggerOn, ring, driver, history, GoingOnInv, Faultless, Pending,
              Heeding
<1>2. CASE UNCHANGED vars
  BY <1>2 DEF vars, GoingOnInv, Faultless, Pending, Heeding
<1> QED
  BY <1>1, <1>2, DriverGoesOn, ThreadGoesOn DEF Next

\* However long the ring and however the steps of the driver and of the
\* handler interleave: an orderly sound whose file is open stops only through
\* a StartShutter that the mailbox lost.
THEOREM SoundNotStranded == Spec => []SoundGoesOn
<1>1. Init => GoingOnInv
  BY DEF Init, GoingOnInv, Faultless
<1>2. GoingOnInv => SoundGoesOn
  BY DEF GoingOnInv, SoundGoesOn, Faultless, Pending, Heeding
<1> QED
  BY <1>1, <1>2, InitState, NextKeepsState, InitSound, NextKeepsSound,
     NextGoesOn, PTL DEF Spec
================================================================================
