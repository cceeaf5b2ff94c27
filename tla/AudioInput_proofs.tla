--------------------------- MODULE AudioInput_proofs ---------------------------
(***************************************************************************)
(* Theorems about AudioInput, for any number of buffers.                   *)
(***************************************************************************)
EXTENDS AudioInput, SequenceTheorems, TLAPS

--------------------------------------------------------------------------------
(***************************************************************************)
(* What the state consists of.                                             *)
(***************************************************************************)
Pcs == {"start", "wait", "signalled", "timeout", "handle", "withdraw",
        "process", "popping", "popped", "look", "record"}

\* Only an idle callback is about no buffer; OnStart comes first.
StateInv ==
    /\ TypeOK
    /\ IF callback.at = "idle" THEN callback = Idle
                               ELSE callback.buffer \in Buffers
    /\ IF pc = "start" THEN ~recSignal ELSE started = N

\* A callback's buffer stays what it is while the callback goes on.
LEMMA CallbackTyped ==
    ASSUME StateInv, callback.at # "idle",
           NEW at \in {"drawing", "pushing", "pushed"},
           callback' = [callback EXCEPT !.at = at]
    PROVE  /\ callback'.at = at
           /\ callback'.buffer = callback.buffer
           /\ callback'.buffer \in Buffers
           /\ callback' \in [buffer : Buffers \cup {NoBuffer},
                             at : {"idle", "drawing", "pushing", "pushed"}]
  BY DEF StateInv, TypeOK

LEMMA DriverKeepsState ==
    ASSUME StateInv, DriverStep
    PROVE  StateInv'
<1> USE DEF StateInv, TypeOK, recorder, mailbox, driver
<1>1. CASE Filled
  <2>1. Head(posted) \in Buffers /\ Tail(posted) \in Seq(Buffers)
    BY <1>1 DEF Filled
  <2> QED
    BY <1>1, <2>1 DEF Filled
<1>2. CASE PushBegin
  BY <1>2, CallbackTyped DEF PushBegin
<1>3. CASE PushEnd
  <2>1. callback.buffer \in Buffers
    BY <1>3 DEF PushEnd
  <2>2. mails' \in Seq(Buffers)
    BY <1>3, <2>1 DEF PushEnd, Push
  <2>3. broken' \in BOOLEAN
    BY <1>3 DEF PushEnd, Overlap
  <2> QED
    BY <1>3, <2>2, <2>3, CallbackTyped DEF PushEnd
<1>4. CASE CallbackSignals
  BY <1>4 DEF CallbackSignals, Signal, Signals, Idle
<1> QED
  BY <1>1, <1>2, <1>3, <1>4 DEF DriverStep

LEMMA ThreadKeepsState ==
    ASSUME StateInv, ThreadStep
    PROVE  StateInv'
<1> USE DEF StateInv, TypeOK, recorder, mailbox, driver, ThreadGoes
<1>1. CASE PostRead
  <2>1. started' \in Buffers /\ started' \in 0..N
    BY <1>1, NAssumption DEF PostRead, Buffers
  <2>2. posted' \in Seq(Buffers)
    BY <1>1, <2>1 DEF PostRead
  <2> QED
    BY <1>1, <2>1, <2>2 DEF PostRead
<1>2. CASE Started
  BY <1>2 DEF Started
<1>3. CASE WakeBySignal
  BY <1>3 DEF WakeBySignal
<1>4. CASE WakeByTimeOut
  BY <1>4 DEF WakeByTimeOut
<1>5. CASE PollOnce
  BY <1>5 DEF PollOnce
<1>6. CASE ClearFlags
  BY <1>6 DEF ClearFlags
<1>7. CASE ProcessEvent
  <2>1. recSignal' \in BOOLEAN /\ recording' \in BOOLEAN
    BY <1>7 DEF ProcessEvent, RecSignalAfter
  <2> QED
    BY <1>7, <2>1 DEF ProcessEvent
<1>8. CASE Withdraw
  BY <1>8 DEF Withdraw
<1>9. CASE NothingToRecord
  BY <1>9 DEF NothingToRecord
<1>10. CASE PopBegin
  BY <1>10 DEF PopBegin
<1>11. CASE PopEnd
  <2>1. mails # <<>> => Head(mails) \in Buffers /\ Tail(mails) \in Seq(Buffers)
    OBVIOUS
  <2>2. mails' \in Seq(Buffers) /\ hand' \in Buffers \cup {NoBuffer}
    BY <1>11, <2>1 DEF PopEnd
  <2>3. broken' \in BOOLEAN
    BY <1>11 DEF PopEnd, Overlap
  <2> QED
    BY <1>11, <2>2, <2>3 DEF PopEnd
<1>12. CASE GiveBack
  <2>1. posted' \in Seq(Buffers)
    BY <1>12 DEF GiveBack, ReadAgain
  <2> QED
    BY <1>12, <2>1 DEF GiveBack
<1>13. CASE LookAgain
  BY <1>13 DEF LookAgain, Resignal, Signal, Signals
<1>14. CASE Record
  BY <1>14 DEF Record
<1> QED
  BY <1>1, <1>2, <1>3, <1>4, <1>5, <1>6, <1>7, <1>8, <1>9, <1>10, <1>11,
     <1>12, <1>13, <1>14
  DEF ThreadStep, Run

LEMMA NextKeepsState == StateInv /\ [Next]_vars => StateInv'
<1> SUFFICES ASSUME StateInv, [Next]_vars
             PROVE  StateInv'
  OBVIOUS
<1>1. CASE OtherSignal
  BY <1>1 DEF OtherSignal, Signal, Signals, StateInv, TypeOK, recorder, driver
<1>2. CASE UNCHANGED vars
  BY <1>2 DEF vars, mailbox, recorder, driver, StateInv, TypeOK
<1> QED
  BY <1>1, <1>2, DriverKeepsState, ThreadKeepsState DEF Next, Undefined

LEMMA InitState == Init => StateInv
<1> SUFFICES ASSUME Init
             PROVE  StateInv
  OBVIOUS
<1>1. Idle \in [buffer : Buffers \cup {NoBuffer},
               at : {"idle", "drawing", "pushing", "pushed"}]
  BY DEF Idle
<1>2. started \in 0..N
  BY NAssumption DEF Init
<1>3. mails \in Seq(Buffers) /\ posted \in Seq(Buffers)
  BY DEF Init
<1>4. TypeOK
  BY <1>1, <1>2, <1>3 DEF Init, TypeOK
<1> QED
  BY <1>4 DEF Init, StateInv, Idle

\* Every variable is of its type, whatever the driver and the thread do, also
\* when their accesses to the list overlap.
THEOREM TypeCorrect == Spec => []TypeOK
<1>1. StateInv => TypeOK
  BY DEF StateInv
<1> QED
  BY <1>1, InitState, NextKeepsState, PTL DEF Spec

--------------------------------------------------------------------------------
(***************************************************************************)
(* No mail is stranded: from the look at the list after the pop until the  *)
(* next wait, whatever is in it has been or is about to be signalled.      *)
(***************************************************************************)
Announced == evf \/ callback.at = "pushed"

StrandInv ==
    (~broken /\ pc \in {"record", "wait"} /\ recSignal /\ mails # <<>>)
        => Announced

\* The thread does not fall asleep on a mail: RecAudio is signalled again by
\* Process while a mail is left, and by the callback after each push_back.
THEOREM NothingStranded == Spec => []NoStrandedMail
<1>1. Init => StrandInv
  BY DEF Init, StrandInv
<1>2. StateInv /\ StrandInv /\ [Next]_vars => StrandInv'
  <2> SUFFICES ASSUME StateInv, StrandInv, [Next]_vars
               PROVE  StrandInv'
    OBVIOUS
  <2> USE DEF StrandInv, Announced, recorder, mailbox, driver, ThreadGoes
  <2>1. CASE DriverStep
    <3>1. CASE Filled
      BY <3>1 DEF Filled, Idle
    <3>2. CASE PushBegin
      BY <3>2 DEF PushBegin
    <3>3. CASE PushEnd
      BY <3>3, CallbackTyped DEF PushEnd
    <3>4. CASE CallbackSignals
      BY <3>4 DEF CallbackSignals, Signal
    <3> QED
      BY <2>1, <3>1, <3>2, <3>3, <3>4 DEF DriverStep
  <2>2. CASE ThreadStep
    <3>1. CASE Started
      BY <3>1 DEF Started, StateInv
    <3>2. CASE NothingToRecord
      BY <3>2 DEF NothingToRecord
    <3>3. CASE LookAgain
      BY <3>3 DEF LookAgain, Resignal, Signal
    <3>4. CASE Record
      BY <3>4 DEF Record
    <3>5. CASE PostRead \/ PopEnd \/ GiveBack
      BY <3>5 DEF PostRead, PopEnd, GiveBack
    <3>6. CASE WakeBySignal \/ WakeByTimeOut \/ PollOnce \/ ClearFlags
               \/ ProcessEvent \/ Withdraw \/ PopBegin
      BY <3>6 DEF WakeBySignal, WakeByTimeOut, PollOnce, ClearFlags,
                  ProcessEvent, Withdraw, PopBegin
    <3> QED
      BY <2>2, <3>1, <3>2, <3>3, <3>4, <3>5, <3>6 DEF ThreadStep, Run
  <2>3. CASE OtherSignal
    BY <2>3 DEF OtherSignal, Signal
  <2>4. CASE UNCHANGED vars
    BY <2>4 DEF vars
  <2> QED
    BY <2>1, <2>2, <2>3, <2>4 DEF Next, Undefined
<1>3. StrandInv => NoStrandedMail
  BY DEF StrandInv, NoStrandedMail, Announced
<1> QED
  BY <1>1, <1>2, <1>3, InitState, NextKeepsState, PTL DEF Spec
--------------------------------------------------------------------------------
(***************************************************************************)
(* Every buffer is somewhere on its way round, and behind the one that it  *)
(* was behind at first.                                                    *)
(***************************************************************************)
\* The i-th buffer of the circuit when it has been turned by k.
At(k, i) == IF k + i <= N THEN k + i ELSE k + i - N

Turned(k) == \A i \in 1..started : Circuit[i] = At(k, i)

RingInv ==
    ~broken =>
        /\ Len(Circuit) = started
        /\ \E k \in 0 .. N-1 : Turned(k) /\ (started < N => k = 0)

LEMMA CircuitTyped ==
    ASSUME StateInv
    PROVE  /\ InHand \in Seq(Buffers) /\ InCallback \in Seq(Buffers)
           /\ mails \in Seq(Buffers) /\ posted \in Seq(Buffers)
           /\ InHand \o mails \in Seq(Buffers)
           /\ (InHand \o mails) \o InCallback \in Seq(Buffers)
           /\ Circuit \in Seq(Buffers)
<1>1. InHand \in Seq(Buffers)
  BY DEF InHand, StateInv, TypeOK
<1>2. InCallback \in Seq(Buffers)
  BY DEF InCallback, StateInv, TypeOK, Idle
<1>3. mails \in Seq(Buffers) /\ posted \in Seq(Buffers)
  BY DEF StateInv, TypeOK
<1>4. InHand \o mails \in Seq(Buffers)
  BY <1>1, <1>3, ConcatProperties
<1>5. (InHand \o mails) \o InCallback \in Seq(Buffers)
  BY <1>2, <1>4, ConcatProperties
<1> QED
  BY <1>1, <1>2, <1>3, <1>4, <1>5, ConcatProperties DEF Circuit

\* A buffer that moves on from one place to the next leaves the circuit as it
\* was.
LEMMA MovesOn ==
    ASSUME NEW S, NEW x \in Seq(S), NEW s \in Seq(S), s # <<>>
    PROVE  (x \o <<>>) \o s = (x \o <<Head(s)>>) \o Tail(s)
<1>1. Head(s) \in S /\ Tail(s) \in Seq(S) /\ <<Head(s)>> \in Seq(S)
  BY HeadTailProperties
<1>2. s = <<Head(s)>> \o Tail(s)
  <2> DEFINE t == <<Head(s)>> \o Tail(s)
  <2>1. /\ t \in Seq(S) /\ Len(t) = Len(s)
        /\ \A i \in 1..Len(s) :
               t[i] = IF i <= 1 THEN Head(s) ELSE Tail(s)[i - 1]
    BY <1>1, HeadTailProperties, ConcatProperties
  <2>2. \A i \in 1..Len(s) : s[i] = t[i]
    BY <1>1, <2>1, HeadTailProperties
  <2> QED
    BY <2>1, <2>2, SeqEqual
<1>3. x \o <<>> = x
  BY ConcatEmptySeq
<1> QED
  BY <1>1, <1>2, <1>3, ConcatAssociative

LEMMA Joins ==
    ASSUME NEW S, NEW x \in Seq(S), NEW s \in Seq(S), NEW e \in S
    PROVE  (x \o s) \o <<e>> = (x \o Append(s, e)) \o <<>>
<1>1. <<e>> \in Seq(S) /\ Append(s, e) \in Seq(S)
  OBVIOUS
<1>2. Append(s, e) = s \o <<e>>
  BY AppendIsConcat
<1>3. x \o Append(s, e) \in Seq(S)
  BY <1>1, ConcatProperties
<1> QED
  BY <1>1, <1>2, <1>3, ConcatAssociative, ConcatEmptySeq

LEMMA CircuitKept ==
    ASSUME RingInv, ~broken, Circuit' = Circuit, started' = started
    PROVE  RingInv'
  BY DEF RingInv, Turned, At

LEMMA DriverKeepsRing ==
    ASSUME StateInv, RingInv, ~broken, DriverStep
    PROVE  RingInv'
<1> USE CircuitTyped DEF recorder, mailbox
<1>1. CASE Filled
  <2>1. InCallback = <<>> /\ InCallback' = <<Head(posted)>>
    BY <1>1 DEF Filled, InCallback, Idle
  <2>2. InHand' = InHand /\ mails' = mails /\ posted' = Tail(posted)
    BY <1>1 DEF Filled, InHand
  <2>3. Circuit' = Circuit
    BY <1>1, <2>1, <2>2, MovesOn DEF Filled, Circuit
  <2> QED
    BY <1>1, <2>3, CircuitKept DEF Filled
<1>2. CASE PushBegin
  <2>1. InCallback' = InCallback
    BY <1>2, CallbackTyped DEF PushBegin, InCallback
  <2>2. Circuit' = Circuit
    BY <1>2, <2>1 DEF PushBegin, InHand, Circuit
  <2> QED
    BY <1>2, <2>2, CircuitKept DEF PushBegin
<1>3. CASE PushEnd
  <2>1. callback.buffer \in Buffers
    BY <1>3 DEF PushEnd, StateInv
  <2>2. InCallback = <<callback.buffer>> /\ InCallback' = <<>>
    BY <1>3, CallbackTyped DEF PushEnd, InCallback
  <2>3. InHand' = InHand /\ posted' = posted
    BY <1>3 DEF PushEnd, InHand
  <2>4. mails' = Append(mails, callback.buffer)
    BY <1>3 DEF PushEnd, Push
  <2>5. Circuit' = Circuit
    BY <2>1, <2>2, <2>3, <2>4, Joins DEF Circuit
  <2> QED
    BY <1>3, <2>5, CircuitKept DEF PushEnd
<1>4. CASE CallbackSignals
  <2>1. InCallback' = InCallback
    BY <1>4 DEF CallbackSignals, InCallback, Idle
  <2>2. Circuit' = Circuit
    BY <1>4, <2>1 DEF CallbackSignals, InHand, Circuit
  <2> QED
    BY <1>4, <2>2, CircuitKept DEF CallbackSignals
<1> QED
  BY <1>1, <1>2, <1>3, <1>4 DEF DriverStep

\* OnStart adds the next buffer at the end.
LEMMA PostKeepsRing ==
    ASSUME StateInv, RingInv, ~broken, PostRead
    PROVE  RingInv'
<1>1. started \in 0..N /\ started < N /\ started' = started + 1
  BY DEF PostRead, StateInv, TypeOK
<1>2. started' \in Buffers
  BY <1>1, NAssumption DEF Buffers
<1> DEFINE rest == (InHand \o mails) \o InCallback
<1>3. rest \in Seq(Buffers) /\ posted \in Seq(Buffers)
  BY CircuitTyped
<1>4. Circuit = rest \o posted
  BY DEF Circuit
<1>5. InHand' = InHand /\ InCallback' = InCallback /\ mails' = mails
  BY DEF PostRead, InHand, InCallback
<1>6. Circuit' = rest \o Append(posted, started')
  BY <1>5 DEF PostRead, Circuit
<1>7. Circuit' = Append(Circuit, started')
  <2>1. Append(posted, started') = posted \o <<started'>>
    BY <1>2, <1>3, AppendIsConcat
  <2>2. <<started'>> \in Seq(Buffers) /\ Circuit \in Seq(Buffers)
    BY <1>2, CircuitTyped
  <2>3. Append(Circuit, started') = Circuit \o <<started'>>
    BY <1>2, <2>2, AppendIsConcat
  <2> HIDE DEF rest
  <2> QED
    BY <1>3, <1>4, <1>6, <2>1, <2>2, <2>3, ConcatAssociative
<1>8. Len(Circuit) = started /\ \A i \in 1..started : Circuit[i] = At(0, i)
  BY <1>1 DEF RingInv, Turned
<1>9. Len(Circuit') = started'
  BY <1>1, <1>2, <1>7, <1>8, CircuitTyped, AppendProperties
<1>10. \A i \in 1..started' : Circuit'[i] = At(0, i)
  <2>1. /\ \A i \in 1..started : Append(Circuit, started')[i] = Circuit[i]
        /\ Append(Circuit, started')[started + 1] = started'
    BY <1>2, <1>8, CircuitTyped, AppendProperties
  <2>2. At(0, started') = started'
    BY <1>1, NAssumption DEF At
  <2>3. ASSUME NEW i \in 1..started', i # started'
        PROVE  i \in 1..started
    BY <1>1, <2>3
  <2> QED
    BY <1>1, <1>7, <1>8, <2>1, <2>2, <2>3
<1>11. 0 \in 0 .. N-1
  BY NAssumption
<1> QED
  BY <1>9, <1>10, <1>11 DEF RingInv, Turned, At

\* GiveBack moves the first buffer to the end: the circuit turns by one.
LEMMA GiveBackKeepsRing ==
    ASSUME StateInv, RingInv, ~broken, GiveBack
    PROVE  RingInv'
<1> USE DEF GiveBack, ThreadGoes, mailbox, recorder
<1> DEFINE rest == (mails \o InCallback) \o posted
<1>1. /\ mails \in Seq(Buffers) /\ InCallback \in Seq(Buffers)
      /\ posted \in Seq(Buffers) /\ mails \o InCallback \in Seq(Buffers)
      /\ rest \in Seq(Buffers)
  BY CircuitTyped, ConcatProperties
<1>2. InHand' = <<>> /\ InCallback' = InCallback /\ mails' = mails
  BY DEF InHand, InCallback
<1>3. CASE hand = NoBuffer
  <2>1. InHand = <<>> /\ posted' = posted
    BY <1>3 DEF InHand, ReadAgain
  <2> QED
    BY <1>2, <2>1, CircuitKept DEF Circuit
<1>4. CASE hand # NoBuffer
  <2>1. hand \in Buffers /\ <<hand>> \in Seq(Buffers) /\ InHand = <<hand>>
    BY <1>4 DEF StateInv, TypeOK, InHand
  <2>2. posted' = posted \o <<hand>>
    BY <1>1, <1>4, <2>1, AppendIsConcat DEF ReadAgain
  <2>3. Circuit = <<hand>> \o rest
    <3>1. (<<hand>> \o mails) \o InCallback
              = <<hand>> \o (mails \o InCallback)
      BY <1>1, <2>1, ConcatAssociative
    <3> QED
      BY <1>1, <2>1, <3>1, ConcatAssociative DEF Circuit
  <2>4. Circuit' = rest \o <<hand>>
    <3>1. Circuit' = ((<<>> \o mails) \o InCallback) \o (posted \o <<hand>>)
      BY <1>2, <2>2 DEF Circuit
    <3>2. <<>> \o mails = mails
      BY <1>1, ConcatEmptySeq
    <3> QED
      BY <1>1, <2>1, <3>1, <3>2, ConcatAssociative
  <2> HIDE DEF rest
  <2>5. PICK k \in 0 .. N-1 : Turned(k) /\ (started < N => k = 0)
    BY DEF RingInv
  <2>6. started = N /\ started' = N /\ Len(Circuit) = N
    BY DEF StateInv, RingInv
  <2>7. Len(rest) = N - 1 /\ \A i \in 1 .. N-1 : rest[i] = Circuit[i + 1]
    <3>1. Len(<<hand>>) = 1 /\ Len(rest) \in Nat
      BY <1>1
    <3>2. Len(Circuit) = 1 + Len(rest)
      BY <1>1, <2>1, <2>3, <3>1, ConcatProperties
    <3>3. \A i \in 1 .. 1 + Len(rest) :
              Circuit[i] = IF i <= 1 THEN <<hand>>[i] ELSE rest[i - 1]
      BY <1>1, <2>1, <2>3, <3>1, ConcatProperties
    <3> QED
      BY <2>6, <3>1, <3>2, <3>3, NAssumption
  <2>8. Circuit[1] = hand
    <3>1. Len(<<hand>>) = 1 /\ Len(rest) \in Nat /\ <<hand>>[1] = hand
      BY <1>1
    <3> QED
      BY <1>1, <2>1, <2>3, <3>1, ConcatProperties
  <2>9. Len(Circuit') = N /\ Circuit'[N] = Circuit[1]
        /\ \A i \in 1 .. N-1 : Circuit'[i] = Circuit[i + 1]
    <3>1. Circuit' = Append(rest, hand)
      BY <1>1, <2>1, <2>4, AppendIsConcat
    <3>2. (N - 1) + 1 = N
      BY NAssumption
    <3> QED
      BY <1>1, <2>1, <2>7, <2>8, <3>1, <3>2, AppendProperties
  <2> DEFINE next == IF k = N - 1 THEN 0 ELSE k + 1
  <2>10. next \in 0 .. N-1
    BY NAssumption
  <2>11. \A i \in 1..N : Circuit'[i] = At(next, i)
    <3> SUFFICES ASSUME NEW i \in 1..N
                 PROVE  Circuit'[i] = At(next, i)
      OBVIOUS
    <3>1. CASE i = N
      <4>1. Circuit[1] = At(k, 1)
        BY <2>5, <2>6, NAssumption DEF Turned
      <4>2. At(k, 1) = At(next, N)
        BY NAssumption DEF At
      <4> QED
        BY <2>9, <3>1, <4>1, <4>2
    <3>2. CASE i # N
      <4>1. i \in 1 .. N-1 /\ i + 1 \in 1..N
        BY <3>2, NAssumption
      <4>2. Circuit[i + 1] = At(k, i + 1)
        BY <2>5, <2>6, <4>1 DEF Turned
      <4>3. At(k, i + 1) = At(next, i)
        BY <4>1, NAssumption DEF At
      <4> QED
        BY <2>9, <4>1, <4>2, <4>3
    <3> QED
      BY <3>1, <3>2
  <2> HIDE DEF next
  <2> QED
    BY <2>6, <2>9, <2>10, <2>11 DEF RingInv, Turned, At
<1> QED
  BY <1>3, <1>4

LEMMA ThreadKeepsRing ==
    ASSUME StateInv, RingInv, ~broken, ThreadStep
    PROVE  RingInv'
<1> USE CircuitTyped DEF ThreadGoes, recorder, mailbox, driver
<1>1. CASE PopEnd
  <2>1. InHand = <<>> /\ InCallback' = InCallback /\ posted' = posted
    BY <1>1 DEF PopEnd, InHand, InCallback
  <2>2. CASE mails = <<>>
    <3>1. InHand' = <<>> /\ mails' = mails
      BY <1>1, <2>2 DEF PopEnd, InHand
    <3> QED
      BY <1>1, <2>1, <3>1, CircuitKept DEF PopEnd, Circuit
  <2>3. CASE mails # <<>>
    <3>1. Head(mails) \in Buffers /\ mails' = Tail(mails)
      BY <1>1, <2>3 DEF PopEnd
    <3>2. InHand' = <<Head(mails)>>
      BY <1>1, <2>3, <3>1 DEF PopEnd, InHand, Buffers, NoBuffer
    <3>3. <<>> \o mails = <<Head(mails)>> \o Tail(mails)
      <4>1. <<>> \in Seq(Buffers) /\ <<Head(mails)>> \in Seq(Buffers)
        BY <3>1
      <4>2. (<<>> \o <<>>) \o mails = (<<>> \o <<Head(mails)>>) \o Tail(mails)
        BY <2>3, <4>1, MovesOn
      <4> QED
        BY <4>1, <4>2, ConcatEmptySeq
    <3>4. Circuit' = Circuit
      BY <2>1, <3>1, <3>2, <3>3 DEF Circuit
    <3> QED
      BY <1>1, <3>4, CircuitKept DEF PopEnd
  <2> QED
    BY <2>2, <2>3
<1>2. CASE ClearFlags
  <2>1. Circuit' = Circuit
    BY <1>2 DEF ClearFlags, Circuit, InHand, InCallback
  <2> QED
    BY <1>2, <2>1, CircuitKept DEF ClearFlags
<1>3. CASE Started \/ WakeBySignal \/ WakeByTimeOut \/ PollOnce
           \/ ProcessEvent \/ Withdraw \/ NothingToRecord \/ PopBegin
  <2>1. pc # "popped" /\ pc' # "popped" /\ UNCHANGED <<mails, driver, started>>
    BY <1>3 DEF Started, WakeBySignal, WakeByTimeOut, PollOnce, ProcessEvent,
                Withdraw, NothingToRecord, PopBegin
  <2>2. Circuit' = Circuit
    BY <2>1 DEF Circuit, InHand, InCallback
  <2> QED
    BY <2>1, <2>2, CircuitKept
<1>4. CASE LookAgain \/ Record
  <2>1. pc # "popped" /\ pc' # "popped" /\ UNCHANGED <<mails, driver, started>>
    BY <1>4 DEF LookAgain, Record
  <2>2. Circuit' = Circuit
    BY <2>1 DEF Circuit, InHand, InCallback
  <2> QED
    BY <2>1, <2>2, CircuitKept
<1> QED
  BY <1>1, <1>2, <1>3, <1>4, PostKeepsRing, GiveBackKeepsRing
  DEF ThreadStep, Run

LEMMA InitRing == Init => RingInv
<1> SUFFICES ASSUME Init
             PROVE  RingInv
  OBVIOUS
<1>1. InHand = <<>> /\ InCallback = <<>> /\ mails = <<>> /\ posted = <<>>
  BY DEF Init, InHand, InCallback, Idle
<1>2. <<>> \in Seq(Buffers)
  OBVIOUS
<1>3. Circuit = <<>>
  BY <1>1, <1>2, ConcatEmptySeq DEF Circuit
<1>4. started = 0 /\ 0 \in 0 .. N-1
  BY NAssumption DEF Init
<1> QED
  BY <1>3, <1>4 DEF RingInv, Turned

LEMMA NextKeepsRing == StateInv /\ RingInv /\ [Next]_vars => RingInv'
<1> SUFFICES ASSUME StateInv, RingInv, [Next]_vars
             PROVE  RingInv'
  OBVIOUS
<1>1. CASE ~broken /\ OtherSignal
  <2>1. Circuit' = Circuit /\ started' = started
    BY <1>1 DEF OtherSignal, Circuit, InHand, InCallback, driver
  <2> QED
    BY <1>1, <2>1, CircuitKept
<1>2. CASE UNCHANGED vars
  <2>1. Circuit' = Circuit /\ started' = started /\ broken' = broken
    BY <1>2 DEF vars, Circuit, InHand, InCallback, driver
  <2> QED
    BY <2>1, CircuitKept DEF RingInv
<1> QED
  BY <1>1, <1>2, DriverKeepsRing, ThreadKeepsRing DEF Next, Undefined

\* The buffers go round in the order in which OnStart posted them, for any
\* number of buffers and however the callback and the thread interleave.
THEOREM OrderKept == Spec => []InOrder
<1>1. StateInv /\ RingInv => InOrder
  <2> SUFFICES ASSUME StateInv, RingInv, ~broken
               PROVE  /\ Len(Circuit) = started
                      /\ \A i \in 1 .. (Len(Circuit) - 1) :
                             Circuit[i + 1] = (Circuit[i] % N) + 1
    BY DEF InOrder
  <2>1. Len(Circuit) = started
    BY DEF RingInv
  <2>2. PICK k \in 0 .. N-1 : Turned(k)
    BY DEF RingInv
  <2>3. ASSUME NEW i \in 1 .. (started - 1)
        PROVE  Circuit[i + 1] = (Circuit[i] % N) + 1
    <3>1. started \in 0..N /\ i \in 1..started /\ i + 1 \in 1..started
      BY DEF StateInv, TypeOK
    <3>2. Circuit[i] = At(k, i) /\ Circuit[i + 1] = At(k, i + 1)
      BY <2>2, <3>1 DEF Turned
    <3>3. CASE k + i = N
      <4>1. At(k, i) = N /\ At(k, i + 1) = 1
        BY <3>1, <3>3, NAssumption DEF At
      <4>2. N % N = 0
        BY NAssumption
      <4> QED
        BY <3>2, <4>1, <4>2
    <3>4. CASE k + i # N
      <4>1. At(k, i) \in 1 .. N-1 /\ At(k, i + 1) = At(k, i) + 1
        BY <3>1, <3>4, NAssumption DEF At
      <4>2. \A n \in 1 .. N-1 : n % N = n
        BY NAssumption
      <4> QED
        BY <3>2, <4>1, <4>2
    <3> QED
      BY <3>3, <3>4
  <2> QED
    BY <2>1, <2>3
<1> QED
  BY <1>1, InitState, NextKeepsState, InitRing, NextKeepsRing, PTL DEF Spec

--------------------------------------------------------------------------------
(***************************************************************************)
(* The buffer that Process has given back and not yet written waits behind *)
(* every other one the driver has.                                         *)
(***************************************************************************)
BehindInv ==
    ~broken =>
        /\ pc \notin {"popped", "look", "record"} => hand = NoBuffer
        /\ (pc \in {"look", "record"} /\ hand # NoBuffer /\ posted # <<>>)
               => posted[Len(posted)] = hand

LEMMA NextKeepsBehind == StateInv /\ BehindInv /\ [Next]_vars => BehindInv'
<1> SUFFICES ASSUME StateInv, BehindInv, [Next]_vars
             PROVE  BehindInv'
  OBVIOUS
<1> USE DEF BehindInv, ThreadGoes, recorder, mailbox, driver
<1>1. posted \in Seq(Buffers)
  BY DEF StateInv, TypeOK
<1>2. CASE ~broken /\ Filled
  <2>1. /\ posted # <<>> /\ posted' = Tail(posted) /\ UNCHANGED <<pc, hand>>
    BY <1>2 DEF Filled
  <2>2. posted' # <<>> => posted'[Len(posted')] = posted[Len(posted)]
    <3>1. /\ Tail(posted) \in Seq(Buffers) /\ Len(Tail(posted)) = Len(posted) - 1
          /\ \A i \in 1 .. Len(Tail(posted)) : Tail(posted)[i] = posted[i + 1]
      BY <1>1, <2>1, HeadTailProperties
    <3>2. Tail(posted) # <<>>
              => Len(Tail(posted)) \in 1 .. Len(Tail(posted))
      BY <3>1
    <3> QED
      BY <1>1, <2>1, <3>1, <3>2
  <2> QED
    BY <1>2, <2>1, <2>2 DEF Filled
<1>3. CASE ~broken /\ (PushBegin \/ PushEnd \/ CallbackSignals \/ OtherSignal)
  BY <1>3 DEF PushBegin, PushEnd, CallbackSignals, OtherSignal
<1>4. CASE ~broken /\ GiveBack
  <2>1. hand # NoBuffer => hand \in Buffers /\ posted' = Append(posted, hand)
    BY <1>4 DEF GiveBack, ReadAgain, StateInv, TypeOK
  <2>2. hand # NoBuffer => posted'[Len(posted')] = hand
    BY <1>1, <2>1, AppendProperties
  <2> QED
    BY <1>4, <2>2 DEF GiveBack
<1>5. CASE ~broken /\ (PostRead \/ PopEnd)
  BY <1>5 DEF PostRead, PopEnd
<1>6. CASE ~broken /\ (Started \/ WakeBySignal \/ WakeByTimeOut \/ PollOnce
                       \/ ClearFlags \/ ProcessEvent \/ Withdraw
                       \/ NothingToRecord \/ PopBegin)
  BY <1>6 DEF Started, WakeBySignal, WakeByTimeOut, PollOnce, ClearFlags,
              ProcessEvent, Withdraw, NothingToRecord, PopBegin
<1>7. CASE ~broken /\ (LookAgain \/ Record)
  BY <1>7 DEF LookAgain, Record
<1>8. CASE UNCHANGED vars
  BY <1>8 DEF vars
<1> QED
  BY <1>2, <1>3, <1>4, <1>5, <1>6, <1>7, <1>8
  DEF Next, Undefined, ThreadStep, Run, DriverStep

\* No buffer is with the driver twice.
LEMMA PostedOnce ==
    ASSUME StateInv, RingInv, ~broken,
           NEW i \in 1..Len(posted), NEW j \in 1..Len(posted),
           posted[i] = posted[j]
    PROVE  i = j
<1> DEFINE rest == (InHand \o mails) \o InCallback
<1>1. rest \in Seq(Buffers) /\ posted \in Seq(Buffers) /\ Circuit = rest \o posted
  BY CircuitTyped DEF Circuit
<1> HIDE DEF rest
<1>2. PICK k \in 0 .. N-1 : Turned(k)
  BY DEF RingInv
<1>3. Len(rest) \in Nat /\ Len(posted) \in Nat
  BY <1>1
<1>4. Len(rest) + Len(posted) = started /\ started \in 0..N
  BY <1>1, ConcatProperties DEF RingInv, StateInv, TypeOK
<1>5. ASSUME NEW n \in 1..Len(posted)
      PROVE  /\ Len(rest) + n \in 1..started
             /\ posted[n] = At(k, Len(rest) + n)
  <2>1. Len(rest) + n \in 1..started /\ Len(rest) + n > Len(rest)
    BY <1>3, <1>4
  <2>2. (rest \o posted)[Len(rest) + n] = posted[(Len(rest) + n) - Len(rest)]
    BY <1>1, <1>3, <1>4, <2>1, ConcatProperties
  <2>3. (Len(rest) + n) - Len(rest) = n
    BY <1>3
  <2> QED
    BY <1>1, <1>2, <2>1, <2>2, <2>3 DEF Turned
<1>6. At(k, Len(rest) + i) = At(k, Len(rest) + j)
  BY <1>5
<1>7. Len(rest) + i \in 1..started /\ Len(rest) + j \in 1..started
  BY <1>5
<1> QED
  BY <1>3, <1>4, <1>6, <1>7, NAssumption DEF At

\* While a buffer is being written and the driver has another one, it is not
\* this one that the driver is filling.
THEOREM NotTorn == Spec => []WrittenUntorn
<1>1. Init => BehindInv
  BY DEF Init, BehindInv
<1>2. StateInv /\ RingInv /\ BehindInv => WrittenUntorn
  <2> SUFFICES ASSUME StateInv, RingInv, BehindInv, ~broken, pc = "record",
                      hand # NoBuffer, ToSet(posted) \ {hand} # {}
               PROVE  Head(posted) # hand /\ hand \in ToSet(posted)
    BY DEF WrittenUntorn
  <2>1. posted \in Seq(Buffers) /\ Len(posted) \in Nat
    BY DEF StateInv, TypeOK
  <2>2. PICK i \in 1..Len(posted) : posted[i] # hand
    BY <2>1 DEF ToSet
  <2>3. posted # <<>> /\ Len(posted) \in 1..Len(posted)
    BY <2>1, <2>2
  <2>4. posted[Len(posted)] = hand
    BY <2>3 DEF BehindInv
  <2>5. hand \in ToSet(posted)
    BY <2>1, <2>3, <2>4 DEF ToSet
  <2>6. Head(posted) = posted[1] /\ 1 \in 1..Len(posted)
    BY <2>1, <2>3
  <2>7. posted[1] # hand
    <3> SUFFICES ASSUME posted[1] = hand
                 PROVE  FALSE
      OBVIOUS
    <3>1. Len(posted) = 1
      BY <2>3, <2>4, <2>6, PostedOnce
    <3> QED
      BY <2>2, <3>1
  <2> QED
    BY <2>5, <2>6, <2>7
<1> QED
  BY <1>1, <1>2, InitState, NextKeepsState, InitRing, NextKeepsRing,
     NextKeepsBehind, PTL DEF Spec

================================================================================
