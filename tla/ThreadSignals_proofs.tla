------------------------- MODULE ThreadSignals_proofs -------------------------
(***************************************************************************)
(* Machine-checked proofs about ThreadSignals, for any sets of signals and *)
(* callers and any kinds of time-out.                                      *)
(***************************************************************************)
EXTENDS ThreadSignals, TLAPS

\* The shared word, the event and the owner's locals stay well-typed, and the
\* owner is past a successful wait only with status osEventSignal: the
\* handler never runs on a time-out.
THEOREM TypeCorrect == Spec => []TypeOK
<1>1. Init => TypeOK
  BY DEF Init, TypeOK, Callers
<1>2. TypeOK /\ [Next]_vars => TypeOK'
  <2> SUFFICES ASSUME TypeOK, [Next]_vars PROVE TypeOK'
    OBVIOUS
  <2> USE DEF TypeOK
  <2>1. ASSUME NEW c \in Callers, NEW s \in Signals, OrFlags(c, s) PROVE TypeOK'
    BY <2>1 DEF OrFlags
  <2>2. ASSUME NEW c \in Callers, SetEvent(c) PROVE TypeOK'
    BY <2>2 DEF SetEvent
  <2>3. CASE ReturnAtOnce
    BY <2>3 DEF ReturnAtOnce, OwnerAt
  <2>4. CASE Block
    BY <2>4 DEF Block, OwnerAt
  <2>5. CASE Awake
    BY <2>5 DEF Awake, OwnerAt
  <2>6. CASE TimeOut
    BY <2>6 DEF TimeOut, OwnerAt
  <2>7. CASE Fail
    BY <2>7 DEF Fail, OwnerAt
  <2>8. CASE ResetEvent
    BY <2>8 DEF ResetEvent, OwnerAt
  <2>9. CASE Snapshot
    BY <2>9 DEF Snapshot, OwnerAt
  <2>10. CASE ClearFlags
    BY <2>10 DEF ClearFlags, OwnerAt, Without
  <2>11. CASE Handled
    BY <2>11 DEF Handled, OwnerAt
  <2>12. CASE SignalClr
    BY <2>12 DEF SignalClr, OwnerAt, Without
  <2>13. CASE Processed
    BY <2>13 DEF Processed, OwnerAt
  <2>14. CASE UNCHANGED vars
    BY <2>14 DEF vars
  <2>15. QED
    BY <2>1, <2>2, <2>3, <2>4, <2>5, <2>6, <2>7, <2>8, <2>9, <2>10, <2>11,
       <2>12, <2>13, <2>14 DEF Next, OwnerStep
<1>3. QED
  BY <1>1, <1>2, PTL DEF Spec

--------------------------------------------------------------------------------
\* No lost wake-up, for any number of callers: NoStuckSignal is inductive
\* relative to TypeOK.  The steps that matter are SetEvent, which makes the
\* announcement it withdraws, and ClearFlags, which leaves nothing to announce
\* although the event was consumed since.
THEOREM NoLostWakeUp == Spec => []NoStuckSignal
<1>1. Init => NoStuckSignal
  BY DEF Init, NoStuckSignal
<1>2. TypeOK /\ NoStuckSignal /\ [Next]_vars => NoStuckSignal'
  <2> SUFFICES ASSUME TypeOK, NoStuckSignal, [Next]_vars PROVE NoStuckSignal'
    OBVIOUS
  <2> USE DEF TypeOK, NoStuckSignal
  <2>1. ASSUME NEW c \in Callers, NEW s \in Signals, OrFlags(c, s)
        PROVE  NoStuckSignal'
    <3>1. calls'[c] = "ored"
      BY <2>1 DEF OrFlags
    <3>2. QED
      BY <3>1
  <2>2. ASSUME NEW c \in Callers, SetEvent(c) PROVE NoStuckSignal'
    BY <2>2 DEF SetEvent
  <2>3. CASE ReturnAtOnce
    BY <2>3 DEF ReturnAtOnce, OwnerAt
  <2>4. CASE Block
    BY <2>4 DEF Block, OwnerAt
  <2>5. CASE Awake
    BY <2>5 DEF Awake, OwnerAt
  <2>6. CASE TimeOut
    BY <2>6 DEF TimeOut, OwnerAt
  <2>7. CASE Fail
    BY <2>7 DEF Fail, OwnerAt
  <2>8. CASE ResetEvent
    BY <2>8 DEF ResetEvent, OwnerAt
  <2>9. CASE Snapshot
    BY <2>9 DEF Snapshot, OwnerAt
  <2>10. CASE ClearFlags
    <3>1. flags' = {}
      BY <2>10 DEF ClearFlags, Without
    <3>2. QED
      BY <3>1
  <2>11. CASE Handled
    BY <2>11 DEF Handled, OwnerAt
  <2>12. CASE SignalClr
    <3>1. flags' # {} => flags # {}
      BY <2>12 DEF SignalClr, Without
    <3>2. QED
      BY <2>12, <3>1 DEF SignalClr, OwnerAt
  <2>13. CASE Processed
    BY <2>13 DEF Processed, OwnerAt
  <2>14. CASE UNCHANGED vars
    BY <2>14 DEF vars
  <2>15. QED
    BY <2>1, <2>2, <2>3, <2>4, <2>5, <2>6, <2>7, <2>8, <2>9, <2>10, <2>11,
       <2>12, <2>13, <2>14 DEF Next, OwnerStep
<1>3. QED
  BY <1>1, <1>2, TypeCorrect, PTL DEF Spec

--------------------------------------------------------------------------------
\* What the refinement needs besides typing: the signals signal_wait is about
\* to report are still in the word when it clears it, for only the owner
\* clears flags.
SnapshotCurrent ==
    (pc = "clear" /\ status = "signal") => value \subseteq flags

LEMMA SnapshotStaysCurrent == Spec => []SnapshotCurrent
<1>1. Init => SnapshotCurrent
  BY DEF Init, SnapshotCurrent
<1>2. TypeOK /\ SnapshotCurrent /\ [Next]_vars => SnapshotCurrent'
  <2> SUFFICES ASSUME TypeOK, SnapshotCurrent, [Next]_vars
               PROVE  SnapshotCurrent'
    OBVIOUS
  <2> USE DEF SnapshotCurrent
  <2>1. ASSUME NEW c \in Callers, NEW s \in Signals, OrFlags(c, s)
        PROVE  SnapshotCurrent'
    BY <2>1 DEF OrFlags
  <2>2. ASSUME NEW c \in Callers, SetEvent(c) PROVE SnapshotCurrent'
    BY <2>2 DEF SetEvent
  <2>3. CASE TimeOut
    BY <2>3 DEF TimeOut
  <2>4. CASE Snapshot
    BY <2>4 DEF Snapshot
  <2>5. CASE ReturnAtOnce \/ Block \/ Awake \/ Fail \/ ResetEvent
             \/ ClearFlags \/ Handled \/ SignalClr \/ Processed
    BY <2>5 DEF ReturnAtOnce, Block, Awake, Fail, ResetEvent, ClearFlags,
                Handled, SignalClr, Processed
  <2>6. CASE UNCHANGED vars
    BY <2>6 DEF vars
  <2>7. QED
    BY <2>1, <2>2, <2>3, <2>4, <2>5, <2>6 DEF Next, OwnerStep
<1>3. QED
  BY <1>1, <1>2, TypeCorrect, PTL DEF Spec

\* Thread.cpp together with TaskThread::Main implements the lossy SignalBox:
\* no handler is ever handed a signal nobody posted, and no signal is lost
\* while the thread sleeps.
THEOREM ImplementsBox == Spec => BoxSpec
<1>1. Init => Box!Init
  BY DEF Init, Box!Init, InHand
<1>2. TypeOK /\ SnapshotCurrent /\ [Next]_vars => [Box!Next]_(Box!vars)
  <2> SUFFICES ASSUME TypeOK, SnapshotCurrent, [Next]_vars
               PROVE  Box!Next \/ UNCHANGED Box!vars
    OBVIOUS
  <2> USE DEF TypeOK
  <2>1. ASSUME NEW c \in Callers, NEW s \in Signals, OrFlags(c, s)
        PROVE  Box!Next
    <3>1. Box!Post(s)
      BY <2>1 DEF OrFlags, Box!Post, InHand
    <3>2. QED
      BY <3>1 DEF Box!Next
  <2>2. ASSUME NEW c \in Callers, SetEvent(c) PROVE UNCHANGED Box!vars
    BY <2>2 DEF SetEvent, Box!vars, InHand
  <2>3. CASE Block
    <3>1. Box!Sleep
      BY <2>3 DEF Block, OwnerAt, Box!Sleep, InHand
    <3>2. QED
      BY <3>1 DEF Box!Next
  <2>4. CASE Awake \/ TimeOut
    <3>1. Box!Wake
      BY <2>4 DEF Awake, TimeOut, OwnerAt, Box!Wake, InHand
    <3>2. QED
      BY <3>1 DEF Box!Next
  <2>5. CASE ClearFlags /\ status = "signal"
    <3>1. value \subseteq flags
      BY <2>5 DEF SnapshotCurrent, ClearFlags, OwnerAt
    <3>2. /\ flags' = {}
          /\ value' = value
          /\ pc = "clear"
          /\ pc' = "handle"
      BY <2>5 DEF ClearFlags, OwnerAt, Without
    <3>3. Box!DropAndHand(flags \ value, value)
      BY <3>1, <3>2 DEF Box!DropAndHand, InHand
    <3>4. flags \ value \in SUBSET Signals /\ value \in SUBSET Signals
      OBVIOUS
    <3>5. QED
      BY <3>3, <3>4 DEF Box!Next
  <2>6. CASE ClearFlags /\ status # "signal"
    <3>1. /\ flags' = {}
          /\ pc = "clear"
          /\ pc' = "process"
      BY <2>6 DEF ClearFlags, OwnerAt, Without
    <3>2. Box!DropAndHand(flags, {})
      BY <3>1 DEF Box!DropAndHand, InHand
    <3>3. flags \in SUBSET Signals /\ {} \in SUBSET Signals
      OBVIOUS
    <3>4. QED
      BY <3>2, <3>3 DEF Box!Next
  <2>7. CASE SignalClr
    <3>1. Box!Withdraw
      BY <2>7 DEF SignalClr, OwnerAt, Without, Box!Withdraw, InHand
    <3>2. QED
      BY <3>1 DEF Box!Next
  <2>8. CASE Fail \/ ReturnAtOnce \/ ResetEvent \/ Snapshot \/ Handled
             \/ Processed
    BY <2>8 DEF Fail, ReturnAtOnce, ResetEvent, Snapshot, Handled, Processed,
                OwnerAt, Box!vars, InHand
  <2>9. CASE UNCHANGED vars
    BY <2>9 DEF vars, Box!vars, InHand
  <2>10. QED
    BY <2>1, <2>2, <2>3, <2>4, <2>5, <2>6, <2>7, <2>8, <2>9
       DEF Next, OwnerStep
<1>3. QED
  BY <1>1, <1>2, TypeCorrect, SnapshotStaysCurrent, PTL
     DEF Spec, BoxSpec, Box!Spec

--------------------------------------------------------------------------------
\* For any callers: a signal set while the thread is blocked without a time-out,
\* or before it has looked, is not diverted on its way to ProcessEvent.  That it
\* gets there is a matter of fairness.
THEOREM NotDiverted == Spec => KeptUntilHandled
<1>1. ASSUME TypeOK, Next, NEW s \in Signals, Bound(s),
             pc # "handle", pc' # "ended"
      PROVE  Bound(s)'
  <2> USE <1>1 DEF Bound
  <2>1. ASSUME NEW c \in Callers, NEW r \in Signals, OrFlags(c, r)
        PROVE  Bound(s)'
    BY <2>1 DEF OrFlags
  <2>2. ASSUME NEW c \in Callers, SetEvent(c) PROVE Bound(s)'
    BY <2>2 DEF SetEvent
  <2>3. CASE Awake
    BY <2>3 DEF Awake, OwnerAt
  <2>4. CASE TimeOut
    BY <2>4 DEF TimeOut, OwnerAt
  <2>5. CASE Fail
    BY <2>5 DEF Fail
  <2>6. CASE ResetEvent
    BY <2>6 DEF ResetEvent, OwnerAt
  <2>7. CASE Snapshot
    BY <2>7 DEF Snapshot, OwnerAt, TypeOK
  <2>8. CASE ClearFlags
    <3>1. pc = "clear" /\ status = "signal" /\ s \in value
      BY <2>8 DEF ClearFlags, OwnerAt
    <3>2. pc' = "handle" /\ value' = value
      BY <2>8, <3>1 DEF ClearFlags
    <3>3. QED
      BY <3>1, <3>2
  <2>9. CASE ReturnAtOnce \/ Block \/ Handled \/ SignalClr \/ Processed
    BY <2>9 DEF ReturnAtOnce, Block, Handled, SignalClr, Processed, OwnerAt
  <2>10. QED
    BY <2>1, <2>2, <2>3, <2>4, <2>5, <2>6, <2>7, <2>8, <2>9 DEF Next, OwnerStep
<1>2. TypeOK /\ [Next]_vars =>
          [\A s \in Signals :
               Bound(s) => Bound(s)' \/ pc = "handle" \/ pc' = "ended"]_vars
  BY <1>1
<1>3. QED
  BY <1>2, TypeCorrect, PTL DEF Spec, KeptUntilHandled
================================================================================
