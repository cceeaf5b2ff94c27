------------------------------- MODULE SignalBox -------------------------------
(***************************************************************************)
(* What rtos::Thread and TaskThread::Main promise to the tasks of a        *)
(* thread: a box of signal bits.  Anybody may post a signal at any time;   *)
(* the owning thread sleeps, wakes, hands a set of posted signals to       *)
(* ProcessEvent and, when the handler is done, withdraws that set.  The    *)
(* box is lossy, but only while its owner is awake: posts of a signal made *)
(* between handing it over and withdrawing it are merged with it, and an   *)
(* awake owner may drop signals it has not handed over.                    *)
(***************************************************************************)
CONSTANT Signals        \* the bits of InterTaskSignals

VARIABLES pending,      \* signals posted and not yet withdrawn or dropped
          handed,       \* the set ProcessEvent is working on
          asleep        \* the owner is suspended in signal_wait

vars == <<pending, handed, asleep>>

TypeOK ==
    /\ pending \subseteq Signals
    /\ handed \subseteq Signals
    /\ asleep \in BOOLEAN

Init ==
    /\ pending = {}
    /\ handed = {}
    /\ asleep \in BOOLEAN

Post(s) ==
    /\ pending' = pending \cup {s}
    /\ UNCHANGED <<handed, asleep>>

Sleep ==
    /\ ~asleep
    /\ handed = {}
    /\ asleep' = TRUE
    /\ UNCHANGED <<pending, handed>>

Wake ==
    /\ asleep
    /\ asleep' = FALSE
    /\ UNCHANGED <<pending, handed>>

\* An awake owner loses signals it has not handed over, and may then hand
\* over some of those that are left.
DropAndHand(dropped, S) ==
    /\ ~asleep
    /\ handed = {}
    /\ S \subseteq pending \ dropped
    /\ pending' = pending \ dropped
    /\ handed' = S
    /\ UNCHANGED asleep

Withdraw ==
    /\ ~asleep
    /\ pending' = pending \ handed
    /\ handed' = {}
    /\ UNCHANGED asleep

Next ==
    \/ \E s \in Signals : Post(s)
    \/ Sleep
    \/ Wake
    \/ \E dropped, S \in SUBSET Signals : DropAndHand(dropped, S)
    \/ Withdraw

Spec == Init /\ [][Next]_vars
================================================================================
