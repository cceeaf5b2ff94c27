------------------------------ MODULE ShellInput -------------------------------
(***************************************************************************)
(* The shell's standard input (PeachCam/PeachCam.cpp): Stdin, called by    *)
(* the windows of the test bench, puts characters into stdin_queue and     *)
(* signals shelThread; uart_read, called by ntshell for one character at a *)
(* time, takes them out.  The queue is guarded by the critical section,    *)
(* the waiting is not.  signal_wait and signal_clr of rtos::Thread are     *)
(* those of ThreadSignals; uart_read ignores what signal_wait returns.     *)
(***************************************************************************)
EXTENDS Naturals, Sequences

CONSTANTS
    Typists,        \* threads that call Stdin
    Chars,          \* the characters typed
    MaxBurst        \* bound: characters passed to one call of Stdin

VARIABLES
    stdin_queue,
    flag,           \* SHELL_STDIN in shelThread's _flags
    evf,            \* shelThread's event
    pc,             \* where shelThread is in uart_read
    typing          \* per typist, how far its call of Stdin is

inputVars == <<stdin_queue, flag, evf, pc, typing>>

InputTypeOK ==
    /\ stdin_queue \in Seq(Chars)
    /\ flag \in BOOLEAN
    /\ evf \in BOOLEAN
    /\ pc \in {"look", "wait", "reset", "clear", "withdraw"}
    /\ typing \in [Typists -> {"outside", "pushed", "ored"}]

InputInit ==
    /\ stdin_queue = <<>>
    /\ flag = FALSE
    /\ evf = FALSE
    /\ pc = "look"
    /\ typing = [t \in Typists |-> "outside"]

--------------------------------------------------------------------------------
\* Stdin: the burst is pushed inside the critical section ...
Queued == {stdin_queue[i] : i \in 1..Len(stdin_queue)}

\* A character is typed again only when it has been read, so that it can be
\* told from the others.
Bursts ==
    {burst \in UNION {[1..n -> Chars \ Queued] : n \in 1..MaxBurst} :
        \A i, j \in DOMAIN burst : burst[i] = burst[j] => i = j}

Push(t, burst) ==
    /\ typing[t] = "outside"
    /\ stdin_queue' = stdin_queue \o burst
    /\ typing' = [typing EXCEPT ![t] = "pushed"]
    /\ UNCHANGED <<flag, evf, pc>>

\* ... and signal_set follows outside of it.
OrFlag(t) ==
    /\ typing[t] = "pushed"
    /\ flag' = TRUE
    /\ typing' = [typing EXCEPT ![t] = "ored"]
    /\ UNCHANGED <<stdin_queue, evf, pc>>

SetEvent(t) ==
    /\ typing[t] = "ored"
    /\ evf' = TRUE
    /\ typing' = [typing EXCEPT ![t] = "outside"]
    /\ UNCHANGED <<stdin_queue, flag, pc>>

--------------------------------------------------------------------------------
ReadCharThenWait ==
    /\ pc = "look"
    /\ stdin_queue # <<>>
    /\ stdin_queue' = Tail(stdin_queue)
    /\ pc' = "wait"
    /\ UNCHANGED <<flag, evf, typing>>

\* uart_read, inside the critical section: a character is there, and ntshell
\* comes back for the next one ...
ReadChar ==
    /\ pc = "look"
    /\ stdin_queue # <<>>
    /\ stdin_queue' = Tail(stdin_queue)
    /\ UNCHANGED <<flag, evf, pc, typing>>

\* ... or the critical section is left to wait for one.
FindEmpty ==
    /\ pc = "look"
    /\ stdin_queue = <<>>
    /\ pc' = "wait"
    /\ UNCHANGED <<stdin_queue, flag, evf, typing>>

\* signal_wait(0), without a time-out: the auto-reset event is consumed, reset
\* once more, and all flags are cleared.
Awake ==
    /\ pc = "wait"
    /\ evf
    /\ evf' = FALSE
    /\ pc' = "reset"
    /\ UNCHANGED <<stdin_queue, flag, typing>>

ResetEvent ==
    /\ pc = "reset"
    /\ evf' = FALSE
    /\ pc' = "clear"
    /\ UNCHANGED <<stdin_queue, flag, typing>>

ClearFlags ==
    /\ pc = "clear"
    /\ flag' = FALSE
    /\ pc' = "withdraw"
    /\ UNCHANGED <<stdin_queue, evf, typing>>

SignalClrWaitsAgain ==
    /\ pc = "withdraw"
    /\ flag' = FALSE
    /\ pc' = "wait"
    /\ UNCHANGED <<stdin_queue, evf, typing>>

\* signal_clr(SHELL_STDIN); the loop looks at the queue again.
SignalClr ==
    /\ pc = "withdraw"
    /\ flag' = FALSE
    /\ pc' = "look"
    /\ UNCHANGED <<stdin_queue, evf, typing>>

UartRead ==
    \/ ReadChar \/ FindEmpty
    \/ Awake \/ ResetEvent \/ ClearFlags \/ SignalClr

InputNext ==
    \/ \E t \in Typists : \/ \E burst \in Bursts : Push(t, burst)
                          \/ OrFlag(t) \/ SetEvent(t)
    \/ UartRead

InputSpec == InputInit /\ [][InputNext]_inputVars

\* Both threads are scheduled; nobody is obliged to type.
Fairness ==
    /\ WF_inputVars(UartRead)
    /\ \A t \in Typists : WF_inputVars(OrFlag(t) \/ SetEvent(t))

FairSpec == InputSpec /\ Fairness

--------------------------------------------------------------------------------
\* The shell never waits for a signal that nobody will send while a character
\* is in the queue, though signal_wait throws away signals that arrive between
\* the wake-up and its end.
NoStrandedInput ==
    (pc = "wait" /\ stdin_queue # <<>>)
        => (evf \/ \E t \in Typists : typing[t] # "outside")

\* Every character typed is read.
AllRead == \A c \in Chars : (c \in Queued) ~> (c \notin Queued)
================================================================================
