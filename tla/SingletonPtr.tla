------------------------------ MODULE SingletonPtr -----------------------------
(***************************************************************************)
(* SingletonPtr<T>::get (PeachCam/platform/SingletonPtr.h) called by       *)
(* threads after Start has created singleton_mutex, with the rtos::Mutex   *)
(* of this build (PeachCam/rtos/Mutex.cpp) in its place.                   *)
(*                                                                         *)
(* The mutex counts the threads inside Acquire..Release.  Acquire waits    *)
(* only if its increment gives 0, which it never does as _count starts at  *)
(* 0: nobody is excluded.                                                  *)
(***************************************************************************)
EXTENDS Naturals

CONSTANT Threads        \* callers of get()

VARIABLES
    count,          \* Mutex::_count
    semaphore,      \* whether the mutex's semaphore, of maximum 1, is set
    ptr,            \* whether _ptr is set
    constructions,  \* history: how often new (_data) T() was begun
    pc              \* per thread, where it is in get()

vars == <<count, semaphore, ptr, constructions, pc>>

Init ==
    /\ count = 0
    /\ semaphore = FALSE
    /\ ptr = FALSE
    /\ constructions = 0
    /\ pc = [t \in Threads |-> "outside"]

Goes(t, from, to) ==
    /\ pc[t] = from
    /\ pc' = [pc EXCEPT ![t] = to]

\* The test before the lock
Test(t) ==
    /\ Goes(t, "outside", IF ptr THEN "outside" ELSE "acquire")
    /\ UNCHANGED <<count, semaphore, ptr, constructions>>

\* InterlockedIncrement(&_count) == 0
Acquire(t) ==
    /\ count' = count + 1
    /\ Goes(t, "acquire", IF count' = 0 THEN "wait" ELSE "inside")
    /\ UNCHANGED <<semaphore, ptr, constructions>>

Wait(t) ==
    /\ Goes(t, "wait", "inside")
    /\ semaphore
    /\ semaphore' = FALSE
    /\ UNCHANGED <<count, ptr, constructions>>

\* The test after the lock; the constructor runs if it fails.
TestAgain(t) ==
    /\ Goes(t, "inside", IF ptr THEN "release" ELSE "constructing")
    /\ constructions' = constructions + (IF ptr THEN 0 ELSE 1)
    /\ UNCHANGED <<count, semaphore, ptr>>

Constructed(t) ==
    /\ Goes(t, "constructing", "release")
    /\ ptr' = TRUE
    /\ UNCHANGED <<count, semaphore, constructions>>

\* InterlockedDecrement(&_count) == 0 sets the semaphore, which may be set
\* already.
Release(t) ==
    /\ Goes(t, "release", "outside")
    /\ count' = count - 1
    /\ semaphore' = (semaphore \/ count' = 0)
    /\ UNCHANGED <<ptr, constructions>>

Next ==
    \E t \in Threads :
        \/ Test(t) \/ Acquire(t) \/ Wait(t)
        \/ TestAgain(t) \/ Constructed(t) \/ Release(t)

Spec == Init /\ [][Next]_vars

\* "Synchronization level: Thread safe" (SingletonPtr.h): the object is
\* constructed at most once, however many threads ask for it.
ConstructedOnce == constructions <= 1
================================================================================
