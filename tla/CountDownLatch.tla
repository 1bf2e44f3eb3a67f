--------------------------- MODULE CountDownLatch ---------------------------
(***************************************************************************)
(* utils/CountDownLatch.cpp: threads wait() until others have called       *)
(* countDown() as often as the latch was told.                             *)
(***************************************************************************)
EXTENDS Naturals, FiniteSets

CONSTANTS Waiter, Counter

VARIABLES
  count,  \* count_
  pc      \* where the threads are

\* The latch is made for the threads that count down.
Init == count = Cardinality(Counter) /\ pc = [t \in Waiter \cup Counter |-> "idle"]

CallWait(w) ==
  /\ pc[w] = "idle"
  /\ pc' = [pc EXCEPT ![w] = "wait"] /\ UNCHANGED count

\* wait(): the loop around condition_.wait().
Sleep(w) ==
  /\ pc[w] = "wait" /\ count > 0
  /\ pc' = [pc EXCEPT ![w] = "sleeping"] /\ UNCHANGED count
Return(w) ==
  /\ pc[w] = "wait" /\ count = 0
  /\ pc' = [pc EXCEPT ![w] = "returned"] /\ UNCHANGED count
SpuriousWakeup(w) ==
  /\ pc[w] = "sleeping"
  /\ pc' = [pc EXCEPT ![w] = "wait"] /\ UNCHANGED count

\* countDown(): the last one wakes all who wait.
CountDown(c) ==
  /\ pc[c] = "idle" /\ count' = count - 1
  /\ pc' = [t \in DOMAIN pc |->
              IF t = c THEN "counted" ELSE IF count' = 0 /\ pc[t] = "sleeping" THEN "wait" ELSE pc[t]]

WaiterStep(w) == Sleep(w) \/ Return(w)

Next ==
  \/ \E w \in Waiter : CallWait(w) \/ WaiterStep(w) \/ SpuriousWakeup(w)
  \/ \E c \in Counter : CountDown(c)
-----------------------------------------------------------------------------
\* Nobody sleeps at an open latch, and nobody passes a closed one.
NoneLeftSleeping ==
  \A w \in Waiter : (pc[w] = "sleeping" => count > 0) /\ (pc[w] = "returned" => count = 0)
=============================================================================
