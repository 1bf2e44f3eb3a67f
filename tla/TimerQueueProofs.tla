-------------------------- MODULE TimerQueueProofs --------------------------
(***************************************************************************)
(* Proofs about TimerQueue for any number of addresses, threads, timers,   *)
(* delays and intervals.  The inductive invariant IInv joins the two sets, *)
(* the batch of expired timers and the functors still queued: each live    *)
(* timer is in exactly one of the three places.                            *)
(***************************************************************************)
EXTENDS TimerQueue, TLAPS

\* Live timers have distinct sequence numbers, all handed out by numCreated.
SequenceInv ==
  /\ \A p \in allocated : heap[p].seq \in 1..numCreated
  /\ \A p, q \in allocated : heap[p].seq = heap[q].seq => p = q

\* A timer whose addTimerInLoop is still queued is alive, is queued once and
\* is in none of the sets of the loop thread.
PendingInv ==
  /\ \A i \in 1..Len(pending) : pending[i].op = "add" =>
       LET p == pending[i].ptr IN
         /\ p \in allocated
         /\ \A entry \in timers : entry[2] # p
         /\ \A entry \in expired : entry[2] # p
  /\ \A i, j \in 1..Len(pending) :
       pending[i].op = "add" /\ pending[j].op = "add" /\ pending[i].ptr = pending[j].ptr => i = j

Consistent == SetsAgree /\ ExpiredAlive /\ SequenceInv /\ PendingInv

\* What CancelIsFinal needs besides: cancelled sequence numbers were handed
\* out, a queued add is not cancelled yet, and a cancelled expired timer is in
\* cancelingTimers_, where reset() will find it.
CancelInv ==
  /\ CancelIsFinal
  /\ cancelled \subseteq 0..numCreated
  /\ \A i \in 1..Len(pending) : pending[i].op = "add" => heap[pending[i].ptr].seq \notin cancelled
  /\ \A entry \in expired :
       heap[entry[2]].seq \in cancelled => <<entry[2], heap[entry[2]].seq>> \in cancelingTimers

IInv == TypeOK /\ Consistent
-----------------------------------------------------------------------------
(* TypeOK in groups, one for each kind of value. *)
HeapType ==
  /\ allocated \subseteq Ptr
  /\ heap \in [Ptr -> Timer]
  /\ numCreated \in Sequence
  /\ cancelled \subseteq Sequence
SetType ==
  /\ timers \subseteq Entry /\ expired \subseteq Entry /\ torun \subseteq expired
  /\ activeTimers \subseteq TimerId /\ cancelingTimers \subseteq TimerId
  /\ issued \subseteq TimerId /\ named \subseteq TimerId
ClockType ==
  /\ now \in Int /\ timerfd \in Nat \cup {Disarmed}
  /\ clock \in 1..MaxTime /\ adjusted \in 0..MaxAdjust
QueueType ==
  /\ pending \in Seq(Functor)
  /\ returning \in [Thread -> TimerId \cup {None}]

\* TypeOK in three groups of variables.
LEMMA TypeGroups ==
  TypeOK <=> HeapType /\ SetType /\ ClockType /\ QueueType /\ callingExpiredTimers \in BOOLEAN
BY Zenon DEF TypeOK, HeapType, SetType, ClockType, QueueType

\* The same for the next state.
LEMMA TypeGroupsNext ==
  ASSUME HeapType', SetType', ClockType', QueueType', (callingExpiredTimers \in BOOLEAN)'
  PROVE  TypeOK'
BY Zenon DEF TypeOK, HeapType, SetType, ClockType, QueueType

\* What is left at a freed address has the type of a timer.
LEMMA FreedIsTimer == Freed \in Timer
BY ConstantsAssumption DEF Freed, Timer, Sequence

\* The initial states satisfy the invariants.
LEMMA InitIInv == Init => IInv /\ CancelInv
<1>. SUFFICES ASSUME Init PROVE IInv /\ CancelInv
  BY Zenon
<1>1. HeapType
  BY FreedIsTimer, ConstantsAssumption DEF Init, HeapType, Sequence
<1>2. SetType /\ QueueType
  BY DEF Init, SetType, QueueType
<1>3. ClockType
  BY ConstantsAssumption DEF Init, ClockType
<1>4. callingExpiredTimers \in BOOLEAN
  BY Zenon DEF Init
<1>5. TypeOK
  BY <1>1, <1>2, <1>3, <1>4, TypeGroups, Zenon
<1>6. Consistent /\ CancelInv
  BY DEF Init, Consistent, SetsAgree, ExpiredAlive, SequenceInv, PendingInv, CancelInv, CancelIsFinal
<1>. QED
  BY <1>5, <1>6, Zenon DEF IInv

\* What the pieces shared by several actions give.
LEMMA NewType ==
  ASSUME TypeOK, NEW p \in Ptr, NEW d \in Delays, NEW i \in Intervals, New(p, clock + d, i)
  PROVE  /\ allocated' \subseteq Ptr
         /\ heap' \in [Ptr -> Timer]
         /\ numCreated' \in Sequence
         /\ <<p, numCreated + 1>> \in TimerId
         /\ <<clock + d, p>> \in Entry
<1>1. clock + d \in Int /\ i \in Nat /\ numCreated + 1 \in Sequence
  BY ConstantsAssumption DEF TypeOK, New, Sequence
<1>2. [seq |-> numCreated + 1, expiration |-> clock + d, interval |-> i, lastRun |-> None] \in Timer
  BY <1>1, Zenon DEF Timer
<1>. QED
  BY <1>1, <1>2, Zenon DEF TypeOK, New, TimerId, Entry

\* Setting the timerfd keeps its type.
LEMMA ArmType ==
  ASSUME TypeOK, NEW when \in Int
  PROVE  ResetTimerfd(when) \in Nat
BY ConstantsAssumption DEF TypeOK, ResetTimerfd, Later

\* addTimerInLoop() keeps the types of the queue.
LEMMA AddType ==
  ASSUME TypeOK, NEW when \in Int, NEW p \in Ptr, NEW seq \in Sequence, AddTimerInLoop(p, seq, when)
  PROVE  /\ timers' \subseteq Entry
         /\ activeTimers' \subseteq TimerId
         /\ timerfd' \in Nat \cup {Disarmed}
<1>1. <<when, p>> \in Entry /\ <<p, seq>> \in TimerId
  BY Zenon DEF Entry, TimerId
<1>2. timerfd' \in {ResetTimerfd(when), timerfd}
  BY Zenon DEF AddTimerInLoop
<1>3. timerfd' \in Nat \cup {Disarmed}
  BY <1>2, ArmType, Zenon DEF TypeOK
<1>. QED
  BY <1>1, <1>3, Zenon DEF TypeOK, AddTimerInLoop

\* cancelInLoop() keeps the types of the queue.
LEMMA CancelType ==
  ASSUME TypeOK, NEW id \in TimerId, CancelInLoop(id)
  PROVE  /\ HeapType'
         /\ timers' \subseteq Entry /\ activeTimers' \subseteq TimerId
         /\ cancelingTimers' \subseteq TimerId
         /\ named' \subseteq TimerId
<1>1. id[1] \in Ptr /\ id[2] \in Sequence
  BY Zenon DEF TimerId
<1>2. CASE EraseActive(id)
  BY <1>1, <1>2, FreedIsTimer, Zenon DEF TypeOK, CancelInLoop, EraseActive, HeapType
<1>3. CASE RememberCanceling(id)
  BY <1>1, <1>3, Zenon DEF TypeOK, CancelInLoop, RememberCanceling, HeapType
<1>4. CASE CancelNothing(id)
  BY <1>4, Zenon DEF TypeOK, CancelInLoop, CancelNothing, HeapType
<1>. QED
  BY <1>2, <1>3, <1>4, Zenon DEF CancelInLoop

\* The first functor has the type of a functor, and so have the ones behind it.
LEMMA HeadType ==
  ASSUME TypeOK, pending # <<>>
  PROVE  /\ Head(pending) \in Functor
         /\ Tail(pending) \in Seq(Functor)
         /\ Head(pending).ptr \in Ptr
         /\ Head(pending).seq \in Sequence
         /\ <<Head(pending).ptr, Head(pending).seq>> \in TimerId
<1>1. Head(pending) \in Functor /\ Tail(pending) \in Seq(Functor)
  BY DEF TypeOK
<1>. QED
  BY <1>1, Zenon DEF Functor, TimerId

\* The timers of the heap have the type of a timer.
LEMMA TimerAtType ==
  ASSUME TypeOK, NEW p \in Ptr, NEW e \in Int, NEW r \in Int \cup {None}
  PROVE  /\ TimerAt(p, e, r) \in Timer
         /\ heap[p].seq \in Sequence /\ heap[p].expiration \in Int
         /\ heap[p].interval \in Nat /\ heap[p].lastRun \in Int \cup {None}
<1>1. heap[p] \in Timer
  BY Zenon DEF TypeOK
<1>. QED
  BY <1>1, Zenon DEF Timer, TimerAt

\* Every step keeps the types.
LEMMA TypeStep ==
  ASSUME TypeOK, [Next]_vars
  PROVE  TypeOK'
<1>1. ASSUME NEW p \in Ptr, NEW d \in Delays, NEW i \in Intervals, AddTimerFromLoop(p, clock + d, i)
      PROVE  TypeOK'
  <2>1. HeapType' /\ <<p, numCreated + 1>> \in TimerId
    BY <1>1, NewType, Zenon DEF AddTimerFromLoop, HeapType, TypeOK
  <2>2. timers' \subseteq Entry /\ activeTimers' \subseteq TimerId /\ timerfd' \in Nat \cup {Disarmed}
    <3>1. clock + d \in Int /\ numCreated + 1 \in Sequence
      BY <1>1, ConstantsAssumption DEF AddTimerFromLoop, New, TypeOK, Sequence
    <3>. QED
      BY <1>1, <3>1, AddType, Zenon DEF AddTimerFromLoop
  <2>3. SetType' /\ ClockType' /\ QueueType'
    BY <1>1, <2>1, <2>2, Zenon DEF AddTimerFromLoop, AddTimerInLoop, TypeOK, SetType, ClockType, QueueType
  <2>4. (callingExpiredTimers \in BOOLEAN)'
    BY <1>1, Zenon DEF AddTimerFromLoop, AddTimerInLoop, TypeOK
  <2>. QED
    BY <2>1, <2>3, <2>4, TypeGroupsNext, Zenon
<1>2. ASSUME NEW t \in Thread, NEW p \in Ptr, NEW d \in Delays, NEW i \in Intervals,
             AddTimerFromThread(t, p, clock + d, i)
      PROVE  TypeOK'
  <2>1. HeapType' /\ <<p, numCreated + 1>> \in TimerId
    BY <1>2, NewType, Zenon DEF AddTimerFromThread, HeapType, TypeOK
  <2>2. [op |-> "add", ptr |-> p, seq |-> numCreated + 1] \in Functor
    BY <2>1, Zenon DEF TimerId, Functor
  <2>3. QueueType'
    BY <1>2, <2>1, <2>2 DEF AddTimerFromThread, TypeOK, QueueType
  <2>4. SetType' /\ ClockType'
    BY <1>2, Zenon DEF AddTimerFromThread, queueVars, timeVars, TypeOK, SetType, ClockType
  <2>5. (callingExpiredTimers \in BOOLEAN)'
    BY <1>2, Zenon DEF AddTimerFromThread, queueVars, TypeOK
  <2>. QED
    BY <2>1, <2>3, <2>4, <2>5, TypeGroupsNext, Zenon
<1>3. ASSUME NEW t \in Thread, AddTimerReturn(t)
      PROVE  TypeOK'
  <2>1. returning[t] \in TimerId
    BY <1>3, Zenon DEF AddTimerReturn, TypeOK
  <2>2. returning[t][1] \in Ptr /\ returning[t][2] \in Sequence /\ 0 \in Sequence
    BY <2>1, ConstantsAssumption DEF TimerId, Sequence
  <2>3. heap[returning[t][1]].seq \in Sequence
    BY <2>2, Zenon DEF TypeOK, Timer
  <2>4. issued' \subseteq TimerId
    BY <1>3, <2>2, <2>3 DEF AddTimerReturn, TypeOK, TimerId
  <2>5. QueueType'
    BY <1>3, Zenon DEF AddTimerReturn, TypeOK, QueueType
  <2>6. HeapType' /\ SetType' /\ ClockType'
    BY <1>3, <2>4, Zenon DEF AddTimerReturn, queueVars, timeVars, TypeOK, HeapType, SetType, ClockType
  <2>7. (callingExpiredTimers \in BOOLEAN)'
    BY <1>3, Zenon DEF AddTimerReturn, queueVars, TypeOK
  <2>. QED
    BY <2>5, <2>6, <2>7, TypeGroupsNext, Zenon
<1>4. ASSUME NEW id \in issued, CancelFromLoop(id)
      PROVE  TypeOK'
  <2>1. id \in TimerId
    BY Zenon DEF TypeOK
  <2>2. HeapType' /\ SetType' /\ ClockType' /\ QueueType'
    BY <1>4, <2>1, CancelType, Zenon DEF CancelFromLoop, CancelInLoop, TypeOK, SetType, ClockType, QueueType
  <2>3. (callingExpiredTimers \in BOOLEAN)'
    BY <1>4, Zenon DEF CancelFromLoop, CancelInLoop, TypeOK
  <2>. QED
    BY <2>2, <2>3, TypeGroupsNext, Zenon
<1>5. ASSUME NEW id \in issued, CancelFromThread(id)
      PROVE  TypeOK'
  <2>1. [op |-> "cancel", ptr |-> id[1], seq |-> id[2]] \in Functor
    BY Zenon DEF TypeOK, TimerId, Functor
  <2>2. QueueType'
    BY <1>5, <2>1 DEF CancelFromThread, TypeOK, QueueType
  <2>3. HeapType' /\ SetType' /\ ClockType'
    BY <1>5, Zenon DEF CancelFromThread, queueVars, timeVars, TypeOK, HeapType, SetType, ClockType
  <2>4. (callingExpiredTimers \in BOOLEAN)'
    BY <1>5, Zenon DEF CancelFromThread, queueVars, TypeOK
  <2>. QED
    BY <2>2, <2>3, <2>4, TypeGroupsNext, Zenon
<1>6. CASE RunPendingAdd
  <2>1. Head(pending).ptr \in Ptr /\ Tail(pending) \in Seq(Functor)
    BY <1>6, HeadType, Zenon DEF RunPendingAdd
  <2>2. heap[Head(pending).ptr].seq \in Sequence /\ heap[Head(pending).ptr].expiration \in Int
    BY <2>1, Zenon DEF TypeOK, Timer
  <2>3. timers' \subseteq Entry /\ activeTimers' \subseteq TimerId /\ timerfd' \in Nat \cup {Disarmed}
    BY <1>6, <2>1, <2>2, AddType, Zenon DEF RunPendingAdd
  <2>4. HeapType' /\ SetType' /\ ClockType' /\ QueueType'
    BY <1>6, <2>1, <2>3, Zenon DEF RunPendingAdd, AddTimerInLoop, timeVars, TypeOK, HeapType, SetType, ClockType, QueueType
  <2>5. (callingExpiredTimers \in BOOLEAN)'
    BY <1>6, Zenon DEF RunPendingAdd, AddTimerInLoop, TypeOK
  <2>. QED
    BY <2>4, <2>5, TypeGroupsNext, Zenon
<1>7. CASE RunPendingCancel
  <2>1. <<Head(pending).ptr, Head(pending).seq>> \in TimerId /\ Tail(pending) \in Seq(Functor)
    BY <1>7, HeadType, Zenon DEF RunPendingCancel
  <2>2. HeapType' /\ SetType' /\ ClockType' /\ QueueType'
    BY <1>7, <2>1, CancelType, Zenon DEF RunPendingCancel, CancelInLoop, TypeOK, SetType, ClockType, QueueType
  <2>3. (callingExpiredTimers \in BOOLEAN)'
    BY <1>7, Zenon DEF RunPendingCancel, CancelInLoop, TypeOK
  <2>. QED
    BY <2>2, <2>3, TypeGroupsNext, Zenon
<1>8. CASE HandleRead
  <2>1. HeapType' /\ SetType' /\ QueueType'
    BY <1>8, Zenon DEF HandleRead, timeVars, TypeOK, HeapType, SetType, QueueType
  <2>2. ClockType'
    BY <1>8 DEF HandleRead, timeVars, TypeOK, ClockType
  <2>3. (callingExpiredTimers \in BOOLEAN)'
    BY <1>8, Zenon DEF HandleRead
  <2>. QED
    BY <2>1, <2>2, <2>3, TypeGroupsNext, Zenon
<1>9. ASSUME NEW entry \in torun, RunTimer(entry)
      PROVE  TypeOK'
  <2>1. entry[2] \in Ptr
    BY Zenon DEF TypeOK, Entry
  <2>2. TimerAt(entry[2], heap[entry[2]].expiration, now) \in Timer
    BY <2>1, TimerAtType, Zenon DEF TypeOK
  <2>3. HeapType' /\ SetType' /\ ClockType' /\ QueueType'
    BY <1>9, <2>2, Zenon DEF RunTimer, timeVars, TypeOK, HeapType, SetType, ClockType, QueueType
  <2>4. (callingExpiredTimers \in BOOLEAN)'
    BY <1>9, Zenon DEF RunTimer, TypeOK
  <2>. QED
    BY <2>3, <2>4, TypeGroupsNext, Zenon
<1>10. CASE Reset
  <2>1. ASSUME NEW p \in Restarted
        PROVE  p \in Ptr /\ heap[p].seq \in Sequence /\ NextExpiration(p) \in Int
    <3>1. p \in Ptr
      BY Zenon DEF Restarted, TypeOK, Entry
    <3>. QED
      BY <3>1 DEF NextExpiration, TypeOK, Timer
  <2>2. ASSUME NEW p \in Restarted
        PROVE  TimerAt(p, NextExpiration(p), heap[p].lastRun) \in Timer
    BY <2>1, TimerAtType, Zenon DEF TypeOK
  <2>3. heap' \in [Ptr -> Timer]
    BY <1>10, <2>2, FreedIsTimer, Zenon DEF Reset, TypeOK
  <2>4. timers' \subseteq Entry /\ activeTimers' \subseteq TimerId
    BY <1>10, <2>1 DEF Reset, RestartedEntries, TypeOK, Entry, TimerId
  <2>5. timerfd' \in Nat \cup {Disarmed}
    <3>1. ASSUME NEW entry \in timers' PROVE ResetTimerfd(entry[1]) \in Nat
      BY <2>4, ArmType, Zenon DEF Entry
    <3>. QED
      BY <1>10, <3>1, Zenon DEF Reset, Rearm, TypeOK
  <2>6. HeapType' /\ SetType' /\ ClockType' /\ QueueType'
    BY <1>10, <2>3, <2>4, <2>5, Zenon DEF Reset, timeVars, TypeOK, HeapType, SetType, ClockType, QueueType
  <2>7. (callingExpiredTimers \in BOOLEAN)'
    BY <1>10, Zenon DEF Reset
  <2>. QED
    BY <2>6, <2>7, TypeGroupsNext, Zenon
<1>11. CASE Tick
  <2>1. ClockType'
    BY <1>11, ConstantsAssumption DEF Tick, queueVars, TypeOK, ClockType, Disarmed
  <2>2. HeapType' /\ SetType' /\ QueueType'
    BY <1>11, Zenon DEF Tick, queueVars, TypeOK, HeapType, SetType, QueueType
  <2>3. (callingExpiredTimers \in BOOLEAN)'
    BY <1>11, Zenon DEF Tick, queueVars, TypeOK
  <2>. QED
    BY <2>1, <2>2, <2>3, TypeGroupsNext, Zenon
<1>12. ASSUME NEW c \in 1..MaxTime, AdjustClock(c)
       PROVE  TypeOK'
  <2>1. ClockType'
    BY <1>12, ConstantsAssumption DEF AdjustClock, queueVars, TypeOK, ClockType
  <2>2. HeapType' /\ SetType' /\ QueueType'
    BY <1>12, Zenon DEF AdjustClock, queueVars, TypeOK, HeapType, SetType, QueueType
  <2>3. (callingExpiredTimers \in BOOLEAN)'
    BY <1>12, Zenon DEF AdjustClock, queueVars, TypeOK
  <2>. QED
    BY <2>1, <2>2, <2>3, TypeGroupsNext, Zenon
<1>13. CASE UNCHANGED vars
  BY <1>13, Zenon DEF vars, TypeOK
<1>. QED
  BY <1>1, <1>2, <1>3, <1>4, <1>5, <1>6, <1>7, <1>8, <1>9, <1>10, <1>11, <1>12, <1>13, Zenon
  DEF Next, LoopStep, UserStep

\* Every reachable state of the timer queue is well typed.
THEOREM TypeCorrect == Spec => []TypeOK
<1>1. Init => TypeOK
  BY InitIInv, Zenon DEF IInv
<1>2. TypeOK /\ [Next]_vars => TypeOK'
  BY TypeStep, Zenon
<1>. QED
  BY <1>1, <1>2, PTL DEF Spec
-----------------------------------------------------------------------------
\* The functors behind the first one move up by one place.
LEMMA TailAt ==
  ASSUME TypeOK, pending # <<>>
  PROVE  /\ Head(pending) = pending[1] /\ 1 \in 1..Len(pending)
         /\ \A i \in 1..Len(Tail(pending)) :
              i + 1 \in 1..Len(pending) /\ i + 1 # 1 /\ Tail(pending)[i] = pending[i + 1]
BY DEF TypeOK

\* A functor that is queued comes after the others.
LEMMA AppendAt ==
  ASSUME TypeOK, NEW f \in Functor
  PROVE  \A i \in 1..Len(Append(pending, f)) :
           \/ i \in 1..Len(pending) /\ Append(pending, f)[i] = pending[i]
           \/ i = Len(pending) + 1 /\ Append(pending, f)[i] = f
BY DEF TypeOK

\* A new timer has a sequence number of its own and disturbs no other.
LEMMA NewSequence ==
  ASSUME IInv, NEW p \in Ptr, NEW when, NEW i, New(p, when, i)
  PROVE  /\ heap'[p].seq = numCreated + 1 /\ heap'[p].expiration = when
         /\ \A q \in allocated : q # p /\ heap'[q] = heap[q]
         /\ SequenceInv'
<1>1. heap'[p].seq = numCreated + 1 /\ heap'[p].expiration = when
  BY Zenon DEF IInv, TypeOK, New
<1>2. \A q \in allocated : q # p /\ heap'[q] = heap[q]
  BY Zenon DEF IInv, TypeOK, New
<1>3. \A q \in allocated : heap[q].seq \in 1..numCreated
  BY Zenon DEF IInv, Consistent, SequenceInv
<1>4. numCreated \in Nat /\ numCreated' = numCreated + 1 /\ allocated' = allocated \cup {p}
  BY DEF IInv, TypeOK, Sequence, New
<1>5. \A q \in allocated' : heap'[q].seq \in 1..numCreated'
  BY <1>1, <1>2, <1>3, <1>4
<1>6. \A q, r \in allocated' : heap'[q].seq = heap'[r].seq => q = r
  BY <1>1, <1>2, <1>3, <1>4 DEF IInv, Consistent, SequenceInv
<1>. QED
  BY <1>1, <1>2, <1>5, <1>6, Zenon DEF SequenceInv

\* Nothing the queue looks at changes.
LEMMA SameQueue ==
  ASSUME Consistent, UNCHANGED <<allocated, heap, numCreated, timers, activeTimers, expired, pending>>
  PROVE  Consistent'
BY DEF Consistent, SetsAgree, ExpiredAlive, SequenceInv, PendingInv

\* addTimer() on the loop thread keeps the queue consistent.
LEMMA AddFromLoopConsistent ==
  ASSUME IInv, NEW p \in Ptr, NEW d \in Delays, NEW i \in Intervals,
         AddTimerFromLoop(p, clock + d, i)
  PROVE  Consistent'
<1>. DEFINE when == clock + d
<1>1. /\ heap'[p].seq = numCreated + 1 /\ heap'[p].expiration = when
      /\ \A q \in allocated : q # p /\ heap'[q] = heap[q]
      /\ SequenceInv'
  BY NewSequence, Zenon DEF AddTimerFromLoop
<1>2. /\ timers' = timers \cup {<<when, p>>}
      /\ activeTimers' = activeTimers \cup {<<p, numCreated + 1>>}
      /\ allocated' = allocated \cup {p}
      /\ UNCHANGED <<expired, pending>>
  BY Zenon DEF AddTimerFromLoop, AddTimerInLoop, New
<1>. HIDE DEF when
<1>3. \A entry \in timers : entry[2] \in allocated
  BY Zenon DEF IInv, Consistent, SetsAgree
<1>4. \A id \in activeTimers : id[1] \in allocated
  BY Zenon DEF IInv, Consistent, SetsAgree
<1>5. SetsAgree'
  BY <1>1, <1>2, <1>3, <1>4 DEF IInv, Consistent, SetsAgree
<1>6. ExpiredAlive'
  BY <1>1, <1>2 DEF IInv, Consistent, ExpiredAlive
<1>7. PendingInv'
  BY <1>1, <1>2 DEF IInv, Consistent, PendingInv
<1>. QED
  BY <1>1, <1>5, <1>6, <1>7, Zenon DEF Consistent

\* addTimer() on another thread keeps the queue consistent: the new timer is only in the functor.
LEMMA AddFromThreadConsistent ==
  ASSUME IInv, NEW t \in Thread, NEW p \in Ptr, NEW d \in Delays, NEW i \in Intervals,
         AddTimerFromThread(t, p, clock + d, i)
  PROVE  Consistent'
<1>. DEFINE f == [op |-> "add", ptr |-> p, seq |-> numCreated + 1]
<1>1. /\ \A q \in allocated : q # p /\ heap'[q] = heap[q]
      /\ SequenceInv'
  BY NewSequence, Zenon DEF AddTimerFromThread
<1>2. /\ allocated' = allocated \cup {p}
      /\ pending' = Append(pending, f)
      /\ UNCHANGED <<timers, activeTimers, expired>>
  BY Zenon DEF AddTimerFromThread, New, queueVars
<1>3. f \in Functor /\ f.ptr = p
  BY NewType, Zenon DEF AddTimerFromThread, IInv, TimerId, Functor
<1>4. \A j \in 1..Len(pending') :
           \/ j \in 1..Len(pending) /\ pending'[j] = pending[j]
           \/ j = Len(pending) + 1 /\ pending'[j] = f
  BY <1>2, <1>3, AppendAt, Zenon DEF IInv
<1>. HIDE DEF f
<1>5. SetsAgree'
  BY <1>1, <1>2, Zenon DEF IInv, Consistent, SetsAgree
<1>6. ExpiredAlive'
  BY <1>1, <1>2, Zenon DEF IInv, Consistent, ExpiredAlive
<1>7. PendingInv'
  <2>1. \A entry \in timers \cup expired : entry[2] # p
    BY <1>1, Zenon DEF IInv, Consistent, SetsAgree, ExpiredAlive
  <2>. QED
    BY <1>1, <1>2, <1>3, <1>4, <2>1 DEF IInv, Consistent, PendingInv
<1>. QED
  BY <1>1, <1>5, <1>6, <1>7, Zenon DEF Consistent

\* Dropping the head of the queue keeps its adds distinct.
LEMMA TailDistinct ==
  ASSUME IInv, pending # <<>>, pending' = Tail(pending)
  PROVE  \A i, j \in 1..Len(pending') :
           pending'[i].op = "add" /\ pending'[j].op = "add" /\ pending'[i].ptr = pending'[j].ptr => i = j
<1>1. \A i \in 1..Len(pending') : i + 1 \in 1..Len(pending) /\ pending'[i] = pending[i + 1]
  BY TailAt, Zenon DEF IInv
<1>2. SUFFICES ASSUME NEW i \in 1..Len(pending'), NEW j \in 1..Len(pending'),
                      pending'[i].op = "add", pending'[j].op = "add", pending'[i].ptr = pending'[j].ptr
               PROVE  i = j
  BY Zenon
<1>3. i + 1 = j + 1
  BY <1>1, <1>2, Zenon DEF IInv, Consistent, PendingInv
<1>4. i \in Int /\ j \in Int
  OBVIOUS
<1>. QED
  BY <1>3, <1>4

\* cancelInLoop, with the queue of functors untouched or without its head.
LEMMA CancelConsistent ==
  ASSUME IInv, NEW id \in TimerId, CancelInLoop(id),
         \/ pending' = pending
         \/ pending # <<>> /\ pending' = Tail(pending)
  PROVE  Consistent'
<1>. DEFINE p == id[1]
<1>1. \A i \in 1..Len(pending') : \E j \in 1..Len(pending) : pending'[i] = pending[j]
  BY TailAt, Zenon DEF IInv
<1>2. \A i, j \in 1..Len(pending') : pending'[i].op = "add" /\ pending'[j].op = "add" /\ pending'[i].ptr = pending'[j].ptr => i = j
  <2>1. CASE pending' = pending
    BY <2>1, Zenon DEF IInv, Consistent, PendingInv
  <2>2. CASE pending # <<>> /\ pending' = Tail(pending)
    BY <2>2, TailDistinct, Zenon
  <2>. QED
    BY <2>1, <2>2, Zenon
<1>3. CASE EraseActive(id)
  <2>1. p \in Ptr /\ p \in allocated /\ id \in activeTimers /\ heap[p].seq = id[2]
        /\ <<heap[p].expiration, p>> \in timers
    BY <1>3, Zenon DEF EraseActive, IInv, TypeOK, TimerId, Consistent, SetsAgree
  <2>2. /\ timers' = timers \ {<<heap[p].expiration, p>>}
        /\ activeTimers' = activeTimers \ {id}
        /\ allocated' = allocated \ {p}
        /\ \A q \in allocated' : heap'[q] = heap[q]
        /\ expired' = expired /\ numCreated' = numCreated
    BY <1>3, Zenon DEF EraseActive, CancelInLoop, IInv, TypeOK
  <2>3. \A entry \in timers' : entry \in timers /\ entry[2] # p
    <3>1. ASSUME NEW entry \in timers, entry[2] = p PROVE entry = <<heap[p].expiration, p>>
      <4>1. entry = <<entry[1], entry[2]>>
        BY DEF IInv, TypeOK, Entry
      <4>2. entry[1] = heap[p].expiration
        BY <3>1, Zenon DEF IInv, Consistent, SetsAgree
      <4>. QED
        BY <3>1, <4>1, <4>2, Zenon
    <3>. QED
      BY <3>1, <2>2, Zenon
  <2>4. \A other \in activeTimers' : other \in activeTimers /\ other[1] # p
    <3>1. ASSUME NEW other \in activeTimers, other[1] = p PROVE other = id
      BY <3>1, <2>1 DEF IInv, TypeOK, TimerId, Consistent, SetsAgree
    <3>. QED
      BY <3>1, <2>2, Zenon
  <2>. HIDE DEF p
  <2>5. SetsAgree'
    <3>1. ASSUME NEW entry \in timers'
          PROVE  /\ entry[2] \in allocated'
                 /\ heap'[entry[2]].expiration = entry[1]
                 /\ <<entry[2], heap'[entry[2]].seq>> \in activeTimers'
      <4>1. entry[2] \in allocated'
        BY <2>2, <2>3, Zenon DEF IInv, Consistent, SetsAgree
      <4>2. <<entry[2], heap[entry[2]].seq>> # id
        BY <2>3 DEF p
      <4>. QED
        BY <2>2, <2>3, <4>1, <4>2, Zenon DEF IInv, Consistent, SetsAgree
    <3>2. ASSUME NEW other \in activeTimers'
          PROVE  /\ heap'[other[1]].seq = other[2]
                 /\ <<heap'[other[1]].expiration, other[1]>> \in timers'
      <4>1. other[1] \in allocated'
        BY <2>2, <2>4, Zenon DEF IInv, Consistent, SetsAgree
      <4>. QED
        BY <2>2, <2>4, <4>1, Zenon DEF IInv, Consistent, SetsAgree
    <3>. QED
      BY <3>1, <3>2, Zenon DEF SetsAgree
  <2>6. ExpiredAlive'
    BY <2>1, <2>2, Zenon DEF IInv, Consistent, ExpiredAlive
  <2>7. SequenceInv'
    BY <2>2 DEF IInv, Consistent, SequenceInv
  <2>8. PendingInv'
    BY <1>1, <1>2, <2>1, <2>2, SMTT(30) DEF IInv, Consistent, PendingInv
  <2>. QED
    BY <2>5, <2>6, <2>7, <2>8, Zenon DEF Consistent
<1>4. CASE RememberCanceling(id) \/ CancelNothing(id)
  <2>1. UNCHANGED <<allocated, heap, numCreated, timers, activeTimers, expired>>
    BY <1>4, Zenon DEF RememberCanceling, CancelNothing, CancelInLoop
  <2>2. PendingInv'
    BY <1>1, <1>2, <2>1, SMTT(30) DEF IInv, Consistent, PendingInv
  <2>. QED
    BY <2>1, <2>2 DEF IInv, Consistent, SetsAgree, ExpiredAlive, SequenceInv
<1>. QED
  BY <1>3, <1>4, Zenon DEF CancelInLoop

\* A queued addTimerInLoop() moves the timer from the functor into the queue.
LEMMA RunPendingAddConsistent ==
  ASSUME IInv, RunPendingAdd
  PROVE  Consistent'
<1>. DEFINE p == Head(pending).ptr
            seq == heap[p].seq
            when == heap[p].expiration
<1>1. /\ timers' = timers \cup {<<when, p>>}
      /\ activeTimers' = activeTimers \cup {<<p, seq>>}
      /\ UNCHANGED <<allocated, heap, numCreated, expired>>
  BY Zenon DEF RunPendingAdd, AddTimerInLoop
<1>2. /\ p \in allocated
      /\ \A entry \in timers \cup expired : entry[2] # p
      /\ \A i \in 1..Len(pending') : /\ i + 1 \in 1..Len(pending) /\ pending'[i] = pending[i + 1]
                                     /\ pending'[i].op = "add" => pending'[i].ptr # p
  <2>1. /\ Head(pending) = pending[1] /\ 1 \in 1..Len(pending)
        /\ \A i \in 1..Len(pending') :
             i + 1 \in 1..Len(pending) /\ i + 1 # 1 /\ pending'[i] = pending[i + 1]
    BY TailAt, Zenon DEF RunPendingAdd, IInv
  <2>. QED
    BY <2>1, Zenon DEF RunPendingAdd, IInv, Consistent, PendingInv
<1>3. SetsAgree'
  BY <1>1, <1>2 DEF IInv, Consistent, SetsAgree
<1>4. ExpiredAlive'
  BY <1>1, <1>2 DEF IInv, Consistent, ExpiredAlive
<1>5. SequenceInv'
  BY <1>1, Zenon DEF IInv, Consistent, SequenceInv
<1>6. PendingInv'
  <2>1. \A i, j \in 1..Len(pending') :
          pending'[i].op = "add" /\ pending'[j].op = "add" /\ pending'[i].ptr = pending'[j].ptr => i = j
    BY TailDistinct, Zenon DEF RunPendingAdd
  <2>. HIDE DEF p, seq, when
  <2>. QED
    BY <1>1, <1>2, <2>1 DEF IInv, Consistent, PendingInv
<1>. QED
  BY <1>3, <1>4, <1>5, <1>6, Zenon DEF Consistent

\* A queued cancel() changes nothing but the functors.
LEMMA CancelFromThreadConsistent ==
  ASSUME IInv, NEW id \in issued, CancelFromThread(id)
  PROVE  Consistent'
<1>. DEFINE f == [op |-> "cancel", ptr |-> id[1], seq |-> id[2]]
<1>1. f \in Functor /\ f.op # "add"
  BY Zenon DEF IInv, TypeOK, TimerId, Functor
<1>2. pending' = Append(pending, f) /\ UNCHANGED <<allocated, heap, numCreated, timers, activeTimers, expired>>
  BY Zenon DEF CancelFromThread, queueVars
<1>3. \A i \in 1..Len(pending') : pending'[i].op = "add" => i \in 1..Len(pending) /\ pending'[i] = pending[i]
  BY <1>1, <1>2, AppendAt, Zenon DEF IInv
<1>4. PendingInv'
  BY <1>2, <1>3 DEF IInv, Consistent, PendingInv
<1>. QED
  BY <1>2, <1>4 DEF IInv, Consistent, SetsAgree, ExpiredAlive, SequenceInv

\* handleRead() moves the expired timers from the queue into the batch.
LEMMA HandleReadConsistent ==
  ASSUME IInv, HandleRead
  PROVE  Consistent'
<1>1. /\ expired' = {entry \in timers : entry[1] <= clock}
      /\ timers' = timers \ expired'
      /\ activeTimers' = activeTimers \ {<<entry[2], heap[entry[2]].seq>> : entry \in expired'}
      /\ UNCHANGED <<allocated, heap, numCreated, pending>>
  BY Zenon DEF HandleRead
<1>2. \A e, f \in timers : e[2] = f[2] => e = f
  <2>1. SUFFICES ASSUME NEW e \in timers, NEW f \in timers, e[2] = f[2] PROVE e = f
    BY Zenon
  <2>2. heap[e[2]].expiration = e[1] /\ heap[f[2]].expiration = f[1]
    BY Zenon DEF IInv, Consistent, SetsAgree
  <2>3. e = <<e[1], e[2]>> /\ f = <<f[1], f[2]>>
    BY DEF IInv, TypeOK, Entry
  <2>. QED
    BY <2>1, <2>2, <2>3, Zenon
<1>3. SetsAgree'
  <2>1. ASSUME NEW entry \in timers'
        PROVE  /\ entry[2] \in allocated
               /\ heap[entry[2]].expiration = entry[1]
               /\ <<entry[2], heap[entry[2]].seq>> \in activeTimers'
    <3>1. \A other \in expired' : other[2] # entry[2]
      BY <1>1, <1>2, Zenon
    <3>. QED
      BY <1>1, <3>1, Zenon DEF IInv, Consistent, SetsAgree
  <2>2. ASSUME NEW id \in activeTimers'
        PROVE  /\ heap[id[1]].seq = id[2]
               /\ <<heap[id[1]].expiration, id[1]>> \in timers'
    <3>1. id = <<id[1], id[2]>> /\ id \in activeTimers
      BY <1>1 DEF IInv, TypeOK, TimerId
    <3>2. heap[id[1]].seq = id[2] /\ <<heap[id[1]].expiration, id[1]>> \in timers
      BY <3>1, Zenon DEF IInv, Consistent, SetsAgree
    <3>3. <<heap[id[1]].expiration, id[1]>> \notin expired'
      BY <1>1, <3>1, <3>2
    <3>. QED
      BY <1>1, <3>2, <3>3, Zenon
  <2>. QED
    BY <1>1, <2>1, <2>2, Zenon DEF SetsAgree
<1>4. ExpiredAlive'
  BY <1>1, <1>2, Zenon DEF IInv, Consistent, SetsAgree, ExpiredAlive
<1>5. SequenceInv' /\ PendingInv'
  BY <1>1, Zenon DEF IInv, Consistent, SequenceInv, PendingInv
<1>. QED
  BY <1>3, <1>4, <1>5, Zenon DEF Consistent

\* Running a callback leaves sequence number, expiration and interval alone.
LEMMA RunTimerFields ==
  ASSUME IInv, NEW entry \in torun, RunTimer(entry)
  PROVE  \A p \in Ptr : /\ heap'[p].seq = heap[p].seq
                        /\ heap'[p].expiration = heap[p].expiration
                        /\ heap'[p].interval = heap[p].interval
BY Zenon DEF IInv, TypeOK, RunTimer, TimerAt

\* A callback changes nothing the queue looks at.
LEMMA RunTimerConsistent ==
  ASSUME IInv, NEW entry \in torun, RunTimer(entry)
  PROVE  Consistent'
<1>1. UNCHANGED <<allocated, numCreated, timers, activeTimers, expired, pending>>
  BY Zenon DEF RunTimer
<1>2. \A p \in Ptr : heap'[p].seq = heap[p].seq /\ heap'[p].expiration = heap[p].expiration
  BY RunTimerFields, Zenon
<1>3. SetsAgree'
  BY <1>1, <1>2, Zenon DEF IInv, TypeOK, Entry, TimerId, Consistent, SetsAgree
<1>4. SequenceInv'
  BY <1>1, <1>2 DEF IInv, TypeOK, Consistent, SequenceInv
<1>5. ExpiredAlive' /\ PendingInv'
  BY <1>1, Zenon DEF IInv, Consistent, ExpiredAlive, PendingInv
<1>. QED
  BY <1>3, <1>4, <1>5, Zenon DEF Consistent

\* What reset() does to each timer.
LEMMA ResetFields ==
  ASSUME IInv, Reset
  PROVE  /\ \A p \in Restarted : /\ p \in allocated' /\ p \in allocated
                                 /\ heap'[p].seq = heap[p].seq
                                 /\ heap'[p].expiration = NextExpiration(p)
                                 /\ \E entry \in expired : entry[2] = p
         /\ \A p \in allocated : (\A entry \in expired : entry[2] # p) => p \in allocated' /\ heap'[p] = heap[p]
         /\ \A p \in allocated' : p \in allocated /\ heap'[p].seq = heap[p].seq
<1>1. /\ allocated' = allocated \ ({entry[2] : entry \in expired} \ Restarted)
      /\ heap' = [p \in Ptr |->
                IF p \in Restarted THEN TimerAt(p, NextExpiration(p), heap[p].lastRun)
                ELSE IF p \in {entry[2] : entry \in expired} THEN Freed
                ELSE heap[p]]
  BY Zenon DEF Reset
<1>2. \A p \in Restarted : p \in Ptr /\ p \in allocated /\ p \in {entry[2] : entry \in expired}
  BY Zenon DEF Restarted, IInv, TypeOK, Entry, Consistent, ExpiredAlive
<1>3. \A p \in allocated : p \in Ptr
  BY Zenon DEF IInv, TypeOK
<1>. QED
  BY <1>1, <1>2, <1>3, Zenon DEF TimerAt

\* reset() inserts or deletes the timers of the batch, and nothing else.
LEMMA ResetConsistent ==
  ASSUME IInv, Reset
  PROVE  Consistent'
<1>1. /\ timers' = timers \cup {<<NextExpiration(p), p>> : p \in Restarted}
      /\ activeTimers' = activeTimers \cup {<<p, heap[p].seq>> : p \in Restarted}
      /\ expired' = {} /\ UNCHANGED <<numCreated, pending>>
  BY Zenon DEF Reset, RestartedEntries
<1>2. \A entry \in timers : entry[2] \in allocated' /\ heap'[entry[2]] = heap[entry[2]]
  <2>1. \A entry \in timers : entry[2] \in allocated
    BY Zenon DEF IInv, Consistent, SetsAgree
  <2>2. \A entry \in timers, other \in expired : other[2] # entry[2]
    BY Zenon DEF IInv, Consistent, ExpiredAlive
  <2>. QED
    BY <2>1, <2>2, ResetFields, Zenon
<1>3. \A id \in activeTimers : id[1] \in allocated' /\ heap'[id[1]] = heap[id[1]]
  BY <1>2, Zenon DEF IInv, Consistent, SetsAgree
<1>4. SetsAgree'
  <2>1. ASSUME NEW entry \in timers'
        PROVE  /\ entry[2] \in allocated'
               /\ heap'[entry[2]].expiration = entry[1]
               /\ <<entry[2], heap'[entry[2]].seq>> \in activeTimers'
    BY <1>1, <1>2, ResetFields DEF IInv, Consistent, SetsAgree
  <2>2. ASSUME NEW id \in activeTimers'
        PROVE  /\ heap'[id[1]].seq = id[2]
               /\ <<heap'[id[1]].expiration, id[1]>> \in timers'
    BY <1>1, <1>3, ResetFields DEF IInv, Consistent, SetsAgree
  <2>. QED
    BY <2>1, <2>2, Zenon DEF SetsAgree
<1>5. ExpiredAlive'
  BY <1>1, Zenon DEF ExpiredAlive
<1>6. SequenceInv'
  BY <1>1, ResetFields DEF IInv, Consistent, SequenceInv
<1>7. PendingInv'
  <2>1. ASSUME NEW i \in 1..Len(pending), pending[i].op = "add"
        PROVE  /\ pending[i].ptr \in allocated'
               /\ \A entry \in timers' : entry[2] # pending[i].ptr
    <3>1. /\ pending[i].ptr \in allocated
          /\ \A entry \in timers : entry[2] # pending[i].ptr
          /\ \A entry \in expired : entry[2] # pending[i].ptr
      BY <2>1, Zenon DEF IInv, Consistent, PendingInv
    <3>2. pending[i].ptr \in allocated' /\ pending[i].ptr \notin Restarted
      BY <3>1, ResetFields, Zenon
    <3>. QED
      BY <1>1, <3>1, <3>2
  <2>. QED
    BY <1>1, <2>1, Zenon DEF IInv, Consistent, PendingInv
<1>. QED
  BY <1>4, <1>5, <1>6, <1>7, Zenon DEF Consistent

\* Every step keeps the types and the consistency.
LEMMA IInvStep ==
  ASSUME IInv, [Next]_vars
  PROVE  IInv'
<1>1. TypeOK'
  BY TypeStep, Zenon DEF IInv
<1>2. Consistent'
  <2>1. ASSUME NEW id \in issued, CancelFromLoop(id) PROVE Consistent'
    BY <2>1, CancelConsistent, Zenon DEF CancelFromLoop, IInv, TypeOK
  <2>2. CASE RunPendingCancel
    BY <2>2, CancelConsistent, HeadType, Zenon DEF RunPendingCancel, IInv
  <2>3. ASSUME NEW t \in Thread, AddTimerReturn(t) PROVE Consistent'
    BY <2>3, SameQueue, Zenon DEF AddTimerReturn, queueVars, IInv
  <2>4. CASE Tick
    BY <2>4, SameQueue, Zenon DEF Tick, queueVars, IInv
  <2>5. ASSUME NEW c \in 1..MaxTime, AdjustClock(c) PROVE Consistent'
    BY <2>5, SameQueue, Zenon DEF AdjustClock, queueVars, IInv
  <2>6. CASE UNCHANGED vars
    BY <2>6, SameQueue, Zenon DEF vars, IInv
  <2>. QED
    BY <2>1, <2>2, <2>3, <2>4, <2>5, <2>6, AddFromLoopConsistent, AddFromThreadConsistent, Zenon,
       CancelFromThreadConsistent, RunPendingAddConsistent, HandleReadConsistent,
       RunTimerConsistent, ResetConsistent
    DEF Next, LoopStep, UserStep
<1>. QED
  BY <1>1, <1>2, Zenon DEF IInv

\* The types and the consistency hold always.
LEMMA Invariance == Spec => []IInv
<1>1. Init => IInv
  BY InitIInv, Zenon
<1>2. IInv /\ [Next]_vars => IInv'
  BY IInvStep, Zenon
<1>. QED
  BY <1>1, <1>2, PTL DEF Spec

\* timers_ and activeTimers_ always agree, as the asserts of TimerQueue.cpp
\* say, for any number of timers, threads and queued functors.
THEOREM QueueAgrees == Spec => []SetsAgree
BY Invariance, PTL DEF IInv, Consistent

\* handleRead never uses a deleted timer.
THEOREM ExpiredStaysAlive == Spec => []ExpiredAlive
BY Invariance, PTL DEF IInv, Consistent
-----------------------------------------------------------------------------
(* CancelIsFinal *)

\* Where a live timer can be: at most one of queue, batch and functors.
LEMMA Apart ==
  ASSUME IInv
  PROVE  /\ \A id \in activeTimers : id[1] \in allocated /\ id[2] = heap[id[1]].seq
         /\ \A id \in activeTimers, entry \in expired : id[1] # entry[2]
         /\ \A id \in activeTimers, i \in 1..Len(pending) :
              pending[i].op = "add" => pending[i].ptr # id[1]
         /\ \A entry \in expired, i \in 1..Len(pending) :
              pending[i].op = "add" => pending[i].ptr # entry[2]
         /\ \A entry \in expired : entry[2] \in allocated
         /\ \A i \in 1..Len(pending) : pending[i].op = "add" => pending[i].ptr \in allocated
         /\ \A p, q \in allocated : heap[p].seq = heap[q].seq => p = q
         /\ \A p \in allocated : heap[p].seq \in 1..numCreated
<1>1. \A id \in activeTimers : /\ id[2] = heap[id[1]].seq
                               /\ \E e \in timers : e[2] = id[1]
  BY Zenon DEF IInv, Consistent, SetsAgree
<1>2. \A e \in timers : e[2] \in allocated
  BY Zenon DEF IInv, Consistent, SetsAgree
<1>3. \A e \in timers, entry \in expired : e[2] # entry[2]
  BY Zenon DEF IInv, Consistent, ExpiredAlive
<1>4. \A e \in timers, i \in 1..Len(pending) : pending[i].op = "add" => pending[i].ptr # e[2]
  BY Zenon DEF IInv, Consistent, PendingInv
<1>. QED
  BY <1>1, <1>2, <1>3, <1>4 DEF IInv, Consistent, ExpiredAlive, PendingInv, SequenceInv

\* The head of the queue of functors is dropped, or nothing is.
LEMMA PendingShrinks ==
  ASSUME IInv, \/ pending' = pending
               \/ pending # <<>> /\ pending' = Tail(pending)
  PROVE  \A i \in 1..Len(pending') : \E j \in 1..Len(pending) : pending'[i] = pending[j]
BY TailAt, Zenon DEF IInv

\* cancelInLoop() erases the timer or records that reset() has to.
LEMMA CancelInLoopFinal ==
  ASSUME IInv, CancelInv, NEW id \in TimerId, CancelInLoop(id),
         \/ pending' = pending
         \/ pending # <<>> /\ pending' = Tail(pending)
  PROVE  CancelInv'
<1>1. expired' = expired /\ numCreated' = numCreated
  BY Zenon DEF CancelInLoop
<1>2. \A i \in 1..Len(pending') : \E j \in 1..Len(pending) : pending'[i] = pending[j]
  BY PendingShrinks, Zenon
<1>3. CASE EraseActive(id)
  <2>1. id \in activeTimers /\ id[1] \in allocated /\ id[2] = heap[id[1]].seq /\ id = <<id[1], id[2]>>
    BY <1>3, Apart DEF EraseActive, TimerId
  <2>2. /\ activeTimers' = activeTimers \ {id}
        /\ cancelled' = cancelled \cup {id[2]}
        /\ cancelingTimers' = cancelingTimers
        /\ \A q \in allocated : q # id[1] => heap'[q] = heap[q] /\ heap[q].seq # id[2]
    BY <1>3, <2>1, Apart, Zenon DEF EraseActive, IInv, TypeOK
  <2>3. \A other \in activeTimers' : other \in activeTimers /\ other[1] # id[1]
    <3>1. ASSUME NEW other \in activeTimers, other[1] = id[1] PROVE other = id
      BY <2>1, <3>1, Apart DEF IInv, TypeOK, TimerId
    <3>. QED
      BY <2>2, <3>1, Zenon
  <2>4. CancelIsFinal'
    BY <2>2, <2>3, Apart DEF CancelInv, CancelIsFinal
  <2>5. cancelled' \subseteq 0..numCreated'
    <3>1. id[2] \in 0..numCreated
      BY <2>1, Apart
    <3>. QED
      BY <1>1, <2>2, <3>1, Zenon DEF CancelInv
  <2>6. \A i \in 1..Len(pending') : pending'[i].op = "add" => heap'[pending'[i].ptr].seq \notin cancelled'
    BY <1>2, <2>1, <2>2, Apart DEF CancelInv
  <2>7. \A entry \in expired' :
          heap'[entry[2]].seq \in cancelled' => <<entry[2], heap'[entry[2]].seq>> \in cancelingTimers'
    BY <1>1, <2>1, <2>2, Apart, Zenon DEF CancelInv
  <2>. QED
    BY <2>4, <2>5, <2>6, <2>7, Zenon DEF CancelInv
<1>4. CASE RememberCanceling(id)
  <2>1. /\ cancelingTimers' = cancelingTimers \cup {id}
        /\ UNCHANGED <<activeTimers, heap>>
    BY <1>4, Zenon DEF RememberCanceling
  <2>2. \/ cancelled' = cancelled
        \/ /\ cancelled' = cancelled \cup {id[2]}
           /\ \E entry \in expired : entry[2] = id[1] /\ heap[id[1]].seq = id[2]
    BY <1>4, Zenon DEF RememberCanceling
  <2>3. CASE cancelled' = cancelled
    BY <1>1, <1>2, <2>1, <2>3, Zenon DEF CancelInv, CancelIsFinal
  <2>4. ASSUME cancelled' = cancelled \cup {id[2]}, NEW entry \in expired, entry[2] = id[1], heap[id[1]].seq = id[2]
        PROVE  CancelInv'
    <3>1. \A q \in allocated : q # id[1] => heap[q].seq # id[2]
      BY <2>4, Apart, Zenon
    <3>2. CancelIsFinal'
      BY <2>1, <2>4, <3>1, Apart DEF CancelInv, CancelIsFinal
    <3>3. id[2] \in 0..numCreated
      BY <2>4, Apart
    <3>4. \A i \in 1..Len(pending') : pending'[i].op = "add" => heap'[pending'[i].ptr].seq \notin cancelled'
      BY <1>2, <2>1, <2>4, <3>1, Apart, SMTT(30) DEF CancelInv
    <3>5. \A e \in expired' :
            heap'[e[2]].seq \in cancelled' => <<e[2], heap'[e[2]].seq>> \in cancelingTimers'
      <4>1. id = <<id[1], id[2]>>
        BY DEF TimerId
      <4>. QED
        BY <1>1, <2>1, <2>4, <3>1, <4>1, Apart, Zenon DEF CancelInv
    <3>. QED
      BY <1>1, <2>4, <3>2, <3>3, <3>4, <3>5, Zenon DEF CancelInv
  <2>. QED
    BY <2>2, <2>3, <2>4, Zenon
<1>5. CASE CancelNothing(id)
  BY <1>1, <1>2, <1>5, Zenon DEF CancelNothing, CancelInv, CancelIsFinal
<1>. QED
  BY <1>3, <1>4, <1>5, Zenon DEF CancelInLoop

\* Nothing CancelInv looks at changes.
LEMMA SameCancel ==
  ASSUME IInv, CancelInv,
         UNCHANGED <<heap, numCreated, activeTimers, cancelingTimers, expired, pending, cancelled>>
  PROVE  CancelInv'
BY Zenon DEF CancelInv, CancelIsFinal

\* The next sequence has not been cancelled.
LEMMA FreshSequence ==
  ASSUME IInv, CancelInv
  PROVE  /\ numCreated + 1 \notin cancelled
         /\ cancelled \subseteq 0..(numCreated + 1)
<1>1. numCreated \in Nat
  BY DEF IInv, TypeOK, Sequence
<1>2. cancelled \subseteq 0..numCreated
  BY Zenon DEF CancelInv
<1>. QED
  BY <1>1, <1>2

\* Every step preserves CancelInv.
LEMMA CancelStep ==
  ASSUME IInv, CancelInv, [Next]_vars
  PROVE  CancelInv'
<1>1. ASSUME NEW p \in Ptr, NEW d \in Delays, NEW i \in Intervals, AddTimerFromLoop(p, clock + d, i)
      PROVE  CancelInv'
  <2>1. /\ activeTimers' = activeTimers \cup {<<p, numCreated + 1>>}
        /\ numCreated' = numCreated + 1
        /\ UNCHANGED <<expired, pending, cancelled, cancelingTimers>>
    BY <1>1, Zenon DEF AddTimerFromLoop, AddTimerInLoop, New
  <2>2. \A q \in allocated : heap'[q] = heap[q]
    BY <1>1, NewSequence, Zenon DEF AddTimerFromLoop
  <2>3. numCreated + 1 \notin cancelled /\ cancelled' \subseteq 0..numCreated'
    BY <2>1, FreshSequence, Zenon
  <2>. QED
    BY <2>1, <2>2, <2>3, Apart DEF CancelInv, CancelIsFinal
<1>2. ASSUME NEW t \in Thread, NEW p \in Ptr, NEW d \in Delays, NEW i \in Intervals,
             AddTimerFromThread(t, p, clock + d, i)
      PROVE  CancelInv'
  <2>. DEFINE f == [op |-> "add", ptr |-> p, seq |-> numCreated + 1]
  <2>1. /\ pending' = Append(pending, f)
        /\ numCreated' = numCreated + 1
        /\ UNCHANGED <<expired, activeTimers, cancelled, cancelingTimers>>
    BY <1>2, Zenon DEF AddTimerFromThread, New, queueVars
  <2>2. heap'[p].seq = numCreated + 1 /\ \A q \in allocated : heap'[q] = heap[q]
    BY <1>2, NewSequence, Zenon DEF AddTimerFromThread
  <2>3. numCreated + 1 \notin cancelled /\ cancelled' \subseteq 0..numCreated'
    BY <2>1, FreshSequence, Zenon
  <2>4. f \in Functor /\ f.ptr = p
    BY <1>2, NewType, Zenon DEF AddTimerFromThread, IInv, TimerId, Functor
  <2>5. \A j \in 1..Len(pending') :
           \/ j \in 1..Len(pending) /\ pending'[j] = pending[j]
           \/ pending'[j] = f
    BY <2>1, <2>4, AppendAt, Zenon DEF IInv
  <2>. HIDE DEF f
  <2>6. CancelIsFinal'
    BY <2>1, Zenon DEF CancelInv, CancelIsFinal
  <2>7. ASSUME NEW j \in 1..Len(pending'), pending'[j].op = "add"
        PROVE  heap'[pending'[j].ptr].seq \notin cancelled'
    <3>1. CASE pending'[j] = f
      BY <2>1, <2>2, <2>3, <2>4, <3>1, Zenon
    <3>2. CASE j \in 1..Len(pending) /\ pending'[j] = pending[j]
      <4>1. pending[j].op = "add" /\ heap[pending[j].ptr].seq \notin cancelled
        BY <2>7, <3>2, Zenon DEF CancelInv
      <4>2. pending[j].ptr \in allocated
        BY <3>2, <4>1, Apart, Zenon
      <4>. QED
        BY <2>1, <2>2, <3>2, <4>1, <4>2, Zenon
    <3>. QED
      BY <2>5, <3>1, <3>2, Zenon
  <2>8. \A entry \in expired' :
          heap'[entry[2]].seq \in cancelled' => <<entry[2], heap'[entry[2]].seq>> \in cancelingTimers'
    BY <2>1, <2>2, Apart, Zenon DEF CancelInv
  <2>. QED
    BY <2>3, <2>6, <2>7, <2>8, Zenon DEF CancelInv
<1>3. ASSUME NEW id \in issued, CancelFromThread(id)
      PROVE  CancelInv'
  <2>. DEFINE f == [op |-> "cancel", ptr |-> id[1], seq |-> id[2]]
  <2>1. f \in Functor /\ f.op # "add"
    BY Zenon DEF IInv, TypeOK, TimerId, Functor
  <2>2. /\ pending' = Append(pending, f)
        /\ UNCHANGED <<heap, numCreated, activeTimers, expired, cancelled, cancelingTimers>>
    BY <1>3, Zenon DEF CancelFromThread, queueVars
  <2>3. \A j \in 1..Len(pending') : pending'[j].op = "add" => j \in 1..Len(pending) /\ pending'[j] = pending[j]
    BY <2>1, <2>2, AppendAt, Zenon DEF IInv
  <2>. QED
    BY <2>2, <2>3, Zenon DEF CancelInv, CancelIsFinal
<1>4. CASE RunPendingAdd
  <2>1. /\ activeTimers' = activeTimers \cup {<<Head(pending).ptr, heap[Head(pending).ptr].seq>>}
        /\ UNCHANGED <<heap, numCreated, expired, cancelled, cancelingTimers>>
    BY <1>4, Zenon DEF RunPendingAdd, AddTimerInLoop
  <2>2. heap[Head(pending).ptr].seq \notin cancelled
    BY <1>4, TailAt, Zenon DEF RunPendingAdd, IInv, CancelInv
  <2>3. \A i \in 1..Len(pending') : \E j \in 1..Len(pending) : pending'[i] = pending[j]
    BY <1>4, PendingShrinks, Zenon DEF RunPendingAdd
  <2>. QED
    BY <2>1, <2>2, <2>3, SMTT(30) DEF CancelInv, CancelIsFinal
<1>5. CASE HandleRead
  <2>1. /\ activeTimers' \subseteq activeTimers
        /\ expired' \subseteq timers
        /\ UNCHANGED <<heap, numCreated, cancelled, pending>>
    BY <1>5, Zenon DEF HandleRead
  <2>2. \A entry \in timers : heap[entry[2]].seq \notin cancelled
    BY Zenon DEF IInv, Consistent, SetsAgree, CancelInv, CancelIsFinal
  <2>. QED
    BY <2>1, <2>2, Zenon DEF CancelInv, CancelIsFinal
<1>6. ASSUME NEW entry \in torun, RunTimer(entry)
      PROVE  CancelInv'
  <2>1. UNCHANGED <<numCreated, activeTimers, expired, cancelled, cancelingTimers, pending>>
    BY <1>6, Zenon DEF RunTimer
  <2>2. \A p \in allocated : heap'[p].seq = heap[p].seq
    BY <1>6, RunTimerFields, Zenon DEF IInv, TypeOK
  <2>. QED
    BY <2>1, <2>2, Apart, Zenon DEF CancelInv, CancelIsFinal
<1>7. CASE Reset
  <2>1. /\ activeTimers' = activeTimers \cup {<<p, heap[p].seq>> : p \in Restarted}
        /\ expired' = {} /\ UNCHANGED <<numCreated, cancelled, cancelingTimers, pending>>
    BY <1>7, Zenon DEF Reset
  <2>2. \A p \in Restarted : heap[p].seq \notin cancelled
    BY Zenon DEF Restarted, CancelInv
  <2>3. \A i \in 1..Len(pending) : pending[i].op = "add" => heap'[pending[i].ptr] = heap[pending[i].ptr]
    BY <1>7, ResetFields, Apart
  <2>. QED
    BY <2>1, <2>2, <2>3 DEF CancelInv, CancelIsFinal
<1>8. ASSUME NEW id \in issued, CancelFromLoop(id) PROVE CancelInv'
  BY <1>8, CancelInLoopFinal, Zenon DEF CancelFromLoop, IInv, TypeOK
<1>9. CASE RunPendingCancel
  BY <1>9, CancelInLoopFinal, HeadType, Zenon DEF RunPendingCancel, IInv
<1>10. ASSUME NEW t \in Thread, AddTimerReturn(t) PROVE CancelInv'
  BY <1>10, SameCancel, Zenon DEF AddTimerReturn, queueVars
<1>11. CASE Tick
  BY <1>11, SameCancel, Zenon DEF Tick, queueVars
<1>12. ASSUME NEW c \in 1..MaxTime, AdjustClock(c) PROVE CancelInv'
  BY <1>12, SameCancel, Zenon DEF AdjustClock, queueVars
<1>13. CASE UNCHANGED vars
  BY <1>13, SameCancel, Zenon DEF vars
<1>. QED
  BY <1>1, <1>2, <1>3, <1>4, <1>5, <1>6, <1>7, <1>8, <1>9, <1>10, <1>11, <1>12, <1>13, Zenon
  DEF Next, LoopStep, UserStep

\* A timer cancelled in the queue or during its batch never comes back.
THEOREM CancelCorrect == Spec => []CancelIsFinal
<1>1. Init => IInv /\ CancelInv
  BY InitIInv, Zenon
<1>2. IInv /\ CancelInv /\ [Next]_vars => IInv' /\ CancelInv'
  BY IInvStep, CancelStep, Zenon
<1>3. IInv /\ CancelInv => CancelIsFinal
  BY Zenon DEF CancelInv
<1>. QED
  BY <1>1, <1>2, <1>3, PTL DEF Spec
-----------------------------------------------------------------------------
(* OnlyNamedTimersDie *)

\* cancelingTimers_ holds only ids that somebody passed to cancel().
NamedInv == cancelingTimers \subseteq named

\* Every step preserves NamedInv.
LEMMA NamedStep ==
  ASSUME NamedInv, [Next]_vars
  PROVE  NamedInv'
<1>1. ASSUME NEW id, CancelInLoop(id) PROVE NamedInv'
  BY <1>1, Zenon DEF CancelInLoop, EraseActive, RememberCanceling, CancelNothing, NamedInv
<1>2. CASE LoopStep
  BY <1>1, <1>2, Zenon DEF LoopStep, RunPendingAdd, AddTimerInLoop, RunPendingCancel, HandleRead, RunTimer, Reset, NamedInv
<1>3. CASE UserStep
  BY <1>1, <1>3, Zenon DEF UserStep, AddTimerFromLoop, AddTimerInLoop, AddTimerFromThread, AddTimerReturn,
     CancelFromLoop, CancelFromThread, queueVars, NamedInv
<1>. QED
  BY <1>2, <1>3, Zenon DEF Next, Tick, AdjustClock, queueVars, vars, NamedInv

\* The condition of OnlyNamedTimersDie on one step.
Survives(p) ==
  (heap[p].interval > 0 /\ <<p, heap[p].seq>> \notin named') =>
    p \in allocated' /\ heap'[p].seq = heap[p].seq

\* A step ends only timers that it names.
LEMMA SurvivesStep ==
  ASSUME IInv, NamedInv, [Next]_vars, NEW p \in allocated
  PROVE  Survives(p)
<1>1. ASSUME UNCHANGED <<allocated, heap>> PROVE Survives(p)
  BY <1>1, Zenon DEF Survives
<1>2. ASSUME NEW q \in Ptr, NEW when, NEW i, New(q, when, i) PROVE Survives(p)
  BY <1>2, NewSequence, Zenon DEF New, Survives
<1>3. ASSUME NEW id \in TimerId, CancelInLoop(id) PROVE Survives(p)
  <2>1. CASE EraseActive(id) /\ id[1] = p
    <3>1. id = <<p, heap[p].seq>>
      BY <2>1, Apart DEF EraseActive, TimerId
    <3>. QED
      BY <1>3, <3>1, Zenon DEF CancelInLoop, Survives
  <2>2. CASE EraseActive(id) /\ id[1] # p
    BY <2>2, Zenon DEF EraseActive, Survives, IInv, TypeOK
  <2>3. CASE RememberCanceling(id) \/ CancelNothing(id)
    BY <2>3, <1>1, Zenon DEF RememberCanceling, CancelNothing
  <2>. QED
    BY <1>3, <2>1, <2>2, <2>3, Zenon DEF CancelInLoop
<1>4. ASSUME NEW entry \in torun, RunTimer(entry) PROVE Survives(p)
  BY <1>4, RunTimerFields, Zenon DEF RunTimer, Survives, IInv, TypeOK
<1>5. CASE Reset
  <2>1. CASE \A entry \in expired : entry[2] # p
    BY <1>5, <2>1, ResetFields, Zenon DEF Survives
  <2>2. CASE p \in Restarted
    BY <1>5, <2>2, ResetFields, Zenon DEF Survives
  <2>3. ASSUME NEW entry \in expired, entry[2] = p, p \notin Restarted
        PROVE  ~(heap[p].interval > 0 /\ <<p, heap[p].seq>> \notin named')
    <3>1. named' = named
      BY <1>5, Zenon DEF Reset
    <3>. QED
      BY <2>3, <3>1, Zenon DEF Restarted, repeat, NamedInv
  <2>. QED
    BY <2>1, <2>2, <2>3, Zenon DEF Survives
<1>6. CASE LoopStep
  BY <1>1, <1>3, <1>4, <1>5, <1>6, HeadType, Zenon
  DEF LoopStep, RunPendingAdd, RunPendingCancel, HandleRead, IInv
<1>7. CASE UserStep
  <2>1. ASSUME NEW id \in issued, CancelFromLoop(id) PROVE Survives(p)
    BY <1>3, <2>1, Zenon DEF CancelFromLoop, IInv, TypeOK
  <2>. QED
    BY <1>1, <1>2, <1>7, <2>1, Zenon DEF UserStep, AddTimerFromLoop, AddTimerFromThread, AddTimerReturn, CancelFromThread
<1>. QED
  BY <1>1, <1>6, <1>7, Zenon DEF Next, Tick, AdjustClock, vars

\* A stale TimerId never deletes the timer that now lives at its address.
THEOREM StaleIdsHarmless == Spec => OnlyNamedTimersDie
<1>1. Init => IInv /\ NamedInv
  BY InitIInv, Zenon DEF Init, NamedInv
<1>2. IInv /\ NamedInv /\ [Next]_vars => IInv' /\ NamedInv'
  BY IInvStep, NamedStep, Zenon
<1>3. IInv /\ NamedInv /\ [Next]_vars =>
        [\A p \in allocated :
           (heap[p].interval > 0 /\ <<p, heap[p].seq>> \notin named') =>
             p \in allocated' /\ heap'[p].seq = heap[p].seq]_vars
  BY SurvivesStep, Zenon DEF Survives
<1>. QED
  BY <1>1, <1>2, <1>3, PTL DEF Spec, OnlyNamedTimersDie
-----------------------------------------------------------------------------
(* QueuedCancelEffective *)

\* Every live timer is in the queue, in the batch or in a queued addTimerInLoop().
PlacedInv ==
  /\ ~callingExpiredTimers => expired = {}
  /\ \A p \in allocated :
       \/ <<p, heap[p].seq>> \in activeTimers
       \/ \E entry \in expired : entry[2] = p
       \/ \E i \in 1..Len(pending) : pending[i].op = "add" /\ pending[i].ptr = p

\* Every id that is known was handed out ...
IssuedInv ==
  /\ \A id \in issued : id[2] <= numCreated
  /\ \A t \in Thread : returning[t] # None => returning[t][2] <= numCreated
  /\ \A i \in 1..Len(pending) : pending[i].seq <= numCreated

\* ... and so the functor that adds a timer is queued before those that cancel it.
FifoInv ==
  \A i, j \in 1..Len(pending) :
    (/\ pending[i].op = "add" /\ pending[j].op = "cancel" /\ pending[i].ptr = pending[j].ptr
     /\ heap[pending[j].ptr].seq = pending[j].seq) => i < j

\* The functors of the queue without its head, by the places they had.
LEMMA TailFrom ==
  ASSUME TypeOK, pending # <<>>
  PROVE  \A i \in 1..Len(pending) : i = 1 \/ (i - 1 \in 1..Len(Tail(pending)) /\ Tail(pending)[i - 1] = pending[i])
BY DEF TypeOK

\* Every step keeps each live timer at its place or moves it to the next.
LEMMA PlacedStep ==
  ASSUME IInv, PlacedInv, [Next]_vars
  PROVE  PlacedInv'
<1>0. TypeOK
  BY Zenon DEF IInv
<1>1. ASSUME NEW p \in Ptr, NEW d \in Delays, NEW i \in Intervals, AddTimerFromLoop(p, clock + d, i)
      PROVE  PlacedInv'
  <2>1. /\ activeTimers' = activeTimers \cup {<<p, numCreated + 1>>} /\ allocated' = allocated \cup {p}
        /\ UNCHANGED <<expired, pending, callingExpiredTimers>>
    BY <1>1, Zenon DEF AddTimerFromLoop, AddTimerInLoop, New
  <2>2. heap'[p].seq = numCreated + 1 /\ \A q \in allocated : heap'[q] = heap[q]
    BY <1>1, NewSequence, Zenon DEF AddTimerFromLoop
  <2>. QED
    BY <2>1, <2>2, Zenon DEF PlacedInv
<1>2. ASSUME NEW t \in Thread, NEW p \in Ptr, NEW d \in Delays, NEW i \in Intervals,
             AddTimerFromThread(t, p, clock + d, i)
      PROVE  PlacedInv'
  <2>. DEFINE f == [op |-> "add", ptr |-> p, seq |-> numCreated + 1]
  <2>1. /\ pending' = Append(pending, f) /\ allocated' = allocated \cup {p}
        /\ UNCHANGED <<expired, activeTimers, callingExpiredTimers>>
    BY <1>2, Zenon DEF AddTimerFromThread, New, queueVars
  <2>2. \A q \in allocated : heap'[q] = heap[q]
    BY <1>2, NewSequence, Zenon DEF AddTimerFromThread
  <2>3. f \in Functor /\ f.ptr = p /\ f.op = "add"
    BY <1>2, NewType, Zenon DEF AddTimerFromThread, IInv, TimerId, Functor
  <2>4. /\ \A k \in 1..Len(pending) : k \in 1..Len(pending') /\ pending'[k] = pending[k]
        /\ Len(pending) + 1 \in 1..Len(pending') /\ pending'[Len(pending) + 1] = f
    BY <1>0, <2>1, <2>3 DEF TypeOK
  <2>. HIDE DEF f
  <2>. QED
    BY <2>1, <2>2, <2>3, <2>4 DEF PlacedInv
<1>3. ASSUME NEW id \in issued, CancelFromThread(id)
      PROVE  PlacedInv'
  <2>. DEFINE f == [op |-> "cancel", ptr |-> id[1], seq |-> id[2]]
  <2>1. f \in Functor
    BY <1>0, Zenon DEF TypeOK, TimerId, Functor
  <2>2. pending' = Append(pending, f) /\ UNCHANGED <<allocated, heap, activeTimers, expired, callingExpiredTimers>>
    BY <1>3, Zenon DEF CancelFromThread, queueVars
  <2>3. \A i \in 1..Len(pending) : i \in 1..Len(pending') /\ pending'[i] = pending[i]
    BY <1>0, <2>1, <2>2 DEF TypeOK
  <2>. QED
    BY <2>2, <2>3 DEF PlacedInv
<1>4. CASE RunPendingAdd
  <2>. DEFINE h == Head(pending).ptr
  <2>1. /\ activeTimers' = activeTimers \cup {<<h, heap[h].seq>>} /\ pending # <<>> /\ pending' = Tail(pending)
        /\ UNCHANGED <<allocated, heap, expired, callingExpiredTimers>>
    BY <1>4, Zenon DEF RunPendingAdd, AddTimerInLoop
  <2>2. Head(pending) = pending[1]
    BY <1>0, <2>1, TailAt, Zenon
  <2>3. \A i \in 1..Len(pending) : i = 1 \/ (i - 1 \in 1..Len(pending') /\ pending'[i - 1] = pending[i])
    BY <1>0, <2>1, TailFrom, Zenon
  <2>4. \A p : (\E i \in 1..Len(pending) : pending[i].op = "add" /\ pending[i].ptr = p) =>
                p = h \/ (\E i \in 1..Len(pending') : pending'[i].op = "add" /\ pending'[i].ptr = p)
    BY <2>2, <2>3, Zenon
  <2>. HIDE DEF h
  <2>. QED
    BY <2>1, <2>4, Zenon DEF PlacedInv
<1>5. CASE RunPendingCancel \/ \E id \in issued : CancelFromLoop(id)
  <2>1. PICK id \in TimerId : CancelInLoop(id)
    BY <1>0, <1>5, HeadType, Zenon DEF RunPendingCancel, CancelFromLoop, TypeOK
  <2>2. \A p : (\E i \in 1..Len(pending) : pending[i].op = "add" /\ pending[i].ptr = p) =>
                (\E i \in 1..Len(pending') : pending'[i].op = "add" /\ pending'[i].ptr = p)
    <3>1. CASE RunPendingCancel
      <4>1. pending # <<>> /\ pending' = Tail(pending) /\ Head(pending).op = "cancel" /\ Head(pending) = pending[1]
        BY <1>0, <3>1, TailAt, Zenon DEF RunPendingCancel
      <4>2. \A i \in 1..Len(pending) : i = 1 \/ (i - 1 \in 1..Len(pending') /\ pending'[i - 1] = pending[i])
        BY <1>0, <4>1, TailFrom, Zenon
      <4>. QED
        BY <4>1, <4>2, Zenon
    <3>. QED
      BY <1>5, <3>1, Zenon DEF CancelFromLoop
  <2>3. UNCHANGED <<expired, callingExpiredTimers>>
    BY <2>1, Zenon DEF CancelInLoop
  <2>4. CASE EraseActive(id)
    <3>1. /\ activeTimers' = activeTimers \ {id} /\ allocated' = allocated \ {id[1]}
          /\ \A p \in allocated' : heap'[p] = heap[p]
      BY <1>0, <2>4, Zenon DEF EraseActive, TypeOK
    <3>2. \A p \in allocated' : <<p, heap[p].seq>> # id
      BY <3>1
    <3>. QED
      BY <2>2, <2>3, <3>1, <3>2, Zenon DEF PlacedInv
  <2>5. CASE UNCHANGED <<activeTimers, allocated, heap>>
    BY <2>2, <2>3, <2>5, Zenon DEF PlacedInv
  <2>. QED
    BY <2>1, <2>4, <2>5, Zenon DEF CancelInLoop, RememberCanceling, CancelNothing
<1>6. CASE HandleRead
  <2>1. /\ activeTimers' = activeTimers \ {<<entry[2], heap[entry[2]].seq>> : entry \in expired'}
        /\ ~callingExpiredTimers /\ callingExpiredTimers'
        /\ UNCHANGED <<allocated, heap, pending>>
    BY <1>6, Zenon DEF HandleRead
  <2>. QED
    BY <2>1, Zenon DEF PlacedInv
<1>7. ASSUME NEW entry \in torun, RunTimer(entry) PROVE PlacedInv'
  <2>1. UNCHANGED <<allocated, activeTimers, expired, pending, callingExpiredTimers>>
    BY <1>7, Zenon DEF RunTimer
  <2>2. \A p \in allocated : heap'[p].seq = heap[p].seq
    BY <1>7, RunTimerFields, Zenon DEF IInv, TypeOK
  <2>. QED
    BY <2>1, <2>2, Zenon DEF PlacedInv
<1>8. CASE Reset
  <2>1. /\ activeTimers' = activeTimers \cup {<<p, heap[p].seq>> : p \in Restarted}
        /\ allocated' = allocated \ ({entry[2] : entry \in expired} \ Restarted)
        /\ expired' = {} /\ UNCHANGED pending
    BY <1>8, Zenon DEF Reset
  <2>2. \A p \in allocated' : p \in allocated /\ heap'[p].seq = heap[p].seq
    BY <1>8, ResetFields, Zenon
  <2>3. \A p \in allocated' : (\E entry \in expired : entry[2] = p) => p \in Restarted
    BY <2>1, Zenon
  <2>. QED
    BY <2>1, <2>2, <2>3, Zenon DEF PlacedInv
<1>9. CASE UNCHANGED <<allocated, heap, activeTimers, expired, pending, callingExpiredTimers>>
  BY <1>9, Zenon DEF PlacedInv
<1>. QED
  BY <1>1, <1>2, <1>3, <1>4, <1>5, <1>6, <1>7, <1>8, <1>9, Zenon
  DEF Next, LoopStep, UserStep, AddTimerReturn, Tick, AdjustClock, queueVars, vars

\* What the queue of functors holds, at any place.
LEMMA PendingAt ==
  ASSUME TypeOK
  PROVE  \A k \in 1..Len(pending) : pending[k].ptr \in Ptr /\ pending[k].seq \in Nat
<1>1. pending \in Seq(Functor)
  BY Zenon DEF TypeOK
<1>2. \A k \in 1..Len(pending) : pending[k] \in Functor
  BY <1>1
<1>3. \A f \in Functor : f.ptr \in Ptr /\ f.seq \in Nat
  BY DEF Functor, Sequence
<1>. QED
  BY <1>2, <1>3, Zenon

\* No step makes an id known that was not handed out.
LEMMA IssuedStep ==
  ASSUME IInv, IssuedInv, [Next]_vars
  PROVE  IssuedInv'
<1>0. TypeOK /\ numCreated \in Nat
  BY DEF IInv, TypeOK, Sequence
<1>1. ASSUME NEW p \in Ptr, NEW d \in Delays, NEW i \in Intervals, AddTimerFromLoop(p, clock + d, i)
      PROVE  IssuedInv'
  <2>1. issued' = issued \cup {<<p, numCreated + 1>>} /\ numCreated' = numCreated + 1 /\ UNCHANGED <<returning, pending>>
    BY <1>1, Zenon DEF AddTimerFromLoop, New
  <2>2. \A id \in issued : id[2] \in Nat
    BY <1>0 DEF TypeOK, TimerId, Sequence
  <2>3. \A t \in Thread : returning[t] # None => returning[t][2] \in Nat
    BY <1>0 DEF TypeOK, TimerId, Sequence
  <2>4. \A k \in 1..Len(pending) : pending[k].seq \in Nat
    BY <1>0, PendingAt, Zenon
  <2>. QED
    BY <1>0, <2>1, <2>2, <2>3, <2>4 DEF IssuedInv
<1>2. ASSUME NEW t \in Thread, NEW p \in Ptr, NEW d \in Delays, NEW i \in Intervals,
             AddTimerFromThread(t, p, clock + d, i)
      PROVE  IssuedInv'
  <2>. DEFINE f == [op |-> "add", ptr |-> p, seq |-> numCreated + 1]
  <2>1. /\ pending' = Append(pending, f) /\ numCreated' = numCreated + 1 /\ UNCHANGED issued
        /\ returning' = [returning EXCEPT ![t] = <<p, numCreated + 1>>]
    BY <1>2, Zenon DEF AddTimerFromThread, New
  <2>2. f \in Functor /\ f.seq = numCreated + 1
    BY <1>2, NewType, Zenon DEF AddTimerFromThread, IInv, TimerId, Functor
  <2>3. \A k \in 1..Len(pending') : (k \in 1..Len(pending) /\ pending'[k] = pending[k]) \/ pending'[k] = f
    BY <1>0, <2>1, <2>2, AppendAt, Zenon
  <2>. HIDE DEF f
  <2>4. \A id \in issued : id[2] \in Nat
    BY <1>0 DEF TypeOK, TimerId, Sequence
  <2>5. \A u \in Thread : returning[u] # None => returning[u][2] \in Nat
    BY <1>0 DEF TypeOK, TimerId, Sequence
  <2>6. \A k \in 1..Len(pending) : pending[k].seq \in Nat
    BY <1>0, PendingAt, Zenon
  <2>7. \A u \in Thread : returning'[u] = returning[u] \/ returning'[u] = <<p, numCreated + 1>>
    BY <1>0, <2>1, Zenon DEF TypeOK
  <2>8. \A k \in 1..Len(pending') : pending'[k].seq <= numCreated + 1
    BY <1>0, <2>2, <2>3, <2>6 DEF IssuedInv
  <2>9. \A u \in Thread : returning'[u] # None => returning'[u][2] <= numCreated + 1
    BY <1>0, <2>5, <2>7 DEF IssuedInv
  <2>. QED
    BY <1>0, <2>1, <2>4, <2>8, <2>9 DEF IssuedInv
<1>3. ASSUME NEW id \in issued, CancelFromThread(id)
      PROVE  IssuedInv'
  <2>. DEFINE f == [op |-> "cancel", ptr |-> id[1], seq |-> id[2]]
  <2>1. f \in Functor /\ f.seq = id[2]
    BY <1>0, Zenon DEF TypeOK, TimerId, Functor
  <2>2. pending' = Append(pending, f) /\ UNCHANGED <<numCreated, returning, issued>>
    BY <1>3, Zenon DEF CancelFromThread
  <2>3. \A k \in 1..Len(pending') : (k \in 1..Len(pending) /\ pending'[k] = pending[k]) \/ pending'[k] = f
    BY <1>0, <2>1, <2>2, AppendAt, Zenon
  <2>. HIDE DEF f
  <2>. QED
    BY <2>1, <2>2, <2>3, Zenon DEF IssuedInv
<1>4. ASSUME NEW t \in Thread, AddTimerReturn(t) PROVE IssuedInv'
  <2>1. PICK p, seq : /\ issued' = issued \cup {<<p, seq>>}
                      /\ seq \in IF p \in allocated THEN {heap[p].seq} ELSE {returning[t][2], 0}
    BY <1>4, Zenon DEF AddTimerReturn
  <2>2. returning[t] # None /\ returning' = [returning EXCEPT ![t] = None] /\ UNCHANGED <<numCreated, pending>>
    BY <1>4, Zenon DEF AddTimerReturn
  <2>3. seq <= numCreated
    BY <1>0, <2>1, <2>2 DEF IssuedInv, IInv, Consistent, SequenceInv
  <2>4. \A u \in Thread : returning'[u] = returning[u] \/ returning'[u] = None
    BY <1>0, <2>2, Zenon DEF TypeOK
  <2>. QED
    BY <2>1, <2>2, <2>3, <2>4 DEF IssuedInv
<1>5. CASE RunPendingAdd \/ RunPendingCancel
  <2>1. pending # <<>> /\ pending' = Tail(pending) /\ UNCHANGED <<numCreated, returning, issued>>
    BY <1>5, Zenon DEF RunPendingAdd, RunPendingCancel, CancelInLoop
  <2>2. \A i \in 1..Len(pending') : \E j \in 1..Len(pending) : pending'[i] = pending[j]
    BY <2>1, PendingShrinks, Zenon
  <2>. QED
    BY <2>1, <2>2, Zenon DEF IssuedInv
<1>6. CASE UNCHANGED <<numCreated, returning, issued, pending>>
  BY <1>6, Zenon DEF IssuedInv
<1>7. ASSUME NEW id \in issued, CancelFromLoop(id) PROVE IssuedInv'
  BY <1>6, <1>7, Zenon DEF CancelFromLoop, CancelInLoop
<1>. QED
  BY <1>1, <1>2, <1>3, <1>4, <1>5, <1>6, <1>7, Zenon
  DEF Next, LoopStep, UserStep, HandleRead, RunTimer, Reset, Tick, AdjustClock, vars

\* The queue keeps its order, and a new timer has an id that no cancel() knows.
LEMMA FifoStep ==
  ASSUME IInv, IssuedInv, FifoInv, [Next]_vars
  PROVE  FifoInv'
<1>0. TypeOK /\ numCreated \in Nat
  BY DEF IInv, TypeOK, Sequence
<1>1. ASSUME UNCHANGED pending,
             \A i \in 1..Len(pending) : pending[i].op = "add" => heap'[pending[i].ptr].seq = heap[pending[i].ptr].seq
      PROVE  FifoInv'
  BY <1>1 DEF FifoInv
<1>2. ASSUME NEW p \in Ptr, NEW d \in Delays, NEW i \in Intervals, AddTimerFromLoop(p, clock + d, i)
      PROVE  FifoInv'
  <2>1. UNCHANGED pending /\ \A q \in allocated : heap'[q] = heap[q]
    BY <1>2, NewSequence, Zenon DEF AddTimerFromLoop
  <2>2. \A k \in 1..Len(pending) : pending[k].op = "add" => pending[k].ptr \in allocated
    BY Apart, Zenon
  <2>. QED
    BY <1>1, <2>1, <2>2, Zenon
<1>3. ASSUME NEW t \in Thread, NEW p \in Ptr, NEW d \in Delays, NEW i \in Intervals,
             AddTimerFromThread(t, p, clock + d, i)
      PROVE  FifoInv'
  <2>. DEFINE f == [op |-> "add", ptr |-> p, seq |-> numCreated + 1]
  <2>1. pending' = Append(pending, f)
    BY <1>3, Zenon DEF AddTimerFromThread
  <2>2. f \in Functor /\ f.ptr = p /\ f.op = "add"
    BY <1>3, NewType, Zenon DEF AddTimerFromThread, IInv, TimerId, Functor
  <2>3. heap'[p].seq = numCreated + 1 /\ \A q \in allocated : q # p /\ heap'[q] = heap[q]
    BY <1>3, NewSequence, Zenon DEF AddTimerFromThread
  <2>4. \A k \in 1..Len(pending') : (k \in 1..Len(pending) /\ pending'[k] = pending[k])
                                    \/ (k = Len(pending) + 1 /\ pending'[k] = f)
    BY <1>0, <2>1, <2>2, AppendAt, Zenon
  <2>. HIDE DEF f
  <2>5. \A k \in 1..Len(pending) : pending[k].op = "add" => pending[k].ptr \in allocated
    BY Apart, Zenon
  <2>6. \A k \in 1..Len(pending) : pending[k].seq # numCreated + 1
    BY <1>0 DEF IssuedInv, TypeOK, Functor, Sequence
  <2>7. ASSUME NEW k \in 1..Len(pending'), NEW l \in 1..Len(pending'),
               pending'[k].op = "add", pending'[l].op = "cancel", pending'[k].ptr = pending'[l].ptr,
               heap'[pending'[l].ptr].seq = pending'[l].seq
        PROVE  k < l
    <3>1. l \in 1..Len(pending) /\ pending'[l] = pending[l]
      BY <2>2, <2>4, <2>7, Zenon
    <3>2. k \in 1..Len(pending) /\ pending'[k] = pending[k]
      BY <2>2, <2>3, <2>4, <2>6, <2>7, <3>1
    <3>3. heap'[pending[l].ptr] = heap[pending[l].ptr]
      BY <2>3, <2>5, <2>7, <3>1, <3>2, Zenon
    <3>. QED
      BY <2>7, <3>1, <3>2, <3>3, Zenon DEF FifoInv
  <2>. QED
    BY <2>7, Zenon DEF FifoInv
<1>4. ASSUME NEW id \in issued, CancelFromThread(id)
      PROVE  FifoInv'
  <2>. DEFINE f == [op |-> "cancel", ptr |-> id[1], seq |-> id[2]]
  <2>1. f \in Functor /\ f.op # "add"
    BY <1>0, Zenon DEF TypeOK, TimerId, Functor
  <2>2. pending' = Append(pending, f) /\ UNCHANGED heap /\ Len(pending) \in Nat
    BY <1>0, <1>4 DEF CancelFromThread, TypeOK
  <2>3. \A k \in 1..Len(pending') : (k \in 1..Len(pending) /\ pending'[k] = pending[k])
                                    \/ (k = Len(pending) + 1 /\ pending'[k] = f)
    BY <1>0, <2>1, <2>2, AppendAt, Zenon
  <2>. HIDE DEF f
  <2>4. ASSUME NEW k \in 1..Len(pending'), NEW l \in 1..Len(pending'),
               pending'[k].op = "add", pending'[l].op = "cancel", pending'[k].ptr = pending'[l].ptr,
               heap'[pending'[l].ptr].seq = pending'[l].seq
        PROVE  k < l
    <3>1. k \in 1..Len(pending) /\ pending'[k] = pending[k]
      BY <2>1, <2>3, <2>4, Zenon
    <3>2. CASE l = Len(pending) + 1
      BY <2>2, <3>1, <3>2
    <3>3. CASE l \in 1..Len(pending) /\ pending'[l] = pending[l]
      BY <2>2, <2>4, <3>1, <3>3, Zenon DEF FifoInv
    <3>. QED
      BY <2>3, <3>2, <3>3, Zenon
  <2>. QED
    BY <2>4, Zenon DEF FifoInv
<1>5. ASSUME pending # <<>>, pending' = Tail(pending),
             \A i \in 1..Len(pending) : pending[i].op = "add" => heap'[pending[i].ptr].seq = heap[pending[i].ptr].seq
      PROVE  FifoInv'
  <2>1. \A i \in 1..Len(pending') : i + 1 \in 1..Len(pending) /\ pending'[i] = pending[i + 1]
    BY <1>0, <1>5, TailAt, Zenon
  <2>2. ASSUME NEW k \in 1..Len(pending'), NEW l \in 1..Len(pending'),
               pending'[k].op = "add", pending'[l].op = "cancel", pending'[k].ptr = pending'[l].ptr,
               heap'[pending'[l].ptr].seq = pending'[l].seq
        PROVE  k < l
    <3>1. k + 1 < l + 1
      BY <1>5, <2>1, <2>2 DEF FifoInv
    <3>. QED
      BY <3>1
  <2>. QED
    BY <2>2, Zenon DEF FifoInv
<1>6. CASE RunPendingAdd
  BY <1>5, <1>6, Zenon DEF RunPendingAdd
<1>7. ASSUME NEW id \in TimerId, CancelInLoop(id)
      PROVE  \A i \in 1..Len(pending) : pending[i].op = "add" => heap'[pending[i].ptr].seq = heap[pending[i].ptr].seq
  <2>1. CASE EraseActive(id)
    <3>1. \A q \in Ptr : q # id[1] => heap'[q] = heap[q]
      BY <1>0, <2>1, Zenon DEF EraseActive, TypeOK
    <3>2. \A i \in 1..Len(pending) : pending[i].op = "add" => pending[i].ptr # id[1]
      BY <2>1, Apart, Zenon DEF EraseActive
    <3>3. \A i \in 1..Len(pending) : pending[i].ptr \in Ptr
      BY <1>0, PendingAt, Zenon
    <3>. QED
      BY <3>1, <3>2, <3>3, Zenon
  <2>2. CASE UNCHANGED heap
    BY <2>2, Zenon
  <2>. QED
    BY <1>7, <2>1, <2>2, Zenon DEF CancelInLoop, RememberCanceling, CancelNothing
<1>8. CASE RunPendingCancel
  BY <1>0, <1>5, <1>7, <1>8, HeadType, Zenon DEF RunPendingCancel
<1>9. ASSUME NEW id \in issued, CancelFromLoop(id) PROVE FifoInv'
  BY <1>0, <1>1, <1>7, <1>9, Zenon DEF CancelFromLoop, TypeOK
<1>10. ASSUME NEW entry \in torun, RunTimer(entry) PROVE FifoInv'
  <2>1. UNCHANGED pending /\ \A i \in 1..Len(pending) : pending[i].ptr \in Ptr
    BY <1>0, <1>10, PendingAt, Zenon DEF RunTimer
  <2>. QED
    BY <1>1, <1>10, <2>1, RunTimerFields, Zenon
<1>11. CASE Reset
  <2>1. UNCHANGED pending
    BY <1>11, Zenon DEF Reset
  <2>2. \A i \in 1..Len(pending) : pending[i].op = "add" => heap'[pending[i].ptr] = heap[pending[i].ptr]
    BY <1>11, ResetFields, Apart
  <2>. QED
    BY <1>1, <2>1, <2>2, Zenon
<1>12. CASE UNCHANGED <<heap, pending>>
  BY <1>1, <1>12, Zenon
<1>. QED
  BY <1>2, <1>3, <1>4, <1>6, <1>8, <1>9, <1>10, <1>11, <1>12, Zenon
  DEF Next, LoopStep, UserStep, HandleRead, AddTimerReturn, Tick, AdjustClock, vars

\* The condition of QueuedCancelEffective on one step.
CancelTaken ==
  (pending # <<>> /\ pending' = Tail(pending) /\ Head(pending).op = "cancel") =>
    ~(Head(pending).ptr \in allocated' /\ heap'[Head(pending).ptr].seq = Head(pending).seq)

LEMMA CancelTakenStep ==
  ASSUME IInv, PlacedInv, FifoInv, [Next]_vars
  PROVE  CancelTaken
<1>0. TypeOK
  BY Zenon DEF IInv
<1>1. SUFFICES ASSUME pending # <<>>, pending' = Tail(pending), Head(pending).op = "cancel"
               PROVE  ~(Head(pending).ptr \in allocated' /\ heap'[Head(pending).ptr].seq = Head(pending).seq)
  BY Zenon DEF CancelTaken
<1>2. Len(pending') = Len(pending) - 1 /\ Len(pending) \in Nat /\ Head(pending) \in Functor
  BY <1>0, <1>1 DEF TypeOK
<1>3. RunPendingCancel
  <2>1. pending' # pending
    BY <1>2
  <2>2. ASSUME NEW f \in Functor, pending' = Append(pending, f) PROVE FALSE
    BY <1>0, <1>2, <2>2 DEF TypeOK
  <2>3. ASSUME NEW t \in Thread, NEW p \in Ptr, NEW d \in Delays, NEW i \in Intervals,
               AddTimerFromThread(t, p, clock + d, i)
        PROVE  FALSE
    <3>1. [op |-> "add", ptr |-> p, seq |-> numCreated + 1] \in Functor
      BY <2>3, NewType, Zenon DEF AddTimerFromThread, IInv, TimerId, Functor
    <3>. QED
      BY <2>2, <2>3, <3>1, Zenon DEF AddTimerFromThread
  <2>4. ASSUME NEW id \in issued, CancelFromThread(id) PROVE FALSE
    <3>1. [op |-> "cancel", ptr |-> id[1], seq |-> id[2]] \in Functor
      BY <1>0, Zenon DEF TypeOK, TimerId, Functor
    <3>. QED
      BY <2>2, <2>4, <3>1, Zenon DEF CancelFromThread
  <2>5. ~RunPendingAdd
    BY <1>1, Zenon DEF RunPendingAdd
  <2>6. ~\E id \in issued : CancelFromLoop(id)
    BY <2>1, Zenon DEF CancelFromLoop
  <2>7. ~\E p \in Ptr, d \in Delays, i \in Intervals : AddTimerFromLoop(p, clock + d, i)
    BY <2>1, Zenon DEF AddTimerFromLoop
  <2>. QED
    BY <2>1, <2>3, <2>4, <2>5, <2>6, <2>7, Zenon
    DEF Next, LoopStep, UserStep, HandleRead, RunTimer, Reset, AddTimerReturn, Tick, AdjustClock, vars
<1>. DEFINE p == Head(pending).ptr
            id == <<p, Head(pending).seq>>
<1>4. CancelInLoop(id) /\ ~callingExpiredTimers
  BY <1>3, Zenon DEF RunPendingCancel
<1>5. CASE EraseActive(id)
  BY <1>5, Zenon DEF EraseActive
<1>6. CASE CancelNothing(id)
  <2>1. id \notin activeTimers /\ UNCHANGED <<allocated, heap>>
    BY <1>6, Zenon DEF CancelNothing
  <2>2. SUFFICES ASSUME p \in allocated, heap[p].seq = Head(pending).seq PROVE FALSE
    BY <2>1, Zenon
  <2>3. PICK i \in 1..Len(pending) : pending[i].op = "add" /\ pending[i].ptr = p
    BY <1>4, <2>1, <2>2, Zenon DEF PlacedInv
  <2>4. Head(pending) = pending[1] /\ 1 \in 1..Len(pending)
    BY <1>0, <1>1, TailAt, Zenon
  <2>5. i < 1
    BY <1>1, <2>2, <2>3, <2>4, Zenon DEF FifoInv
  <2>. QED
    BY <2>5
<1>. QED
  BY <1>4, <1>5, <1>6, Zenon DEF CancelInLoop, RememberCanceling

\* A cancel() of another thread finds its timer in the queue: when the loop has
\* run it, the timer is gone.
THEOREM QueuedCancelTaken == Spec => QueuedCancelEffective
<1>1. Init => IInv /\ PlacedInv /\ IssuedInv /\ FifoInv
  <2>1. Init => PlacedInv
    BY Zenon DEF Init, PlacedInv
  <2>2. Init => IssuedInv /\ FifoInv
    BY DEF Init, IssuedInv, FifoInv
  <2>. QED
    BY <2>1, <2>2, InitIInv, Zenon
<1>2. IInv /\ PlacedInv /\ IssuedInv /\ FifoInv /\ [Next]_vars =>
        IInv' /\ PlacedInv' /\ IssuedInv' /\ FifoInv'
  BY IInvStep, PlacedStep, IssuedStep, FifoStep, Zenon
<1>3. IInv /\ PlacedInv /\ FifoInv /\ [Next]_vars =>
        [(pending # <<>> /\ pending' = Tail(pending) /\ Head(pending).op = "cancel") =>
           ~(Head(pending).ptr \in allocated' /\ heap'[Head(pending).ptr].seq = Head(pending).seq)]_vars
  BY CancelTakenStep, Zenon DEF CancelTaken
<1>. QED
  BY <1>1, <1>2, <1>3, PTL DEF Spec, QueuedCancelEffective
-----------------------------------------------------------------------------
(* ArmedInTime *)

INSTANCE FiniteSetTheorems
INSTANCE WellFoundedInduction

\* A finite set of entries has an earliest one: timers_.begin() exists.
LEMMA EarliestExists ==
  ASSUME NEW S \in SUBSET Entry, IsFiniteSet(S), S # {}
  PROVE  \E entry \in S : IsEarliest(entry, S)
<1> DEFINE R == StrictSubsetOrdering(S)
           Bad == {U \in FiniteSubsetsOf(S) : U # {} /\ ~\E entry \in U : IsEarliest(entry, U)}
<1>1. IsWellFoundedOn(R, FiniteSubsetsOf(S))
  BY FS_StrictSubsetOrderingWellFounded, Zenon
<1>2. \A U, V \in FiniteSubsetsOf(S) : V \subseteq U /\ V # U => <<V, U>> \in R
  BY Zenon DEF StrictSubsetOrdering, FiniteSubsetsOf
<1>3. S \in FiniteSubsetsOf(S)
  BY Zenon DEF FiniteSubsetsOf
<1> HIDE DEF R
<1>4. SUFFICES ASSUME Bad # {} PROVE FALSE
  BY <1>3, Zenon
<1>5. PICK U \in Bad : \A V \in Bad : ~ (<<V, U>> \in R)
  <2>1. Bad \subseteq FiniteSubsetsOf(S)
    BY Zenon
  <2> HIDE DEF Bad
  <2> QED
    BY <1>1, <1>4, <2>1, WFMin, Zenon
<1>6. PICK x : x \in U
  BY <1>5, Zenon
<1> DEFINE V == U \ {x}
<1>7. IsFiniteSet(U) /\ U \subseteq Entry /\ IsFiniteSet(V) /\ U \subseteq S
  BY <1>5, FS_RemoveElement, Zenon DEF FiniteSubsetsOf
<1>8. V \in FiniteSubsetsOf(S) /\ <<V, U>> \in R
  BY <1>2, <1>5, <1>6, <1>7, Zenon DEF FiniteSubsetsOf
<1>9. V = {} \/ \E entry \in V : IsEarliest(entry, V)
  BY <1>5, <1>8, Zenon
<1>10. \A entry \in U : entry[1] \in Int
  BY <1>7, Zenon DEF Entry
<1>11. CASE V = {}
  <2>1. IsEarliest(x, U)
    BY <1>6, <1>10, <1>11 DEF IsEarliest
  <2> QED
    BY <1>5, <1>6, <2>1, Zenon
<1>12. ASSUME NEW y \in V, IsEarliest(y, V) PROVE FALSE
  <2>1. CASE x[1] <= y[1]
    <3>1. IsEarliest(x, U)
      BY <1>6, <1>10, <1>12, <2>1 DEF IsEarliest
    <3> QED
      BY <1>5, <1>6, <3>1, Zenon
  <2>2. CASE y[1] <= x[1]
    <3>1. IsEarliest(y, U)
      BY <1>6, <1>10, <1>12, <2>2, Zenon DEF IsEarliest
    <3> QED
      BY <1>5, <1>12, <3>1, Zenon
  <2> QED
    BY <1>6, <1>10, <2>1, <2>2
<1> QED
  BY <1>9, <1>11, <1>12, Zenon

\* The inductive invariant.  Between two handleRead() it is ArmedInTime.  In the
\* middle of one, only a timer that is already past when a callback adds it needs
\* the timerfd: reset() does not rearm for an expiration that is no valid time.
ArmInv ==
  /\ IsFiniteSet(timers) /\ IsFiniteSet(expired)
  /\ ArmedInTime
  /\ callingExpiredTimers => now >= 1
  /\ callingExpiredTimers /\ (\E entry \in timers : entry[1] <= 0) =>
       timerfd # Disarmed /\ timerfd <= MinDelay

\* The timerfd set for a time, and compared with another.
LEMMA ArmedFor ==
  ASSUME TypeOK, NEW when \in Int, NEW e \in Int
  PROVE  /\ ResetTimerfd(when) \in Nat /\ ResetTimerfd(when) # Disarmed
         /\ when <= e => ResetTimerfd(when) <= Later(e - clock, MinDelay)
         /\ when <= 0 => ResetTimerfd(when) <= MinDelay
BY ConstantsAssumption DEF TypeOK, ResetTimerfd, Later, Disarmed

\* addTimerInLoop() arms the timerfd for the new timer, or it was armed already.
LEMMA AddArms ==
  ASSUME TypeOK, ArmInv, NEW when \in Int, NEW p \in Ptr, NEW seq, AddTimerInLoop(p, seq, when),
         UNCHANGED <<clock, adjusted>>
  PROVE  ArmInv'
<1>1. /\ timers' = timers \cup {<<when, p>>}
      /\ timerfd' = IF EarliestChanged(when) THEN ResetTimerfd(when) ELSE timerfd
      /\ UNCHANGED <<callingExpiredTimers, expired, now, clock, adjusted>>
  BY Zenon DEF AddTimerInLoop
<1>2. timers \subseteq Entry /\ \A entry \in timers : entry[1] \in Int
  BY Zenon DEF TypeOK, Entry
<1>3. IsFiniteSet(timers')
  BY <1>1, FS_AddElement, Zenon DEF ArmInv
<1>4. timerfd \in Nat \cup {Disarmed} /\ clock \in Int /\ MinDelay \in Nat
  BY ConstantsAssumption DEF TypeOK
<1>5. CASE EarliestChanged(when)
  <2>1. timerfd' = ResetTimerfd(when)
    BY <1>1, <1>5, Zenon
  <2>2. \A entry \in timers' : entry[1] \in Int /\ when <= entry[1]
    BY <1>1, <1>2, <1>5 DEF EarliestChanged
  <2>3. timerfd' # Disarmed /\ \A entry \in timers' : timerfd' <= Later(entry[1] - clock, MinDelay)
    BY <2>1, <2>2, ArmedFor, Zenon
  <2>4. ASSUME NEW entry \in timers', entry[1] <= 0 PROVE timerfd' <= MinDelay
    <3>1. when <= 0
      BY <2>2, <2>4
    <3> QED
      BY <2>1, <3>1, ArmedFor, Zenon
  <2>5. ArmedInTime'
    BY <1>1, <2>3, Zenon DEF ArmedInTime
  <2> QED
    BY <1>1, <1>3, <2>3, <2>4, <2>5, Zenon DEF ArmInv
<1>6. CASE ~EarliestChanged(when)
  <2>1. timerfd' = timerfd
    BY <1>1, <1>6, Zenon
  <2>2. PICK first \in timers : first[1] <= when
    BY <1>2, <1>6 DEF EarliestChanged
  <2>3. ArmedInTime'
    <3> SUFFICES ASSUME ~callingExpiredTimers
                 PROVE  /\ timerfd # Disarmed
                        /\ adjusted = 0 =>
                             \A entry \in timers' : timerfd <= Later(entry[1] - clock, MinDelay)
      BY <1>1, <2>1, Zenon DEF ArmedInTime
    <3>1. timerfd # Disarmed /\ (adjusted = 0 =>
            \A entry \in timers : timerfd <= Later(entry[1] - clock, MinDelay))
      BY <2>2, Zenon DEF ArmInv, ArmedInTime
    <3>2. ASSUME adjusted = 0 PROVE timerfd <= Later(when - clock, MinDelay)
      <4>1. timerfd <= Later(first[1] - clock, MinDelay)
        BY <2>2, <3>1, <3>2, Zenon
      <4>2. first[1] \in Int
        BY <1>2, <2>2, Zenon
      <4> QED
        BY <1>4, <2>2, <4>1, <4>2 DEF Later, Disarmed
    <3> QED
      BY <1>1, <3>1, <3>2
  <2>4. ASSUME callingExpiredTimers, NEW entry \in timers', entry[1] <= 0
        PROVE  timerfd # Disarmed /\ timerfd <= MinDelay
    <3>1. \E other \in timers : other[1] <= 0
      BY <1>1, <1>2, <2>2, <2>4
    <3> QED
      BY <2>4, <3>1, Zenon DEF ArmInv
  <2> QED
    BY <1>1, <1>3, <2>1, <2>3, <2>4, Zenon DEF ArmInv
<1> QED
  BY <1>5, <1>6, Zenon

\* A step that leaves the timerfd and the clock alone and adds no timer.
LEMMA FewerArmed ==
  ASSUME ArmInv, timers' \subseteq timers,
         UNCHANGED <<callingExpiredTimers, expired, now, timerfd, clock, adjusted>>
  PROVE  ArmInv'
<1>1. IsFiniteSet(timers')
  BY FS_Subset, Zenon DEF ArmInv
<1>2. ArmedInTime'
  BY Zenon DEF ArmInv, ArmedInTime
<1> QED
  BY <1>1, <1>2, Zenon DEF ArmInv

\* handleRead() leaves only timers that are due after now, which is a valid time.
LEMMA HandleReadArmed ==
  ASSUME TypeOK, ArmInv, HandleRead
  PROVE  ArmInv'
<1>1. /\ expired' = {entry \in timers : entry[1] <= clock} /\ timers' = timers \ expired'
      /\ now' = clock /\ callingExpiredTimers'
  BY Zenon DEF HandleRead
<1>2. clock \in Int /\ clock >= 1 /\ \A entry \in timers : entry[1] \in Int
  BY ConstantsAssumption DEF TypeOK, Entry
<1>3. IsFiniteSet(expired') /\ IsFiniteSet(timers')
  BY <1>1, FS_Subset, Zenon DEF ArmInv
<1>4. \A entry \in timers' : ~(entry[1] <= 0)
  BY <1>1, <1>2
<1> QED
  BY <1>1, <1>2, <1>3, <1>4, Zenon DEF ArmInv, ArmedInTime

\* reset() arms the timerfd for the earliest timer, unless that one was past when
\* it was added, which armed it.
LEMMA ResetArms ==
  ASSUME TypeOK, ArmInv, Reset
  PROVE  ArmInv'
<1>1. /\ callingExpiredTimers /\ ~callingExpiredTimers' /\ expired' = {}
      /\ timers' = timers \cup RestartedEntries /\ Rearm /\ UNCHANGED <<clock, adjusted>>
  BY Zenon DEF Reset, timeVars
<1>2. now \in Int /\ now >= 1 /\ \A p \in Ptr : heap[p].interval \in Nat
  BY <1>1, Zenon DEF TypeOK, ArmInv, Timer
<1>3. \A p \in Restarted : p \in Ptr
  BY Zenon DEF Restarted, TypeOK, Entry
<1>4. \A entry \in RestartedEntries : entry \in Entry /\ entry[1] >= 1
  BY <1>2, <1>3 DEF RestartedEntries, NextExpiration, Entry
<1>5. timers' \subseteq Entry
  BY <1>1, <1>4, Zenon DEF TypeOK
<1>6. IsFiniteSet(RestartedEntries)
  <2> DEFINE E == {entry \in expired : entry[2] \in Restarted}
             f == [entry \in E |-> <<NextExpiration(entry[2]), entry[2]>>]
  <2>1. IsFiniteSet(E)
    BY FS_Subset, Zenon DEF ArmInv
  <2>2. \A p \in Restarted : \E entry \in E : entry[2] = p
    BY Zenon DEF Restarted
  <2>3. f \in [E -> RestartedEntries]
    BY Zenon DEF RestartedEntries
  <2>4. \A x \in RestartedEntries : \E entry \in E : f[entry] = x
    BY <2>2 DEF RestartedEntries
  <2>5. f \in Surjection(E, RestartedEntries)
    BY <2>3, <2>4, Zenon DEF Surjection
  <2> QED
    BY <2>1, <2>5, FS_Surjection, Zenon
<1>7. IsFiniteSet(timers') /\ IsFiniteSet(expired')
  BY <1>1, <1>6, FS_Union, FS_EmptySet, Zenon DEF ArmInv
<1>8. ASSUME timers' # {}
      PROVE  /\ timerfd' # Disarmed
             /\ \A entry \in timers' : timerfd' <= Later(entry[1] - clock, MinDelay)
  <2>1. PICK first \in timers' : IsEarliest(first, timers')
    BY <1>5, <1>7, <1>8, EarliestExists, Zenon
  <2>2. \A entry \in timers' : entry[1] \in Int
    BY <1>5, Zenon DEF Entry
  <2>3. CASE \E entry \in timers' :
               IsEarliest(entry, timers') /\ entry[1] > 0 /\ timerfd' = ResetTimerfd(entry[1])
    <3>1. PICK entry \in timers' : IsEarliest(entry, timers') /\ timerfd' = ResetTimerfd(entry[1])
      BY <2>3, Zenon
    <3>2. \A other \in timers' : entry[1] <= other[1]
      BY <3>1, Zenon DEF IsEarliest
    <3> QED
      BY <2>2, <3>1, <3>2, ArmedFor, Zenon
  <2>4. CASE (\A entry \in timers' : IsEarliest(entry, timers') => entry[1] <= 0) /\ timerfd' = timerfd
    <3>1. first[1] <= 0 /\ first \in timers
      BY <1>1, <1>4, <2>1, <2>2, <2>4
    <3>2. timerfd # Disarmed /\ timerfd <= MinDelay
      BY <1>1, <3>1, Zenon DEF ArmInv
    <3>3. timerfd \in Nat /\ MinDelay \in Nat /\ clock \in Int
      BY <3>2, ConstantsAssumption DEF TypeOK
    <3> QED
      BY <2>2, <2>4, <3>2, <3>3 DEF Later
  <2> QED
    BY <1>1, <2>3, <2>4, Zenon DEF Rearm
<1> QED
  BY <1>1, <1>7, <1>8, Zenon DEF ArmInv, ArmedInTime

\* Later() runs down no faster than the clock.
LEMMA LaterCloser ==
  ASSUME NEW fd \in Nat, NEW left \in Nat, NEW e \in Int, NEW k \in Int, NEW l \in Int, NEW m \in Nat,
         l = k \/ l = k + 1, left = fd - 1 \/ left = 0, fd <= Later(e - k, m)
  PROVE  left <= Later(e - l, m)
BY DEF Later

\* The timerfd runs down no slower than the clock comes closer.
LEMMA TickArmed ==
  ASSUME TypeOK, ArmInv, Tick
  PROVE  ArmInv'
<1>1. /\ timerfd' = IF timerfd > 0 THEN timerfd - 1 ELSE timerfd
      /\ clock' = IF clock < MaxTime THEN clock + 1 ELSE clock
      /\ UNCHANGED <<timers, expired, callingExpiredTimers, now, adjusted>>
  BY Zenon DEF Tick, queueVars
<1>2. /\ clock \in Int /\ timerfd \in Nat \cup {Disarmed} /\ MinDelay \in Nat \ {0}
      /\ \A entry \in timers : entry[1] \in Int
  BY ConstantsAssumption DEF TypeOK, Entry
<1>3. /\ timerfd # Disarmed => timerfd' # Disarmed /\ timerfd' <= timerfd /\ timerfd \in Nat /\ timerfd' \in Nat
      /\ clock' \in {clock, clock + 1} /\ (timerfd' = timerfd => timerfd \in {0, Disarmed})
      /\ timerfd' \in {timerfd, timerfd - 1}
  BY <1>1, <1>2 DEF Disarmed
<1>4. ASSUME NEW e \in Int, timerfd # Disarmed, timerfd <= Later(e - clock, MinDelay)
      PROVE  timerfd' <= Later(e - clock', MinDelay)
  <2>1. timerfd' = timerfd - 1 \/ timerfd' = 0
    BY <1>3, <1>4, Zenon
  <2>2. /\ timerfd \in Nat /\ timerfd' \in Nat /\ clock \in Int /\ clock' \in Int /\ MinDelay \in Nat
        /\ clock' = clock \/ clock' = clock + 1
    BY <1>2, <1>3, <1>4
  <2> QED
    BY <1>4, <2>1, <2>2, LaterCloser, Zenon
<1>5. ArmedInTime'
  BY <1>1, <1>2, <1>3, <1>4, Zenon DEF ArmInv, ArmedInTime
<1>6. timerfd # Disarmed /\ timerfd <= MinDelay => timerfd' # Disarmed /\ timerfd' <= MinDelay
  BY <1>2, <1>3
<1> QED
  BY <1>1, <1>5, <1>6, Zenon DEF ArmInv

\* Every step keeps the timerfd armed in time.
LEMMA ArmStep ==
  ASSUME IInv, ArmInv, [Next]_vars
  PROVE  ArmInv'
<1>0. TypeOK
  BY Zenon DEF IInv
<1>1. ASSUME NEW p \in Ptr, NEW d \in Delays, NEW i \in Intervals, AddTimerFromLoop(p, clock + d, i)
      PROVE  ArmInv'
  <2>1. clock + d \in Int /\ AddTimerInLoop(p, numCreated + 1, clock + d) /\ UNCHANGED <<clock, adjusted>>
    BY <1>0, <1>1, ConstantsAssumption DEF AddTimerFromLoop, TypeOK
  <2> QED
    BY <1>0, <2>1, AddArms, Zenon
<1>2. CASE RunPendingAdd
  <2> DEFINE p == Head(pending).ptr
  <2>1. p \in Ptr /\ heap[p].expiration \in Int
    BY <1>0, <1>2, HeadType, Zenon DEF RunPendingAdd, TypeOK, Timer
  <2>2. AddTimerInLoop(p, heap[p].seq, heap[p].expiration) /\ UNCHANGED <<clock, adjusted>>
    BY <1>2, Zenon DEF RunPendingAdd, timeVars
  <2> HIDE DEF p
  <2> QED
    BY <1>0, <2>1, <2>2, AddArms, Zenon
<1>3. ASSUME NEW id, CancelInLoop(id), UNCHANGED <<clock, adjusted>> PROVE ArmInv'
  <2>1. timers' \subseteq timers /\ UNCHANGED <<callingExpiredTimers, expired, now, timerfd>>
    BY <1>3, Zenon DEF CancelInLoop, EraseActive, RememberCanceling, CancelNothing
  <2> QED
    BY <1>3, <2>1, FewerArmed, Zenon
<1>4. CASE RunPendingCancel
  BY <1>3, <1>4, Zenon DEF RunPendingCancel
<1>5. CASE HandleRead
  BY <1>0, <1>5, HandleReadArmed, Zenon
<1>6. ASSUME NEW entry \in torun, RunTimer(entry) PROVE ArmInv'
  BY <1>6, FewerArmed, Zenon DEF RunTimer, timeVars
<1>7. CASE Reset
  BY <1>0, <1>7, ResetArms, Zenon
<1>8. ASSUME NEW t \in Thread, NEW p \in Ptr, NEW d \in Delays, NEW i \in Intervals,
             AddTimerFromThread(t, p, clock + d, i)
      PROVE  ArmInv'
  BY <1>8, FewerArmed, Zenon DEF AddTimerFromThread, queueVars, timeVars
<1>9. ASSUME NEW t \in Thread, AddTimerReturn(t) PROVE ArmInv'
  BY <1>9, FewerArmed, Zenon DEF AddTimerReturn, queueVars, timeVars
<1>10. ASSUME NEW id \in issued, CancelFromLoop(id) PROVE ArmInv'
  BY <1>3, <1>10, Zenon DEF CancelFromLoop
<1>11. ASSUME NEW id \in issued, CancelFromThread(id) PROVE ArmInv'
  BY <1>11, FewerArmed, Zenon DEF CancelFromThread, queueVars, timeVars
<1>12. CASE Tick
  BY <1>0, <1>12, TickArmed, Zenon
<1>13. ASSUME NEW c \in 1..MaxTime, AdjustClock(c) PROVE ArmInv'
  <2>1. adjusted' # 0 /\ UNCHANGED <<timers, expired, callingExpiredTimers, now, timerfd>>
    BY <1>0, <1>13 DEF AdjustClock, queueVars, TypeOK
  <2> QED
    BY <2>1, Zenon DEF ArmInv, ArmedInTime
<1>14. CASE UNCHANGED vars
  BY <1>14, FewerArmed, Zenon DEF vars
<1> QED
  BY <1>1, <1>2, <1>4, <1>5, <1>6, <1>7, <1>8, <1>9, <1>10, <1>11, <1>12, <1>13, <1>14, Zenon
  DEF Next, LoopStep, UserStep

\* Whenever handleRead() is not running and a timer is queued, the timerfd runs,
\* and as long as the wall clock has not been set it goes off no later than the
\* earliest timer is due: no timer is forgotten, whatever the callbacks add and
\* cancel (ArmedInTime).
THEOREM TimerfdArmed == Spec => []ArmedInTime
<1>1. Init => IInv /\ ArmInv
  BY InitIInv, FS_EmptySet, Zenon DEF Init, ArmInv, ArmedInTime
<1>2. IInv /\ ArmInv /\ [Next]_vars => IInv' /\ ArmInv'
  BY IInvStep, ArmStep, Zenon
<1>3. IInv /\ ArmInv => ArmedInTime
  BY Zenon DEF ArmInv
<1>. QED
  BY <1>1, <1>2, <1>3, PTL DEF Spec
=============================================================================
