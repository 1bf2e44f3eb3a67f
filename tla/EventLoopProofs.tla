-------------------------- MODULE EventLoopProofs ---------------------------
(***************************************************************************)
(* An EventLoop in its thread loses no wakeup, handles no removed channel  *)
(* and implements TaskQueue, for any channels, threads and number of       *)
(* functors.  The Buffer of a connection that such a loop serves           *)
(* implements ByteQueue and none of its asserts fails, for any bytes and   *)
(* sizes.  The asserts of the other thread of a program, the one of        *)
(* AsyncLogging, hold for any number of lines, as long as at least two     *)
(* buffers are kept when too many have piled up.                           *)
(***************************************************************************)
EXTENDS EventLoopThread, Buffer, AsyncLogging, SequenceTheorems, TLAPS

-----------------------------------------------------------------------------
(* Two facts about concatenation *)

\* What is put at the end of the second part is at the end of the whole.
LEMMA AppendConcat ==
  ASSUME NEW S, NEW s \in Seq(S), NEW t \in Seq(S), NEW x \in S
  PROVE  s \o Append(t, x) = Append(s \o t, x)
<1>1. Append(t, x) = t \o <<x>> /\ <<x>> \in Seq(S)
  BY AppendIsConcat
<1>2. s \o t \in Seq(S)
  BY ConcatProperties, Zenon
<1>3. Append(s \o t, x) = (s \o t) \o <<x>>
  BY <1>2, AppendIsConcat, Zenon
<1>4. (s \o t) \o <<x>> = s \o (t \o <<x>>)
  BY <1>1, ConcatAssociative
<1> QED
  BY <1>1, <1>3, <1>4, Zenon

\* What is taken from the first part is taken from the whole.
LEMMA TailConcat ==
  ASSUME NEW S, NEW s \in Seq(S), NEW t \in Seq(S), s # <<>>
  PROVE  s \o t # <<>> /\ Head(s \o t) = Head(s) /\ Tail(s \o t) = Tail(s) \o t
<1>1. Len(s) \in Nat \ {0} /\ Len(t) \in Nat
  BY EmptySeq, LenProperties, Zenon
<1>2. /\ s \o t \in Seq(S) /\ Len(s \o t) = Len(s) + Len(t)
      /\ \A i \in 1 .. Len(s) + Len(t) : (s \o t)[i] = IF i <= Len(s) THEN s[i] ELSE t[i - Len(s)]
  BY ConcatProperties, Zenon
<1>3. s \o t # <<>>
  BY ConcatEqualIffEmpty
<1>4. /\ Tail(s) \in Seq(S) /\ Len(Tail(s)) = Len(s) - 1
      /\ \A i \in 1 .. Len(s) - 1 : Tail(s)[i] = s[i + 1]
  BY HeadTailProperties, Zenon
<1>5. /\ Tail(s \o t) \in Seq(S) /\ Len(Tail(s \o t)) = Len(s) + Len(t) - 1
      /\ \A i \in 1 .. Len(s) + Len(t) - 1 : Tail(s \o t)[i] = (s \o t)[i + 1]
  BY <1>2, <1>3, HeadTailProperties
<1>6. /\ Tail(s) \o t \in Seq(S) /\ Len(Tail(s) \o t) = Len(s) - 1 + Len(t)
      /\ \A i \in 1 .. Len(s) - 1 + Len(t) :
           (Tail(s) \o t)[i] = IF i <= Len(s) - 1 THEN Tail(s)[i] ELSE t[i - (Len(s) - 1)]
  BY <1>4, ConcatProperties
<1>7. ASSUME NEW i \in 1 .. Len(s) + Len(t) - 1
      PROVE  Tail(s \o t)[i] = (Tail(s) \o t)[i]
  <2>1. /\ i \in 1 .. Len(s) - 1 + Len(t) /\ i + 1 \in 1 .. Len(s) + Len(t)
        /\ i <= Len(s) - 1 <=> i + 1 <= Len(s)
        /\ i - (Len(s) - 1) = i + 1 - Len(s)
        /\ i <= Len(s) - 1 => i \in 1 .. Len(s) - 1
    BY <1>1
  <2> QED
    BY <1>2, <1>4, <1>5, <1>6, <2>1
<1>8. Tail(s \o t) = Tail(s) \o t
  <2>1. Len(s) + Len(t) - 1 = Len(s) - 1 + Len(t)
    BY <1>1
  <2> QED
    BY <1>5, <1>6, <1>7, <2>1, SeqEqual, Zenon
<1>9. Head(s \o t) = Head(s)
  <2>1. 1 \in 1 .. Len(s) + Len(t) /\ 1 <= Len(s)
    BY <1>1
  <2> QED
    BY <1>2, <2>1
<1> QED
  BY <1>3, <1>8, <1>9, Zenon
-----------------------------------------------------------------------------
(* The invariant *)

LoopTypes ==
  /\ pc \in {"ready", "check", "poll", "events", "swap", "functors", "stopped", "aborted"}
  /\ registered \subseteq UserChannel
  /\ pendingFunctors \in Seq(Functor) /\ functors \in Seq(Functor) /\ executed \in Seq(Functor)
  /\ threadPc \in [Thread -> {"idle", "wakeup"}]

\* What the loop thread is doing where: functors run, and are swapped out, in
\* doPendingFunctors() only, with callingPendingFunctors_ set; channels are
\* handled before it, one at a time, and they are active ones: the assert of
\* removeChannel() speaks of those.
PlaceInv ==
  /\ inFunctor => pc = "functors"
  /\ pc \in {"swap", "functors"} => calling = TRUE
  /\ functors # <<>> => pc = "functors"
  /\ current # NoChannel => pc \in {"events", "aborted"} /\ current \notin todo
  /\ todo # {} => pc \in {"events", "aborted"} /\ todo \subseteq activeChannels

\* A functor that may be waited for.
Urgent(q) == \E i \in 1 .. Len(q) : ~ q[i].early

Notified == wakeupFd = 1 \/ \E t \in Thread : threadPc[t] = "wakeup"

\* From the swap to the next poll() a functor in pendingFunctors_ has its wakeup;
\* between poll() and the swap it needs none, because the swap takes it.
WakeInv == pc \in {"ready", "check", "poll", "functors"} /\ Urgent(pendingFunctors) => Notified

LoopInv == LoopTypes /\ PlaceInv /\ WakeInv /\ NoStaleDispatch

LEMMA LoopInit == Init => LoopInv
<1> SUFFICES ASSUME Init PROVE LoopInv
  BY Zenon
<1>1. <<>> \in Seq(Functor) /\ ~ Urgent(<<>>)
  BY EmptySeq DEF Urgent
<1> QED
  BY <1>1, Zenon DEF Init, LoopInv, LoopTypes, PlaceInv, WakeInv, NoStaleDispatch

\* An urgent functor after a push was urgent before, or is the one pushed.
LEMMA UrgentAppend ==
  ASSUME NEW q \in Seq(Functor), NEW x \in Functor, Urgent(Append(q, x))
  PROVE  Urgent(q) \/ ~ x.early
<1>1. Len(q) \in Nat
  BY LenProperties, Zenon
<1>2. PICK i \in 1 .. Len(q) + 1 : ~ Append(q, x)[i].early
  BY AppendProperties DEF Urgent
<1>3. CASE i = Len(q) + 1
  BY <1>2, <1>3, AppendProperties
<1>4. CASE i \in 1 .. Len(q)
  BY <1>2, <1>4, AppendProperties DEF Urgent
<1> QED
  BY <1>1, <1>3, <1>4

\* What Push() puts into pendingFunctors_.
LEMMA PushAppends ==
  ASSUME LoopTypes, NEW early \in BOOLEAN, Push(early)
  PROVE  \E x \in Functor : x.early = early /\ pendingFunctors' = Append(pendingFunctors, x)
<1> DEFINE x == [id |-> Queued + 1, early |-> early]
<1>1. Queued \in Nat /\ Queued < MaxFunctors
  BY LenProperties DEF LoopTypes, Push, Queued
<1>2. Queued + 1 \in 1 .. MaxFunctors
  BY <1>1, EventLoopAssumption
<1>3. x \in Functor /\ x.early = early
  BY <1>2, Zenon DEF Functor
<1>4. pendingFunctors' = Append(pendingFunctors, x)
  BY Zenon DEF Push
<1> QED
  BY <1>3, <1>4, Zenon
-----------------------------------------------------------------------------
(* The steps *)

\* The swap takes all functors, so that none waits for a wakeup after it.
LEMMA SwapInv == ASSUME LoopInv, Swap PROVE LoopInv'
<1>1. <<>> \in Seq(Functor) /\ ~ Urgent(<<>>)
  BY EmptySeq DEF Urgent
<1> QED
  BY <1>1, Zenon DEF LoopInv, Swap, LoopTypes, PlaceInv, WakeInv, NoStaleDispatch, Urgent

\* The steps of loop() keep the invariant.  The eventfd is cleared by a handler,
\* before the swap; the swap leaves no functor behind.
LEMMA LoopStepInv == ASSUME LoopInv, LoopStep PROVE LoopInv'
<1> USE DEF LoopInv
<1>1. CASE Loop
  BY <1>1, Zenon DEF Loop, LoopTypes, PlaceInv, WakeInv, Notified, NoStaleDispatch
<1>2. CASE CheckQuit
  BY <1>2, Zenon DEF CheckQuit, LoopTypes, PlaceInv, WakeInv, Notified, NoStaleDispatch
<1>3. CASE PollReturn
  BY <1>3, Zenon DEF PollReturn, Polled, LoopTypes, PlaceInv, WakeInv, Notified, NoStaleDispatch
<1>4. ASSUME NEW channel \in todo, HandleEvent(channel) PROVE LoopInv'
  <2>1. LoopTypes' /\ NoStaleDispatch'
    BY <1>4, Zenon DEF HandleEvent, LoopTypes, NoStaleDispatch
  <2>2. PlaceInv'
    BY <1>4, Zenon DEF HandleEvent, PlaceInv
  <2>3. WakeInv'
    BY <1>4, Zenon DEF HandleEvent, WakeInv
  <2> QED
    BY <2>1, <2>2, <2>3, Zenon
<1>5. CASE EventHandled
  BY <1>5, Zenon DEF EventHandled, LoopTypes, PlaceInv, WakeInv, Notified, NoStaleDispatch
<1>6. CASE StartPendingFunctors
  BY <1>6, Zenon DEF StartPendingFunctors, LoopTypes, PlaceInv, WakeInv, Notified, NoStaleDispatch
<1>7. CASE Swap
  BY <1>7, SwapInv, Zenon
<1>8. CASE RunFunctor
  <2>2. LoopTypes' /\ NoStaleDispatch'
    <3>1. Tail(functors) \in Seq(Functor) /\ Append(executed, Head(functors)) \in Seq(Functor)
      BY <1>8, HeadTailProperties, AppendProperties, Zenon DEF RunFunctor, LoopTypes
    <3> QED
      BY <1>8, <3>1, Zenon DEF RunFunctor, LoopTypes, NoStaleDispatch
  <2>3. PlaceInv' /\ WakeInv'
    BY <1>8, Zenon DEF RunFunctor, PlaceInv, WakeInv, Notified
  <2> QED
    BY <2>2, <2>3, Zenon
<1>9. CASE FunctorReturns
  BY <1>9, Zenon DEF FunctorReturns, LoopTypes, PlaceInv, WakeInv, Notified, NoStaleDispatch
<1>10. CASE PendingFunctorsDone
  BY <1>10, Zenon DEF PendingFunctorsDone, LoopTypes, PlaceInv, WakeInv, Notified, NoStaleDispatch
<1> QED
  BY <1>1, <1>2, <1>3, <1>4, <1>5, <1>6, <1>7, <1>8, <1>9, <1>10, Zenon DEF LoopStep

LEMMA PollTimeoutInv == ASSUME LoopInv, PollTimeout PROVE LoopInv'
BY Zenon DEF LoopInv, PollTimeout, LoopTypes, PlaceInv, WakeInv, Notified, NoStaleDispatch

\* User code on the loop thread: what it queues while functors run comes with a
\* wakeup, what it queues in a handler is before the swap, and a channel that it may
\* remove is not one that loop() has still to handle.
LEMMA UserCodeInv == ASSUME LoopInv, UserCode PROVE LoopInv'
<1> USE DEF LoopInv
<1>1. CASE QueueInLoop
  <2>1. PICK x \in Functor : x.early = (pc = "ready") /\ pendingFunctors' = Append(pendingFunctors, x)
    BY <1>1, PushAppends, Zenon DEF QueueInLoop
  <2>2. LoopTypes'
    BY <1>1, <2>1, AppendProperties, Zenon DEF QueueInLoop, LoopTypes
  <2>3. PlaceInv' /\ NoStaleDispatch'
    BY <1>1, Zenon DEF QueueInLoop, PlaceInv, NoStaleDispatch
  <2>4. WakeInv'
    <3> SUFFICES ASSUME pc \in {"ready", "check", "poll", "functors"}, Urgent(pendingFunctors)'
                 PROVE  Notified'
      BY <1>1, Zenon DEF QueueInLoop, WakeInv
    <3>1. Urgent(pendingFunctors) \/ ~ x.early
      BY <2>1, UrgentAppend, Zenon DEF LoopTypes, Urgent
    <3>2. CASE Urgent(pendingFunctors)
      BY <1>1, <3>2, Zenon DEF QueueInLoop, WakeInv, Notified
    <3>3. CASE ~ x.early
      <4>1. pc = "functors" /\ calling = TRUE
        BY <1>1, <2>1, <3>3, EventLoopAssumption, Zenon DEF QueueInLoop, InUserCode, PlaceInv
      <4> QED
        BY <1>1, <4>1, Zenon DEF QueueInLoop, Notified
    <3> QED
      BY <3>1, <3>2, <3>3, Zenon
  <2> QED
    BY <2>2, <2>3, <2>4, Zenon
<1>2. CASE QuitInLoop
  BY <1>2, Zenon DEF QuitInLoop, LoopTypes, PlaceInv, WakeInv, Notified, NoStaleDispatch
<1>3. ASSUME NEW channel \in registered, RemoveChannel(channel) PROVE LoopInv'
  <2>1. CASE MayRemove(channel)
    <3>1. LoopTypes' /\ PlaceInv' /\ WakeInv'
      BY <1>3, <2>1, Zenon DEF RemoveChannel, LoopTypes, PlaceInv, WakeInv, Notified
    <3>2. channel \notin todo
      <4>1. CASE pc = "events"
        BY <2>1, <4>1, EventLoopAssumption, Zenon DEF MayRemove, PlaceInv, LoopTypes
      <4>2. CASE pc # "events"
        BY <1>3, <4>2, Zenon DEF RemoveChannel, InUserCode, PlaceInv
      <4> QED
        BY <4>1, <4>2, Zenon
    <3>3. NoStaleDispatch'
      BY <1>3, <2>1, <3>2, Zenon DEF RemoveChannel, NoStaleDispatch
    <3> QED
      BY <3>1, <3>3, Zenon
  <2>2. CASE ~ MayRemove(channel)
    <3>1. pc = "events" /\ pc' = "aborted"
      BY <1>3, <2>2, Zenon DEF RemoveChannel, MayRemove
    <3> QED
      BY <1>3, <2>2, <3>1, Zenon DEF RemoveChannel, LoopTypes, PlaceInv, WakeInv, NoStaleDispatch
  <2> QED
    BY <2>1, <2>2, Zenon
<1> QED
  BY <1>1, <1>2, <1>3, Zenon DEF UserCode

\* Another thread is notified by itself until it has called wakeup(), and by the
\* eventfd from then on.
LEMMA ThreadStepInv == ASSUME LoopInv, NEW t \in Thread, ThreadStep(t) PROVE LoopInv'
<1> USE DEF LoopInv
<1>1. CASE QueueFromThread(t)
  <2>1. PICK x \in Functor : pendingFunctors' = Append(pendingFunctors, x)
    BY <1>1, PushAppends, Zenon DEF QueueFromThread
  <2>2. LoopTypes'
    BY <1>1, <2>1, AppendProperties, Zenon DEF QueueFromThread, LoopTypes
  <2>3. PlaceInv' /\ NoStaleDispatch'
    BY <1>1, Zenon DEF QueueFromThread, PlaceInv, NoStaleDispatch
  <2>4. WakeInv'
    BY <1>1, Zenon DEF QueueFromThread, WakeInv, Notified, LoopTypes
  <2> QED
    BY <2>2, <2>3, <2>4, Zenon
<1>2. CASE QuitFromThread(t)
  <2>1. LoopTypes' /\ PlaceInv' /\ NoStaleDispatch'
    BY <1>2, Zenon DEF QuitFromThread, LoopTypes, PlaceInv, NoStaleDispatch
  <2>2. WakeInv'
    BY <1>2, Zenon DEF QuitFromThread, WakeInv, Notified, LoopTypes
  <2> QED
    BY <2>1, <2>2, Zenon
<1>3. CASE Wakeup(t)
  <2>1. LoopTypes' /\ PlaceInv' /\ NoStaleDispatch'
    BY <1>3, Zenon DEF Wakeup, LoopTypes, PlaceInv, NoStaleDispatch
  <2>2. WakeInv'
    BY <1>3, Zenon DEF Wakeup, WakeInv, Notified
  <2> QED
    BY <2>1, <2>2, Zenon
<1> QED
  BY <1>1, <1>2, <1>3, Zenon DEF ThreadStep

\* An event of the kernel, the quit() of the destructor and a step of the owner
\* that leaves the loop alone.
LEMMA OtherStepsInv ==
  ASSUME LoopInv, \/ \E channel \in UserChannel : EventArrives(channel)
                  \/ DestructorQuit \/ DestructorWakeup
                  \/ UNCHANGED loopVars
  PROVE  LoopInv'
<1> USE DEF LoopInv
<1>1. CASE \E channel \in UserChannel : EventArrives(channel)
  BY <1>1 DEF EventArrives, LoopTypes, PlaceInv, WakeInv, Notified, NoStaleDispatch
<1>2. CASE DestructorQuit
  BY <1>2, Zenon DEF DestructorQuit, LoopTypes, PlaceInv, WakeInv, Notified, NoStaleDispatch
<1>3. CASE DestructorWakeup
  BY <1>3, Zenon DEF DestructorWakeup, LoopTypes, PlaceInv, WakeInv, Notified, NoStaleDispatch
<1>4. CASE UNCHANGED loopVars
  BY <1>4, Zenon DEF loopVars, LoopTypes, PlaceInv, WakeInv, Notified, NoStaleDispatch
<1> QED
  BY <1>1, <1>2, <1>3, <1>4, Zenon
-----------------------------------------------------------------------------
(* The theorems *)

\* Every step of the loop in its thread is one of the loop, or leaves the queue
\* of functors alone.
LEMMA ThreadNextCases ==
  ASSUME [ThreadNext]_threadVars
  PROVE  \/ LoopStep \/ PollTimeout \/ UserCode
         \/ \E t \in Thread : ThreadStep(t)
         \/ \E channel \in UserChannel : EventArrives(channel)
         \/ DestructorQuit \/ DestructorWakeup
         \/ UNCHANGED loopVars
BY Zenon DEF ThreadNext, threadVars, StartThread, SpuriousWakeup, OwnerStep, CheckLoop, Join, Callback,
       ThreadFunc, Publish, RunLoop, Exit, RunLoopTimeout, OtherThread, ThreadStep

LEMMA LoopInvariant == ThreadSpec => []LoopInv
<1>1. ThreadInit => LoopInv
  BY LoopInit, Zenon DEF ThreadInit
<1>2. LoopInv /\ [ThreadNext]_threadVars => LoopInv'
  BY ThreadNextCases, LoopStepInv, PollTimeoutInv, UserCodeInv, ThreadStepInv, OtherStepsInv, Zenon
<1> QED
  BY <1>1, <1>2, PTL DEF ThreadSpec

\* doPendingFunctors(), queueInLoop() and wakeup(): the loop never waits in poll()
\* with a functor that nobody wakes it for.
THEOREM NoWakeupIsLost == ThreadSpec => []NoLostWakeup
<1>1. LoopInv => NoLostWakeup
  BY Zenon DEF LoopInv, WakeInv, Urgent, Notified, NoLostWakeup
<1> QED
  BY <1>1, LoopInvariant, PTL

\* loop() and removeChannel(): whatever channel a handler or a functor removes, its own
\* or another's, the assert ends the program before loop() could handle one that was
\* removed.
THEOREM NoRemovedIsHandled == ThreadSpec => []NoStaleDispatch
<1>1. LoopInv => NoStaleDispatch
  BY Zenon DEF LoopInv
<1> QED
  BY <1>1, LoopInvariant, PTL

\* A push is a Put of TaskQueue.
LEMMA PushPuts ==
  ASSUME LoopTypes, NEW x \in Functor, pendingFunctors' = Append(pendingFunctors, x),
         UNCHANGED <<functors, executed>>
  PROVE  Tasks!Next
<1>1. (functors \o pendingFunctors)' = Append(functors \o pendingFunctors, x)
  BY AppendConcat DEF LoopTypes
<1> QED
  BY <1>1, Zenon DEF Tasks!Next, Tasks!Put

LEMMA LoopStepTakes == ASSUME LoopInv, LoopStep PROVE [Tasks!Next]_Tasks!queueVars
<1> USE DEF LoopInv
<1>1. CASE Swap
  <2>1. functors = <<>>
    BY <1>1, Zenon DEF Swap, PlaceInv
  <2>2. functors \o pendingFunctors = pendingFunctors /\ pendingFunctors \o <<>> = pendingFunctors
    BY <2>1, ConcatEmptySeq, Zenon DEF LoopTypes
  <2>3. (functors \o pendingFunctors)' = pendingFunctors
    BY <1>1, <2>2, Zenon DEF Swap
  <2> QED
    BY <1>1, <2>2, <2>3, Zenon DEF Swap, Tasks!queueVars
<1>2. CASE RunFunctor
  <2>1. /\ functors \o pendingFunctors # <<>>
        /\ Head(functors \o pendingFunctors) = Head(functors)
        /\ Tail(functors \o pendingFunctors) = Tail(functors) \o pendingFunctors
    BY <1>2, TailConcat, Zenon DEF RunFunctor, LoopTypes
  <2>2. (functors \o pendingFunctors)' = Tail(functors) \o pendingFunctors
    BY <1>2, Zenon DEF RunFunctor
  <2> QED
    BY <1>2, <2>1, <2>2, Zenon DEF RunFunctor, Tasks!Next, Tasks!Take
<1>3. CASE UNCHANGED <<functors, pendingFunctors, executed>>
  BY <1>3, Zenon DEF Tasks!queueVars
<1> QED
  BY <1>1, <1>2, <1>3, Zenon DEF LoopStep, Loop, CheckQuit, PollReturn, HandleEvent, EventHandled,
     StartPendingFunctors, FunctorReturns, PendingFunctorsDone

\* queueInLoop(), from any thread, and doPendingFunctors(): every functor runs at most
\* once, in the order of the calls, also while others are queued: the loop in its
\* thread implements TaskQueue.
THEOREM FunctorsKeepOrder == ThreadSpec => FunctorsInOrder
<1>1. ThreadInit => Tasks!Init
  <2> SUFFICES ASSUME ThreadInit PROVE Tasks!Init
    BY Zenon
  <2>1. functors = <<>> /\ pendingFunctors = <<>> /\ executed = <<>>
    BY Zenon DEF ThreadInit, Init
  <2>2. functors \o pendingFunctors = <<>>
    BY <2>1, ConcatEmptySeq, EmptySeq, Zenon
  <2> QED
    BY <2>1, <2>2, Zenon DEF Tasks!Init
<1>2. LoopInv /\ [ThreadNext]_threadVars => [Tasks!Next]_Tasks!queueVars
  <2> SUFFICES ASSUME LoopInv, [ThreadNext]_threadVars PROVE [Tasks!Next]_Tasks!queueVars
    BY Zenon
  <2>1. CASE LoopStep
    BY <2>1, LoopStepTakes, Zenon
  <2>2. ASSUME QueueInLoop PROVE Tasks!Next
    <3>1. PICK x \in Functor : pendingFunctors' = Append(pendingFunctors, x)
      BY <2>2, PushAppends, Zenon DEF QueueInLoop, LoopInv
    <3> QED
      BY <2>2, <3>1, PushPuts, Zenon DEF QueueInLoop, LoopInv
  <2>3. ASSUME NEW t \in Thread, QueueFromThread(t) PROVE Tasks!Next
    <3>1. PICK x \in Functor : pendingFunctors' = Append(pendingFunctors, x)
      BY <2>3, PushAppends, Zenon DEF QueueFromThread, LoopInv
    <3> QED
      BY <2>3, <3>1, PushPuts, Zenon DEF QueueFromThread, LoopInv
  <2>4. CASE UNCHANGED <<functors, pendingFunctors, executed>>
    BY <2>4, Zenon DEF Tasks!queueVars
  <2> QED
    BY <2>1, <2>2, <2>3, <2>4, ThreadNextCases, Zenon
    DEF PollTimeout, UserCode, QuitInLoop, RemoveChannel, ThreadStep, QuitFromThread, Wakeup,
        EventArrives, DestructorQuit, DestructorWakeup, loopVars
<1> QED
  BY <1>1, <1>2, LoopInvariant, PTL DEF ThreadSpec, FunctorsInOrder, Tasks!Spec
-----------------------------------------------------------------------------
(* The bytes of m from r up to w *)

Bytes(m, r, w) == [i \in 1..(w - r) |-> m[r + i - 1]]

LEMMA BytesFacts ==
  ASSUME NEW m, NEW r \in Int, NEW w \in Int, r <= w, \A i \in r..(w - 1) : m[i] \in Byte
  PROVE  /\ Bytes(m, r, w) \in Seq(Byte)
         /\ Len(Bytes(m, r, w)) = w - r
         /\ \A i \in 1..(w - r) : Bytes(m, r, w)[i] = m[r + i - 1]
<1>1. Bytes(m, r, w) \in [1..(w - r) -> Byte]
  BY DEF Bytes
<1>2. w - r \in Nat
  OBVIOUS
<1>3. Bytes(m, r, w) \in Seq(Byte)
  BY <1>1, <1>2, SeqDef, Zenon
<1>4. Len(Bytes(m, r, w)) = w - r
  BY <1>1, <1>2, <1>3, LenProperties
<1> QED
  BY <1>3, <1>4, Zenon DEF Bytes

\* What holds of the memory m of n bytes with the indexes r and w.
Holds(m, n, r, w) ==
  /\ n \in Nat /\ r \in Nat /\ w \in Nat /\ r <= w /\ w <= n /\ kCheapPrepend <= n
  /\ m \in [0..(n - 1) -> Byte]

LEMMA HoldsBytes ==
  ASSUME NEW m, NEW n, NEW r, NEW w, Holds(m, n, r, w)
  PROVE  /\ Bytes(m, r, w) \in Seq(Byte) /\ Len(Bytes(m, r, w)) = w - r
         /\ \A i \in 1..(w - r) : Bytes(m, r, w)[i] = m[r + i - 1]
         /\ r \in Int /\ w \in Int /\ r \in Nat /\ w \in Nat /\ r <= w
<1>1. r \in Int /\ w \in Int /\ r \in Nat /\ w \in Nat /\ r <= w
  BY DEF Holds
<1>2. \A i \in r..(w - 1) : m[i] \in Byte
  BY DEF Holds
<1> QED
  BY <1>1, <1>2, BytesFacts, Zenon

\* s is the bytes of m from r up to w.
IsBytes(s, m, r, w) ==
  s \in Seq(Byte) /\ Len(s) = w - r /\ \A i \in 1..(w - r) : s[i] = m[r + i - 1]

LEMMA HoldsIsBytes ==
  ASSUME NEW m, NEW n, NEW r, NEW w, Holds(m, n, r, w)
  PROVE  IsBytes(Bytes(m, r, w), m, r, w)
<1>1. Bytes(m, r, w) \in Seq(Byte) /\ Len(Bytes(m, r, w)) = w - r
  BY HoldsBytes, Zenon
<1>2. \A i \in 1..(w - r) : Bytes(m, r, w)[i] = m[r + i - 1]
  BY Zenon DEF Bytes
<1> QED
  BY <1>1, <1>2, Zenon DEF IsBytes

\* A part of one content is the whole of another if their bytes are the same.
LEMMA PartIs ==
  ASSUME NEW m, NEW n, NEW r, NEW w, Holds(m, n, r, w),
         NEW m2, NEW n2, NEW s, NEW x, Holds(m2, n2, s, x),
         NEW k \in 0..(x - s), NEW l \in k..(x - s), l - k = w - r,
         \A i \in 0..(w - r - 1) : m2[s + k + i] = m[r + i]
  PROVE  SubSeq(Bytes(m2, s, x), k + 1, l) = Bytes(m, r, w)
<1> DEFINE new == Bytes(m2, s, x)
           old == Bytes(m, r, w)
<1>a. IsBytes(old, m, r, w) /\ IsBytes(new, m2, s, x)
  BY HoldsIsBytes, Zenon
<1>1. old \in Seq(Byte) /\ Len(old) = w - r /\ \A i \in 1..(w - r) : old[i] = m[r + i - 1]
  BY <1>a, Zenon DEF IsBytes
<1>2. new \in Seq(Byte) /\ Len(new) = x - s /\ \A i \in 1..(x - s) : new[i] = m2[s + i - 1]
  BY <1>a, Zenon DEF IsBytes
<1>0. r \in Int /\ w \in Int /\ s \in Int /\ x \in Int /\ r <= w /\ s <= x
  BY HoldsBytes, Zenon
<1> HIDE DEF new, old
<1>3. \A i \in (k + 1)..l : new[i] \in Byte
  BY <1>0, <1>2
<1>4. /\ SubSeq(new, k + 1, l) \in Seq(Byte)
      /\ Len(SubSeq(new, k + 1, l)) = l - k
      /\ \A i \in 1..(l - k) : SubSeq(new, k + 1, l)[i] = new[k + i]
  BY <1>0, <1>3, SubSeqProperties
<1>5. ASSUME NEW i \in 1..(w - r) PROVE SubSeq(new, k + 1, l)[i] = old[i]
  <2>1. i - 1 \in 0..(w - r - 1) /\ k + i \in 1..(x - s) /\ i \in 1..(l - k)
    BY <1>0
  <2>2. m2[s + k + (i - 1)] = m[r + (i - 1)]
    BY <2>1, Zenon
  <2>3. s + k + (i - 1) = s + (k + i) - 1 /\ r + (i - 1) = r + i - 1
    BY <1>0
  <2> QED
    BY <1>1, <1>2, <1>4, <2>1, <2>2, <2>3, Zenon
<1>6. SubSeq(new, k + 1, l) = old
  BY <1>0, <1>1, <1>4, <1>5, SeqEqual, Zenon
<1> QED
  BY <1>6, Zenon DEF new, old
-----------------------------------------------------------------------------
(* The indexes stay within the vector *)

BufferInv == Holds(mem, size, readerIndex, writerIndex)

\* The indexes and the memory after a step hold what was between the indexes.
Keeps(m, r, w) ==
  /\ Holds(mem', size', readerIndex', writerIndex')
  /\ readerIndex' + (w - r) <= writerIndex'
  /\ \A i \in 0..(w - r - 1) : mem'[readerIndex' + i] = m[r + i]

LEMMA DataFacts ==
  ASSUME NEW data \in Data PROVE data \in Seq(Byte)
<1>1. PICK n \in 0..MaxLen : data \in [1..n -> Byte \ {Zero}]
  BY Zenon DEF Data
<1>2. n \in Nat /\ data \in [1..n -> Byte]
  BY <1>1, BufferAssumption
<1> QED
  BY <1>2, SeqDef, Zenon

LEMMA CopiedFacts ==
  ASSUME NEW n \in Nat, NEW at \in Nat, NEW data \in Seq(Byte), at + Len(data) <= n,
         NEW m \in [0..(n - 1) -> Byte]
  PROVE  /\ Copied(m, n, at, data) \in [0..(n - 1) -> Byte]
         /\ \A i \in 0..(at - 1) : Copied(m, n, at, data)[i] = m[i]
         /\ \A i \in (at + Len(data))..(n - 1) : Copied(m, n, at, data)[i] = m[i]
<1>1. Len(data) \in Nat /\ \A j \in 1..Len(data) : data[j] \in Byte
  BY LenProperties, Zenon
<1>2. ASSUME NEW i \in 0..(n - 1), i \in at..(at + Len(data) - 1) PROVE data[i - at + 1] \in Byte
  BY <1>1, <1>2
<1> QED
  BY <1>1, <1>2 DEF Copied

LEMMA AppendKeeps ==
  ASSUME NEW m, NEW w, Holds(m, size, readerIndex, w), NEW data \in Seq(Byte), AppendTo(m, w, data)
  PROVE  Keeps(m, readerIndex, w) /\ failed' = failed
<1>0. Len(data) \in Nat
  BY LenProperties, Zenon
<1>1. CASE AppendFits(m, w, data)
  <2>1. /\ Copied(m, size, w, data) \in [0..(size - 1) -> Byte]
        /\ \A i \in 0..(w - 1) : Copied(m, size, w, data)[i] = m[i]
    BY <1>0, <1>1, CopiedFacts DEF AppendFits, Holds
  <2> QED
    BY <1>0, <1>1, <2>1 DEF AppendFits, Holds, Keeps
<1>2. CASE AppendGrows(m, w, data)
  <2> DEFINE n == w + Len(data)
  <2>1. n \in Nat /\ \A i \in 0..(n - 1) : Resized(m, n)[i] = IF i < size THEN m[i] ELSE Zero
    BY <1>0 DEF Resized, Holds
  <2>2. Resized(m, n) \in [0..(n - 1) -> Byte]
    BY <2>1, BufferAssumption DEF Holds, Resized
  <2>3. /\ Copied(Resized(m, n), n, w, data) \in [0..(n - 1) -> Byte]
        /\ \A i \in 0..(w - 1) : Copied(Resized(m, n), n, w, data)[i] = Resized(m, n)[i]
    <3>1. w + Len(data) <= n /\ w \in Nat
      BY <1>0 DEF Holds
    <3> HIDE DEF n
    <3> QED
      BY <2>1, <2>2, <3>1, CopiedFacts, Zenon
  <2>4. \A i \in 0..(w - 1) : Resized(m, n)[i] = m[i]
    BY <1>0, <2>1 DEF Holds
  <2>5. size' = n /\ mem' = Copied(Resized(m, n), n, w, data) /\ writerIndex' = n
        /\ readerIndex' = readerIndex /\ failed' = failed
    BY <1>2, Zenon DEF AppendGrows
  <2>6. kCheapPrepend <= n /\ w <= n
    BY <1>0, <1>2, BufferAssumption DEF AppendGrows, Holds
  <2> QED
    BY <1>0, <2>1, <2>3, <2>4, <2>5, <2>6 DEF Holds, Keeps
<1>3. CASE AppendMoves(m, w, data)
  <2> DEFINE at == kCheapPrepend + w - readerIndex
             moved == Moved(m, w)
  <2>1. kCheapPrepend < readerIndex /\ at + Len(data) <= size /\ at \in Nat
    BY <1>0, <1>3, BufferAssumption DEF AppendMoves, Holds
  <2>2. /\ mem' = Copied(moved, size, at, data) /\ readerIndex' = kCheapPrepend
        /\ writerIndex' = at + Len(data) /\ size' = size /\ failed' = failed
    BY <1>3, <2>1, Zenon DEF AppendMoves
  <2>3. \A i \in 0..(size - 1) :
          moved[i] = IF i \in kCheapPrepend..(at - 1) THEN m[i - kCheapPrepend + readerIndex] ELSE m[i]
    BY BufferAssumption DEF Moved, Holds
  <2>4. \A i \in 0..(size - 1) : moved[i] \in Byte
    <3> TAKE i \in 0..(size - 1)
    <3>1. CASE i \in kCheapPrepend..(at - 1)
      <4>1. i - kCheapPrepend + readerIndex \in 0..(size - 1)
        BY <3>1, <2>1, BufferAssumption DEF Holds
      <4> QED
        BY <3>1, <4>1, <2>3, Zenon DEF Holds
    <3>2. CASE i \notin kCheapPrepend..(at - 1)
      BY <3>2, <2>3, Zenon DEF Holds
    <3> QED
      BY <3>1, <3>2, Zenon
  <2>5. moved \in [0..(size - 1) -> Byte]
    BY <2>4, Zenon DEF Moved
  <2> HIDE DEF moved
  <2>6. /\ Copied(moved, size, at, data) \in [0..(size - 1) -> Byte]
        /\ \A i \in 0..(at - 1) : Copied(moved, size, at, data)[i] = moved[i]
    <3>1. size \in Nat
      BY Zenon DEF Holds
    <3> HIDE DEF at
    <3> QED
      BY <2>1, <2>5, <3>1, CopiedFacts, Zenon
  <2>7. ASSUME NEW i \in 0..(w - readerIndex - 1)
        PROVE  mem'[kCheapPrepend + i] = m[readerIndex + i]
    <3>1. PICK j \in Int : j = kCheapPrepend + i
      BY BufferAssumption
    <3>2. /\ j \in 0..(at - 1) /\ j \in kCheapPrepend..(at - 1) /\ j \in 0..(size - 1)
          /\ j - kCheapPrepend + readerIndex = readerIndex + i
      BY <1>0, <2>1, <3>1, BufferAssumption DEF Holds
    <3> HIDE DEF at
    <3>3. moved[j] = m[j - kCheapPrepend + readerIndex]
      BY <2>3, <3>2, Zenon
    <3>4. mem'[j] = moved[j]
      BY <2>2, <2>6, <3>2, Zenon
    <3> QED
      BY <3>1, <3>2, <3>3, <3>4, Zenon
  <2> QED
    BY <1>0, <2>1, <2>2, <2>6, <2>7, BufferAssumption DEF Holds, Keeps
<1> QED
  BY <1>1, <1>2, <1>3, Zenon DEF AppendTo

\* A shorter content fits where a longer one does.
LEMMA ShorterFits ==
  ASSUME NEW r \in Nat, NEW d \in Int, NEW e \in Int, NEW w \in Nat, d <= e, r + e <= w
  PROVE  r + d <= w
OBVIOUS

LEMMA AppendDataKeeps ==
  ASSUME BufferInv, NEW data \in Seq(Byte), AppendData(data) \/ ReadFd(data)
  PROVE  Keeps(mem, readerIndex, writerIndex) /\ failed' = failed
<1>1. CASE AppendTo(mem, writerIndex, data)
  BY <1>1, AppendKeeps, Zenon DEF BufferInv
<1>2. CASE /\ writableBytes < Len(data)
           /\ AppendTo(Copied(mem, size, writerIndex, SubSeq(data, 1, writableBytes)), size,
                       SubSeq(data, writableBytes + 1, Len(data)))
  <2> DEFINE part == SubSeq(data, 1, writableBytes)
             rest == SubSeq(data, writableBytes + 1, Len(data))
             m == Copied(mem, size, writerIndex, part)
  <2>1. writableBytes \in Nat /\ Len(data) \in Nat /\ \A i \in 1..Len(data) : data[i] \in Byte
    BY LenProperties DEF BufferInv, Holds, writableBytes
  <2>2. part \in Seq(Byte) /\ Len(part) = writableBytes
    BY <1>2, <2>1, SubSeqProperties
  <2>3. rest \in Seq(Byte)
    BY <1>2, <2>1, SubSeqProperties
  <2> HIDE DEF part, rest
  <2>4. m \in [0..(size - 1) -> Byte] /\ \A i \in 0..(writerIndex - 1) : m[i] = mem[i]
    <3>1. size \in Nat /\ writerIndex \in Nat /\ mem \in [0..(size - 1) -> Byte]
      BY Zenon DEF BufferInv, Holds
    <3>2. writerIndex + Len(part) <= size
      BY <2>2, <3>1 DEF writableBytes
    <3> QED
      BY <2>2, <3>1, <3>2, CopiedFacts, Zenon
  <2>5. AppendTo(m, size, rest)
    BY <1>2, Zenon DEF part, rest
  <2> HIDE DEF m
  <2>6. Holds(m, size, readerIndex, size)
    BY <2>4 DEF BufferInv, Holds
  <2>7. Keeps(m, readerIndex, size) /\ failed' = failed
    BY <2>3, <2>5, <2>6, AppendKeeps, Zenon
  <2>8. ASSUME NEW i \in 0..(writerIndex - readerIndex - 1)
        PROVE  mem'[readerIndex' + i] = mem[readerIndex + i]
    <3>1. i \in 0..(size - readerIndex - 1) /\ readerIndex + i \in 0..(writerIndex - 1)
      BY DEF BufferInv, Holds
    <3> QED
      BY <2>4, <2>7, <3>1, Zenon DEF Keeps
  <2>9. readerIndex' + (writerIndex - readerIndex) <= writerIndex'
    <3>1. readerIndex' \in Nat /\ writerIndex' \in Nat /\ readerIndex' + (size - readerIndex) <= writerIndex'
      BY <2>7, Zenon DEF Keeps, Holds
    <3>2. size \in Nat /\ readerIndex \in Nat /\ writerIndex \in Nat /\ writerIndex <= size
      BY Zenon DEF BufferInv, Holds
    <3>3. writerIndex - readerIndex \in Int /\ size - readerIndex \in Int
          /\ writerIndex - readerIndex <= size - readerIndex
      BY <3>2
    <3> QED
      BY <3>1, <3>3, ShorterFits, Zenon
  <2> QED
    BY <2>7, <2>8, <2>9, Zenon DEF Keeps
<1> QED
  BY <1>1, <1>2, Zenon DEF AppendData, ReadFd, AppendTo

LEMMA ShrinkKeeps ==
  ASSUME BufferInv, NEW reserve \in Nat, Shrink(reserve)
  PROVE  Keeps(mem, readerIndex, writerIndex) /\ failed' = failed
<1> DEFINE need == readableBytes + reserve
           new == kCheapPrepend + (IF kInitialSize < need THEN need ELSE kInitialSize)
<1>1. readableBytes \in Nat /\ new \in Nat /\ kCheapPrepend + readableBytes <= new
  BY BufferAssumption DEF BufferInv, Holds, readableBytes
<1>2. /\ size' = new /\ readerIndex' = kCheapPrepend /\ writerIndex' = kCheapPrepend + readableBytes
      /\ failed' = failed
      /\ mem' = [i \in 0..(new - 1) |->
                   IF i \in kCheapPrepend..(kCheapPrepend + readableBytes - 1)
                   THEN mem[i - kCheapPrepend + readerIndex] ELSE Zero]
  BY Zenon DEF Shrink
<1> HIDE DEF new
<1>3. mem' \in [0..(new - 1) -> Byte]
  <2>1. ASSUME NEW i \in kCheapPrepend..(kCheapPrepend + readableBytes - 1)
        PROVE  mem[i - kCheapPrepend + readerIndex] \in Byte
    <3>1. i - kCheapPrepend + readerIndex \in 0..(size - 1)
      BY BufferAssumption DEF BufferInv, Holds, readableBytes
    <3> QED
      BY <3>1, Zenon DEF BufferInv, Holds
  <2> QED
    BY <1>2, <2>1, BufferAssumption, Zenon
<1>4. ASSUME NEW i \in 0..(readableBytes - 1)
      PROVE  mem'[kCheapPrepend + i] = mem[readerIndex + i]
  <2>1. PICK j \in Int : j = kCheapPrepend + i
    BY <1>1, BufferAssumption
  <2>2. /\ j \in 0..(new - 1) /\ j \in kCheapPrepend..(kCheapPrepend + readableBytes - 1)
        /\ j - kCheapPrepend + readerIndex = readerIndex + i
    BY <1>1, <2>1, BufferAssumption DEF BufferInv, Holds
  <2>3. mem'[j] = mem[j - kCheapPrepend + readerIndex]
    BY <1>2, <2>2, Zenon
  <2> QED
    BY <2>1, <2>2, <2>3, Zenon
<1> QED
  BY <1>1, <1>2, <1>3, <1>4, BufferAssumption DEF Keeps, BufferInv, Holds, readableBytes
-----------------------------------------------------------------------------
(* Every step is one of the queue *)

LEMMA ContentIs == /\ Content = Bytes(mem, readerIndex, writerIndex)
                   /\ Content' = Bytes(mem', readerIndex', writerIndex')
BY Zenon DEF Content, Bytes, readableBytes

LEMMA InvIs == /\ BufferInv <=> Holds(mem, size, readerIndex, writerIndex)
               /\ BufferInv' <=> Holds(mem', size', readerIndex', writerIndex')
BY Zenon DEF BufferInv

\* The content and the bounds of the indexes, now and after a step.
LEMMA ContentFacts ==
  ASSUME BufferInv
  PROVE  /\ Content \in Seq(Byte) /\ Len(Content) = writerIndex - readerIndex
         /\ readerIndex \in Nat /\ writerIndex \in Nat /\ readerIndex <= writerIndex
BY InvIs, HoldsBytes, ContentIs, Zenon

LEMMA ContentFactsNext ==
  ASSUME BufferInv'
  PROVE  /\ Content' \in Seq(Byte) /\ Len(Content') = writerIndex' - readerIndex'
         /\ readerIndex' \in Nat /\ writerIndex' \in Nat /\ readerIndex' <= writerIndex'
BY InvIs, HoldsBytes, ContentIs, Zenon

\* The part of the new content between k and l is the old content.
LEMMA OldInNew ==
  ASSUME BufferInv, BufferInv',
         NEW k \in 0..(writerIndex' - readerIndex'), NEW l \in k..(writerIndex' - readerIndex'),
         l - k = writerIndex - readerIndex,
         \A i \in 0..(writerIndex - readerIndex - 1) : mem'[readerIndex' + k + i] = mem[readerIndex + i]
  PROVE  SubSeq(Content', k + 1, l) = Content
<1>1. SubSeq(Bytes(mem', readerIndex', writerIndex'), k + 1, l) = Bytes(mem, readerIndex, writerIndex)
  BY InvIs, PartIs
<1> QED
  BY <1>1, ContentIs, Zenon

\* The part of the old content between k and l is the new content.
LEMMA NewInOld ==
  ASSUME BufferInv, BufferInv',
         NEW k \in 0..(writerIndex - readerIndex), NEW l \in k..(writerIndex - readerIndex),
         l - k = writerIndex' - readerIndex',
         \A i \in 0..(writerIndex' - readerIndex' - 1) : mem[readerIndex + k + i] = mem'[readerIndex' + i]
  PROVE  SubSeq(Content, k + 1, l) = Content'
<1>1. SubSeq(Bytes(mem, readerIndex, writerIndex), k + 1, l) = Bytes(mem', readerIndex', writerIndex')
  BY InvIs, PartIs
<1> QED
  BY <1>1, ContentIs, Zenon

LEMMA KeepsAdded ==
  ASSUME BufferInv, Keeps(mem, readerIndex, writerIndex)
  PROVE  BufferInv' /\ Queue!Added
<1>1. BufferInv'
  BY Zenon DEF BufferInv, Keeps
<1>2. SubSeq(Content', 0 + 1, writerIndex - readerIndex) = Content
  <2>1. ASSUME NEW i \in 0..(writerIndex - readerIndex - 1)
        PROVE  mem'[readerIndex' + 0 + i] = mem[readerIndex + i]
    <3>1. readerIndex' + 0 + i = readerIndex' + i
      BY <1>1, ContentFactsNext
    <3> QED
      BY <3>1, Zenon DEF Keeps
  <2>2. /\ writerIndex - readerIndex \in 0..(writerIndex' - readerIndex')
        /\ 0 \in 0..(writerIndex' - readerIndex')
        /\ writerIndex - readerIndex - 0 = writerIndex - readerIndex
    BY <1>1, ContentFacts, ContentFactsNext DEF Keeps
  <2> QED
    BY <1>1, <2>1, <2>2, OldInNew, Zenon
<1>3. 0 + 1 = 1 /\ Len(Content) = writerIndex - readerIndex
  BY ContentFacts
<1>4. Content' \in Seq(Byte) /\ Len(Content') >= Len(Content)
  BY <1>1, <1>3, ContentFacts, ContentFactsNext DEF Keeps
<1> QED
  BY <1>1, <1>2, <1>3, <1>4, Zenon DEF Queue!Added

LEMMA PrependPrepended ==
  ASSUME BufferInv, NEW data \in Seq(Byte), Prepend(data)
  PROVE  BufferInv' /\ Queue!Prepended /\ failed' = failed
<1> DEFINE r == readerIndex - Len(data)
<1>1. /\ Len(data) \in Nat /\ r \in Nat
      /\ mem' = Copied(mem, size, r, data) /\ readerIndex' = r
      /\ writerIndex' = writerIndex /\ size' = size /\ failed' = failed
  BY LenProperties DEF Prepend, BufferInv, Holds
<1>2. /\ Copied(mem, size, r, data) \in [0..(size - 1) -> Byte]
      /\ \A i \in (r + Len(data))..(size - 1) : Copied(mem, size, r, data)[i] = mem[i]
  <2>1. r + Len(data) <= size /\ size \in Nat /\ mem \in [0..(size - 1) -> Byte]
    BY <1>1 DEF BufferInv, Holds
  <2> HIDE DEF r
  <2> QED
    BY <1>1, <2>1, CopiedFacts, Zenon
<1>3. BufferInv'
  BY <1>1, <1>2 DEF BufferInv, Holds
<1> DEFINE all == writerIndex' - readerIndex'
<1>4. SubSeq(Content', Len(data) + 1, all) = Content
  <2>1. ASSUME NEW i \in 0..(writerIndex - readerIndex - 1)
        PROVE  mem'[readerIndex' + Len(data) + i] = mem[readerIndex + i]
    <3>1. readerIndex' + Len(data) + i = readerIndex + i /\ readerIndex + i \in (r + Len(data))..(size - 1)
      BY <1>1 DEF BufferInv, Holds
    <3> QED
      BY <1>1, <1>2, <3>1, Zenon
  <2>2. /\ Len(data) \in 0..all /\ all \in Len(data)..all
        /\ all - Len(data) = writerIndex - readerIndex
    BY <1>1 DEF BufferInv, Holds
  <2> QED
    BY <1>3, <2>1, <2>2, OldInNew, Zenon
<1>5. Content' \in Seq(Byte) /\ Len(Content') = all /\ Len(Content) = writerIndex - readerIndex
  BY <1>3, ContentFacts, ContentFactsNext, Zenon
<1>6. all >= writerIndex - readerIndex /\ all - (writerIndex - readerIndex) = Len(data)
  BY <1>1 DEF BufferInv, Holds
<1> HIDE DEF all
<1>7. Len(Content') - Len(Content) + 1 = Len(data) + 1
  BY <1>5, <1>6, Zenon
<1> QED
  BY <1>1, <1>3, <1>4, <1>5, <1>6, <1>7, Zenon DEF Queue!Prepended

LEMMA RetrievedTaken ==
  ASSUME BufferInv, NEW n \in Nat, Retrieved(n)
  PROVE  BufferInv' /\ Queue!Taken /\ failed' = failed
<1> DEFINE len == writerIndex - readerIndex
<1>1. BufferInv' /\ mem' = mem /\ failed' = failed /\ len \in Nat
  BY BufferAssumption DEF BufferInv, Holds, Retrieved, readableBytes
<1>2. Len(Content) = len
  BY ContentFacts, Zenon
<1>3. CASE n < len
  <2>1. readerIndex' = readerIndex + n /\ writerIndex' = writerIndex
    BY <1>3, Zenon DEF Retrieved, readableBytes
  <2>2. /\ n \in 0..len /\ len \in n..len /\ len - n = writerIndex' - readerIndex'
        /\ \A i \in 0..(writerIndex' - readerIndex' - 1) : mem[readerIndex + n + i] = mem'[readerIndex' + i]
    BY <1>1, <1>3, <2>1, ContentFacts
  <2>3. SubSeq(Content, n + 1, len) = Content'
    BY <1>1, <2>2, NewInOld, Zenon
  <2> QED
    BY <1>1, <1>2, <2>2, <2>3, Zenon DEF Queue!Taken
<1>4. CASE ~(n < len)
  <2>1. readerIndex' = kCheapPrepend /\ writerIndex' = kCheapPrepend
    BY <1>4, Zenon DEF Retrieved, readableBytes
  <2>2. /\ len \in 0..len /\ len \in len..len /\ len - len = writerIndex' - readerIndex'
        /\ \A i \in 0..(writerIndex' - readerIndex' - 1) : mem[readerIndex + len + i] = mem'[readerIndex' + i]
    BY <1>1, <2>1, BufferAssumption
  <2>3. SubSeq(Content, len + 1, len) = Content'
    BY <1>1, <2>2, NewInOld, Zenon
  <2> QED
    BY <1>1, <1>2, <2>2, <2>3, Zenon DEF Queue!Taken
<1> QED
  BY <1>3, <1>4, Zenon

LEMMA LineTaken ==
  ASSUME BufferInv, NEW offset \in Starts, RetrieveLine(offset)
  PROVE  /\ BufferInv'
         /\ Queue!Taken \/ Content' = Content
         /\ offset = 0 => failed' = failed
<1>1. PICK p \in Found(readerIndex + offset) :
        IF p + 1 <= writerIndex THEN Retrieved(p + 1 - readerIndex) ELSE Fail("retrieveUntil")
  BY Zenon DEF RetrieveLine
<1>2. /\ p \in Nat /\ p >= readerIndex /\ p < readerIndex + offset + readableBytes /\ offset \in Nat
  BY <1>1, BufferAssumption DEF Found, BufferInv, Holds, readableBytes
<1>3. CASE p + 1 <= writerIndex
  <2>1. p + 1 - readerIndex \in Nat /\ Retrieved(p + 1 - readerIndex)
    BY <1>1, <1>2, <1>3 DEF BufferInv, Holds
  <2> QED
    BY <2>1, RetrievedTaken, Zenon
<1>4. CASE ~(p + 1 <= writerIndex)
  <2>1. Fail("retrieveUntil")
    BY <1>1, <1>4, Zenon
  <2>2. offset # 0
    BY <1>2, <1>4 DEF BufferInv, Holds, readableBytes
  <2> QED
    BY <2>1, <2>2, Zenon DEF Fail, BufferInv, Holds, Content, readableBytes
<1> QED
  BY <1>3, <1>4, Zenon

LEMMA StepKeeps ==
  ASSUME BufferInv, [BufferNext]_vars
  PROVE  /\ BufferInv' /\ [Queue!Next]_Content
         /\ Starts \subseteq {0} => failed' = failed
<1>1. ASSUME NEW data \in Data, AppendData(data) \/ ReadFd(data)
      PROVE  BufferInv' /\ Queue!Added /\ failed' = failed
  BY <1>1, DataFacts, AppendDataKeeps, KeepsAdded, Zenon
<1>2. ASSUME NEW data \in Data, Prepend(data)
      PROVE  BufferInv' /\ Queue!Prepended /\ failed' = failed
  BY <1>2, DataFacts, PrependPrepended, Zenon
<1>3. ASSUME NEW n \in 0..MaxSize, Retrieve(n)
      PROVE  BufferInv' /\ Queue!Taken /\ failed' = failed
  BY <1>3, RetrievedTaken, BufferAssumption DEF Retrieve
<1>4. ASSUME NEW reserve \in 0..MaxLen, Shrink(reserve)
      PROVE  BufferInv' /\ Queue!Added /\ failed' = failed
  BY <1>4, ShrinkKeeps, KeepsAdded, BufferAssumption
<1>5. ASSUME NEW offset \in Starts, RetrieveLine(offset)
      PROVE  /\ BufferInv' /\ (Queue!Taken \/ Content' = Content)
             /\ Starts \subseteq {0} => failed' = failed
  BY <1>5, LineTaken, Zenon
<1>6. CASE UNCHANGED vars
  BY <1>6, Zenon DEF vars, BufferInv, Holds, Content, readableBytes
<1> QED
  BY <1>1, <1>2, <1>3, <1>4, <1>5, <1>6, Zenon DEF BufferNext, Queue!Next

LEMMA InitHolds == BufferInit => BufferInv /\ Queue!Init /\ failed = None
<1> SUFFICES ASSUME BufferInit PROVE BufferInv /\ Queue!Init /\ failed = None
  BY Zenon
<1>1. BufferInv
  BY BufferAssumption DEF BufferInit, BufferInv, Holds
<1>2. Content = <<>>
  BY <1>1, ContentFacts, EmptySeq DEF BufferInit, BufferInv, Holds
<1> QED
  BY <1>1, <1>2, Zenon DEF BufferInit, Queue!Init

\* append(), readFd(), prepend(), retrieve(), retrieveUntil(), shrink() and makeSpace():
\* whatever happens to the memory, the bytes between the indexes are a queue.
THEOREM BufferIsQueue == BufferSpec => IsByteQueue
<1>1. BufferInv /\ [BufferNext]_vars => BufferInv' /\ [Queue!Next]_Content
  BY StepKeeps, Zenon
<1> QED
  BY <1>1, InitHolds, PTL DEF BufferSpec, IsByteQueue, Queue!Spec

\* The asserts of makeSpace() and of retrieveUntil(): makeSpace() only moves content
\* that is behind kCheapPrepend, and a line end found from peek() on is readable.
THEOREM BufferAssertsHold == ASSUME Starts \subseteq {0} PROVE BufferSpec => [](failed = None)
<1>1. BufferInv /\ failed = None /\ [BufferNext]_vars => BufferInv' /\ (failed = None)'
  BY StepKeeps, Zenon
<1> QED
  BY <1>1, InitHolds, PTL DEF BufferSpec
-----------------------------------------------------------------------------
(* The buffers of AsyncLogging *)

Lines == Seq(Nat)

\* The buffers and what is in them.
BufferTypes ==
  /\ lines \in Nat /\ currentBuffer \in Lines
  /\ buffers \in Seq(Lines) /\ toWrite \in Seq(Lines)
  /\ nextBuffer \in BOOLEAN /\ new1 \in BOOLEAN /\ new2 \in BOOLEAN

\* nextBuffer_ is away only while the buffer it replaced is in buffers_; outside
\* the writing the thread has both its spare buffers; while it writes, it has taken
\* a second buffer if it has given newBuffer2 away.
SpareBuffers ==
  /\ ~nextBuffer => buffers # <<>>
  /\ funcPc # "write" => new1 /\ new2 /\ toWrite = <<>>
  /\ funcPc = "write" => Len(toWrite) >= 1 /\ (new2 \/ Len(toWrite) >= 2)

\* The thread takes no step before start().
StartsOnce == mainPc = "start" => funcPc = "created"

LoggerInv == BufferTypes /\ SpareBuffers /\ StartsOnce /\ NoAssertFails

\* Append() makes a sequence of buffers longer by one.
LEMMA AppendLonger ==
  ASSUME NEW S, NEW s \in Seq(S), NEW e \in S
  PROVE  Append(s, e) \in Seq(S) /\ Len(Append(s, e)) = Len(s) + 1 /\ Append(s, e) # <<>>
<1>1. Append(s, e) \in Seq(S) /\ Len(Append(s, e)) = Len(s) + 1 OBVIOUS
<1>2. Len(s) \in Nat /\ Len(<<>>) = 0 OBVIOUS
<1>3. Len(Append(s, e)) # 0 BY <1>1, <1>2
<1> QED BY <1>1, <1>2, <1>3

\* What is kept of two or more buffers is two or more: the cut at DropAbove leaves
\* the first two.
LEMMA KeptEnough ==
  ASSUME toWrite \in Seq(Lines)
  PROVE  /\ Len(toWrite) >= 1 => Len(Kept) >= 1
         /\ Len(toWrite) >= 2 => Len(Kept) >= 2
         /\ Len(Kept) \in Nat
<1>1. CASE Len(toWrite) > DropAbove
  <2>1. Kept = SubSeq(toWrite, 1, 2) BY <1>1 DEF Kept
  <2>2. Len(toWrite) \in Nat /\ Len(toWrite) >= 2 BY <1>1, AsyncLoggingAssumption
  <2>3. Len(SubSeq(toWrite, 1, 2)) = 2 BY <2>2
  <2> QED BY <2>1, <2>3
<1>2. CASE ~(Len(toWrite) > DropAbove)
  BY <1>2 DEF Kept
<1> QED BY <1>1, <1>2

\* The buffers the thread takes away: one, and a second one if nextBuffer_ had
\* been used.
LEMMA TakePreserves ==
  ASSUME LoggerInv, funcPc \in {"lock", "waiting"}, Take
  PROVE  LoggerInv'
<1> USE DEF LoggerInv, BufferTypes, SpareBuffers, StartsOnce, Take
<1>1. toWrite' \in Seq(Lines) /\ Len(toWrite') = Len(buffers) + 1
  BY AppendLonger, Zenon
<1>2. buffers' \in Seq(Lines) /\ currentBuffer' \in Lines /\ lines' \in Nat
  BY DEF Lines
<1>3. nextBuffer' \in BOOLEAN /\ new1' \in BOOLEAN /\ new2' \in BOOLEAN
  BY Zenon
<1>4. nextBuffer' = TRUE
  BY Zenon
<1>5. new2' \/ Len(toWrite') >= 2
  <2>1. CASE nextBuffer BY <2>1
  <2>2. CASE ~nextBuffer
    <3>1. Len(buffers) >= 1 BY <2>2
    <3> QED BY <3>1, <1>1
  <2> QED BY <2>1, <2>2
<1>6. Len(toWrite') >= 1 BY <1>1
<1>7. NoAssertFails' BY DEF NoAssertFails
<1>8. funcPc' = "write" OBVIOUS
<1>9. BufferTypes' BY <1>1, <1>2, <1>3, Zenon DEF BufferTypes
<1>10. SpareBuffers' BY <1>4, <1>5, <1>6, <1>8, Zenon DEF SpareBuffers
<1>11. StartsOnce' OBVIOUS
<1> QED BY <1>7, <1>9, <1>10, <1>11

\* Initially the spare buffers are there.
LEMMA LoggerInit == LoggingInit => LoggerInv
<1> SUFFICES ASSUME LoggingInit PROVE LoggerInv OBVIOUS
<1>1. BufferTypes BY DEF LoggingInit, BufferTypes, Lines
<1>2. SpareBuffers BY Zenon DEF LoggingInit, SpareBuffers
<1>3. NoAssertFails BY DEF LoggingInit, NoAssertFails
<1>4. StartsOnce BY DEF LoggingInit, StartsOnce
<1> QED BY <1>1, <1>2, <1>3, <1>4 DEF LoggerInv

\* Every step of the threads keeps the spare buffers.
LEMMA LoggerNext ==
  ASSUME LoggerInv, [LoggingNext]_loggingVars
  PROVE  LoggerInv'
<1>1. CASE Start
  BY <1>1, Zenon DEF Start, shared, private, LoggerInv, BufferTypes, SpareBuffers, StartsOnce, NoAssertFails
<1>2. CASE Started
  BY <1>2, Zenon DEF Started, shared, private, LoggerInv, BufferTypes, SpareBuffers, StartsOnce, NoAssertFails
<1>3. CASE Stop
  BY <1>3, Zenon DEF Stop, shared, private, LoggerInv, BufferTypes, SpareBuffers, StartsOnce, NoAssertFails
<1>4. CASE JoinThread
  BY <1>4, Zenon DEF JoinThread, shared, private, LoggerInv, BufferTypes, SpareBuffers, StartsOnce, NoAssertFails
<1>5. CASE AppendLine
  <2> USE <1>5 DEF AppendLine, private
  <2>1. lines \in Nat /\ lines' = lines + 1 /\ lines' \in Nat BY DEF LoggerInv, BufferTypes
  <2>2. currentBuffer' \in Lines
    <3>1. CASE Len(currentBuffer) < BufferLines
      <4>1. currentBuffer' = Append(currentBuffer, lines + 1) BY <3>1
      <4> QED BY <4>1, <2>1 DEF LoggerInv, BufferTypes, Lines
    <3>2. CASE ~(Len(currentBuffer) < BufferLines)
      <4>1. currentBuffer' = <<lines + 1>> BY <3>2
      <4> QED BY <4>1, <2>1 DEF Lines
    <3> QED BY <3>1, <3>2
  <2>3. buffers' \in Seq(Lines) /\ nextBuffer' \in BOOLEAN /\ (~nextBuffer' => buffers' # <<>>)
    <3>1. CASE Len(currentBuffer) < BufferLines
      BY <3>1, Zenon DEF LoggerInv, BufferTypes, SpareBuffers
    <3>2. CASE ~(Len(currentBuffer) < BufferLines)
      BY <3>2, AppendLonger, Zenon DEF LoggerInv, BufferTypes
    <3> QED BY <3>1, <3>2
  <2>4. BufferTypes' BY <2>1, <2>2, <2>3 DEF LoggerInv, BufferTypes
  <2>5. SpareBuffers' BY <2>3 DEF LoggerInv, SpareBuffers
  <2>6. NoAssertFails' BY DEF LoggerInv, NoAssertFails
  <2>7. StartsOnce' BY DEF LoggerInv, StartsOnce
  <2> QED BY <2>4, <2>5, <2>6, <2>7 DEF LoggerInv
<1>6. CASE Begin
  BY <1>6, Zenon DEF Begin, shared, private, LoggerInv, BufferTypes, SpareBuffers, StartsOnce, NoAssertFails
<1>7. CASE LoopTop
  <2>1. BufferTypes' BY <1>7 DEF LoopTop, shared, LoggerInv, BufferTypes
  <2>2. SpareBuffers' BY <1>7 DEF LoopTop, shared, LoggerInv, SpareBuffers
  <2>3. NoAssertFails' BY <1>7 DEF LoopTop, shared, LoggerInv, SpareBuffers, StartsOnce, NoAssertFails
  <2>4. StartsOnce' BY <1>7 DEF LoopTop, LoggerInv, StartsOnce
  <2> QED BY <2>1, <2>2, <2>3, <2>4 DEF LoggerInv
<1>8. CASE Lock
  <2>1. CASE Take BY <1>8, <2>1, TakePreserves DEF Lock
  <2>2. CASE ~Take
    BY <1>8, <2>2, Zenon DEF Lock, shared, private, LoggerInv, BufferTypes, SpareBuffers, StartsOnce, NoAssertFails
  <2> QED BY <2>1, <2>2
<1>9. CASE Wake
  BY <1>9, TakePreserves, Zenon DEF Wake
<1>10. CASE Write
  <2> USE <1>10
  <2>1. /\ Len(Kept) \in Nat /\ Len(Kept) >= 1
        /\ ~new2 => Len(Kept) >= 2
    BY KeptEnough, Zenon DEF Write, LoggerInv, BufferTypes, SpareBuffers
  <2>2. toWrite # <<>>
    BY DEF Write, LoggerInv, BufferTypes, SpareBuffers
  <2>3. NoAssertFails'
    BY <2>1, <2>2 DEF Write, LoggerInv, NoAssertFails
  <2>4. BufferTypes'
    BY DEF Write, shared, LoggerInv, BufferTypes
  <2>5. SpareBuffers'
    BY Zenon DEF Write, shared, LoggerInv, SpareBuffers
  <2>6. StartsOnce'
    BY Zenon DEF Write, LoggerInv, StartsOnce
  <2> QED BY <2>3, <2>4, <2>5, <2>6 DEF LoggerInv
<1>11. CASE UNCHANGED loggingVars
  BY <1>11, Zenon DEF loggingVars, shared, private, LoggerInv, BufferTypes, SpareBuffers, StartsOnce, NoAssertFails
<1> QED
  BY <1>1, <1>2, <1>3, <1>4, <1>5, <1>6, <1>7, <1>8, <1>9, <1>10, <1>11, Zenon DEF LoggingNext, LoggingThread

\* No assert of threadFunc() fails: the thread always has the spare buffers it
\* needs for the next exchange.
THEOREM AssertsHold == LoggingSpec => []NoAssertFails
<1>1. LoggerInv /\ [LoggingNext]_loggingVars => LoggerInv'
  BY LoggerNext, Zenon
<1>2. LoggerInv => NoAssertFails
  BY Zenon DEF LoggerInv
<1> QED
  BY <1>1, <1>2, LoggerInit, PTL DEF LoggingSpec
=============================================================================
