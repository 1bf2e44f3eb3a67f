----------------------------- MODULE EventLoop ------------------------------
(***************************************************************************)
(* One EventLoop (port/EventLoop.cpp): the loop thread polls, handles the  *)
(* active channels and runs the functors that it and other threads queued; *)
(* an eventfd wakes it from poll.  quit() may come from any thread.        *)
(*                                                                         *)
(* The steps of loop() are the values of pc.  User code runs on the loop   *)
(* thread before loop(), inside the handler of a channel and inside a      *)
(* functor; what it can do to the loop are the actions of UserCode.        *)
(***************************************************************************)
EXTENDS Naturals, Sequences

CONSTANTS
  UserChannel,  \* channels of the user, besides the wakeup channel
  Thread,       \* threads other than the loop thread
  MaxFunctors,  \* bound on the number of functors ever queued
  NoChannel

WakeupChannel == "wakeupChannel"

ASSUME EventLoopAssumption ==
  /\ MaxFunctors \in Nat
  /\ NoChannel \notin UserChannel \cup {WakeupChannel}
  /\ WakeupChannel \notin UserChannel

VARIABLES
  pc,               \* where loop() is; "aborted" after a failed assert
  looping,          \* looping_
  quit,             \* quit_
  wakeupFd,         \* 1 iff the counter of the eventfd is not zero
  registered,       \* channels known to the poller
  ready,            \* channels the kernel would report
  activeChannels,   \* activeChannels_
  todo,             \* active channels not yet handled
  current,          \* currentActiveChannel_ while its handler runs
  calling,          \* callingPendingFunctors_
  pendingFunctors,  \* pendingFunctors_
  functors,         \* the local vector of doPendingFunctors, without those run
  inFunctor,        \* a functor is running
  executed,         \* history: the functors run, in order
  threadPc          \* "wakeup": between the push (or quit_ = true) and wakeup()

loopVars == <<pc, looping, quit, wakeupFd, registered, ready, activeChannels, todo, current,
              calling, pendingFunctors, functors, inFunctor, executed, threadPc>>

\* A functor: its number in the order of queueing, and whether the loop thread
\* queued it before it called loop().
Functor == [id: 1..MaxFunctors, early: BOOLEAN]

\* No assert has ended the program.
Alive == pc # "aborted"

Init ==
  /\ pc = "ready"
  /\ looping = FALSE
  /\ quit = FALSE
  /\ wakeupFd = 0
  /\ registered = UserChannel
  /\ ready = {}
  /\ activeChannels = {} /\ todo = {}
  /\ current = NoChannel
  /\ calling = FALSE
  /\ pendingFunctors = <<>> /\ functors = <<>>
  /\ inFunctor = FALSE
  /\ executed = <<>>
  /\ threadPc = [t \in Thread |-> "idle"]
-----------------------------------------------------------------------------
(* loop() *)

\* The entry of loop(): "looping_ = true; quit_ = false".
Loop ==
  /\ pc = "ready"
  /\ pc' = "check" /\ looping' = TRUE /\ quit' = FALSE
  /\ UNCHANGED <<wakeupFd, registered, ready, activeChannels, todo, current, calling,
                 pendingFunctors, functors, inFunctor, executed, threadPc>>

\* while (!quit_)
CheckQuit ==
  /\ pc = "check"
  /\ pc' = IF quit THEN "stopped" ELSE "poll"
  /\ looping' = ~quit
  /\ activeChannels' = {}
  /\ UNCHANGED <<quit, wakeupFd, registered, ready, todo, current, calling,
                 pendingFunctors, functors, inFunctor, executed, threadPc>>

\* What poll() reports now.
Polled == (ready \cap registered) \cup (IF wakeupFd > 0 THEN {WakeupChannel} ELSE {})

\* poll() fills activeChannels_.
PollReturn ==
  /\ pc = "poll" /\ Polled # {}
  /\ pc' = "events"
  /\ activeChannels' = Polled /\ todo' = Polled
  /\ UNCHANGED <<looping, quit, wakeupFd, registered, ready, current, calling,
                 pendingFunctors, functors, inFunctor, executed, threadPc>>

\* kPollTimeMs passed and nothing happened.
PollTimeout ==
  /\ pc = "poll" /\ Polled = {}
  /\ pc' = "events"
  /\ UNCHANGED <<looping, quit, wakeupFd, registered, ready, activeChannels, todo, current,
                 calling, pendingFunctors, functors, inFunctor, executed, threadPc>>

\* handleEvent of one active channel.  That of the wakeup channel is
\* EventLoop::handleRead, which clears the eventfd.
HandleEvent(channel) ==
  /\ pc = "events" /\ current = NoChannel
  /\ current' = channel
  /\ todo' = todo \ {channel}
  /\ wakeupFd' = IF channel = WakeupChannel THEN 0 ELSE wakeupFd
  /\ ready' = ready \ {channel}
  /\ UNCHANGED <<pc, looping, quit, registered, activeChannels, calling,
                 pendingFunctors, functors, inFunctor, executed, threadPc>>

EventHandled ==
  /\ pc = "events" /\ current # NoChannel
  /\ current' = NoChannel
  /\ UNCHANGED <<pc, looping, quit, wakeupFd, registered, ready, activeChannels, todo, calling,
                 pendingFunctors, functors, inFunctor, executed, threadPc>>

\* Mutant: callingPendingFunctors_ is never set.
StartPendingFunctorsUnmarked ==
  /\ pc = "events" /\ todo = {} /\ current = NoChannel
  /\ pc' = "swap"
  /\ UNCHANGED <<looping, quit, wakeupFd, registered, ready, activeChannels, todo, current, calling,
                 pendingFunctors, functors, inFunctor, executed, threadPc>>

\* All channels handled: doPendingFunctors() begins.
StartPendingFunctors ==
  /\ pc = "events" /\ todo = {} /\ current = NoChannel
  /\ pc' = "swap" /\ calling' = TRUE
  /\ UNCHANGED <<looping, quit, wakeupFd, registered, ready, activeChannels, todo, current,
                 pendingFunctors, functors, inFunctor, executed, threadPc>>

\* Mutant: the vector is copied and cleared later, when the functors have run.
SwapCopy ==
  /\ pc = "swap"
  /\ pc' = "functors"
  /\ functors' = pendingFunctors
  /\ UNCHANGED <<looping, quit, wakeupFd, registered, ready, activeChannels, todo, current,
                 calling, pendingFunctors, inFunctor, executed, threadPc>>

\* functors.swap(pendingFunctors_) under the mutex.
Swap ==
  /\ pc = "swap"
  /\ pc' = "functors"
  /\ functors' = pendingFunctors /\ pendingFunctors' = <<>>
  /\ UNCHANGED <<looping, quit, wakeupFd, registered, ready, activeChannels, todo, current,
                 calling, inFunctor, executed, threadPc>>

\* functors[i]()
RunFunctor ==
  /\ pc = "functors" /\ ~inFunctor /\ functors # <<>>
  /\ inFunctor' = TRUE
  /\ functors' = Tail(functors)
  /\ executed' = Append(executed, Head(functors))
  /\ UNCHANGED <<pc, looping, quit, wakeupFd, registered, ready, activeChannels, todo, current,
                 calling, pendingFunctors, threadPc>>

FunctorReturns ==
  /\ inFunctor
  /\ inFunctor' = FALSE
  /\ UNCHANGED <<pc, looping, quit, wakeupFd, registered, ready, activeChannels, todo, current,
                 calling, pendingFunctors, functors, executed, threadPc>>

\* doPendingFunctors() returns.
PendingFunctorsDone ==
  /\ pc = "functors" /\ ~inFunctor /\ functors = <<>>
  /\ pc' = "check" /\ calling' = FALSE
  /\ UNCHANGED <<looping, quit, wakeupFd, registered, ready, activeChannels, todo, current,
                 pendingFunctors, functors, inFunctor, executed, threadPc>>
-----------------------------------------------------------------------------
(* Calls into the loop *)

Queued == Len(executed) + Len(functors) + Len(pendingFunctors)

\* pendingFunctors_.push_back(cb) under the mutex.
Push(early) ==
  /\ Queued < MaxFunctors
  /\ pendingFunctors' = Append(pendingFunctors, [id |-> Queued + 1, early |-> early])

\* The loop thread runs user code.
InUserCode == pc = "ready" \/ (pc = "events" /\ current \in UserChannel) \/ inFunctor

\* Mutant: wake up only for other threads.
QueueInLoopNoWakeup ==
  /\ InUserCode
  /\ Push(pc = "ready")
  /\ UNCHANGED <<pc, looping, quit, wakeupFd, registered, ready, activeChannels, todo, current,
                 calling, functors, inFunctor, executed, threadPc>>

\* queueInLoop() on the loop thread: wake up only while functors run.
QueueInLoop ==
  /\ InUserCode
  /\ Push(pc = "ready")
  /\ wakeupFd' = IF calling THEN 1 ELSE wakeupFd
  /\ UNCHANGED <<pc, looping, quit, registered, ready, activeChannels, todo, current,
                 calling, functors, inFunctor, executed, threadPc>>

\* quit() on the loop thread.
QuitInLoop ==
  /\ InUserCode
  /\ quit' = TRUE
  /\ UNCHANGED <<pc, looping, wakeupFd, registered, ready, activeChannels, todo, current,
                 calling, pendingFunctors, functors, inFunctor, executed, threadPc>>

\* Mutant: removeChannel() without its assert.
MayRemoveAny(channel) == TRUE

\* The assert of removeChannel(): while channels are handled (eventHandling_), only
\* the one whose handler runs and those that poll() did not report.
MayRemove(channel) == pc = "events" => channel = current \/ channel \notin activeChannels

\* removeChannel() of any channel, by user code: Connector::handleWrite() removes its
\* own channel, Connector::stopInLoop() that of an attempt, connectDestroyed() that of
\* a connection.  The assert comes before the poller is told.
RemoveChannel(channel) ==
  /\ InUserCode /\ channel \in registered
  /\ IF MayRemove(channel)
     THEN registered' = registered \ {channel} /\ ready' = ready \ {channel} /\ UNCHANGED pc
     ELSE pc' = "aborted" /\ UNCHANGED <<registered, ready>>
  /\ UNCHANGED <<looping, quit, wakeupFd, activeChannels, todo, current,
                 calling, pendingFunctors, functors, inFunctor, executed, threadPc>>

\* queueInLoop() on another thread, up to the wakeup.
QueueFromThread(t) ==
  /\ threadPc[t] = "idle"
  /\ Push(FALSE)
  /\ threadPc' = [threadPc EXCEPT ![t] = "wakeup"]
  /\ UNCHANGED <<pc, looping, quit, wakeupFd, registered, ready, activeChannels, todo, current,
                 calling, functors, inFunctor, executed>>

\* quit() on another thread, up to the wakeup.
QuitFromThread(t) ==
  /\ threadPc[t] = "idle"
  /\ quit' = TRUE
  /\ threadPc' = [threadPc EXCEPT ![t] = "wakeup"]
  /\ UNCHANGED <<pc, looping, wakeupFd, registered, ready, activeChannels, todo, current,
                 calling, pendingFunctors, functors, inFunctor, executed>>

\* wakeup()
Wakeup(t) ==
  /\ threadPc[t] = "wakeup"
  /\ threadPc' = [threadPc EXCEPT ![t] = "idle"]
  /\ wakeupFd' = 1
  /\ UNCHANGED <<pc, looping, quit, registered, ready, activeChannels, todo, current,
                 calling, pendingFunctors, functors, inFunctor, executed>>

\* The kernel sees an event on a channel that the poller watches.
EventArrives(channel) ==
  /\ channel \in registered \ ready
  /\ ready' = ready \cup {channel}
  /\ UNCHANGED <<pc, looping, quit, wakeupFd, registered, activeChannels, todo, current,
                 calling, pendingFunctors, functors, inFunctor, executed, threadPc>>

LoopStep ==
  \/ Loop \/ CheckQuit \/ PollReturn
  \/ \E channel \in todo : HandleEvent(channel)
  \/ EventHandled \/ StartPendingFunctors \/ Swap
  \/ RunFunctor \/ FunctorReturns \/ PendingFunctorsDone

UserCode ==
  \/ QueueInLoop
  \/ QuitInLoop
  \/ \E channel \in registered : RemoveChannel(channel)

ThreadStep(t) == Alive /\ (QueueFromThread(t) \/ QuitFromThread(t) \/ Wakeup(t))

Next ==
  \/ LoopStep
  \/ PollTimeout
  \/ UserCode
  \/ \E t \in Thread : ThreadStep(t)
  \/ \E channel \in UserChannel : Alive /\ EventArrives(channel)

Spec == Init /\ [][Next]_loopVars

\* The loop thread is scheduled, its handlers and functors return, and so does
\* a call of wakeup().  Nothing is assumed of PollTimeout: progress must not
\* need the ten seconds of kPollTimeMs.
FairSpec == Spec /\ WF_loopVars(LoopStep) /\ \A t \in Thread : WF_loopVars(Alive /\ Wakeup(t))
-----------------------------------------------------------------------------
(* Properties *)

\* While the loop is about to wait in poll() or waits there, no functor is
\* queued behind its back: the eventfd is set, or the thread that queued it is
\* about to set it.  Only what the loop thread queued before loop() waits for
\* the time-out, because queueInLoop() saw no reason to wake up.
NoLostWakeup ==
  (pc = "poll" /\ \E i \in 1..Len(pendingFunctors) : ~pendingFunctors[i].early) =>
    wakeupFd = 1 \/ \E t \in Thread : threadPc[t] = "wakeup"

\* loop() never handles a channel that was removed: one that it has still to handle
\* is known to the poller, whatever handlers, functors and the code before loop()
\* remove.  The assert of removeChannel() is enough for it, and it is needed: with
\* NDEBUG a handler that removes another active channel leaves loop() a dangling
\* pointer.
NoStaleDispatch ==
  todo \ {WakeupChannel} \subseteq registered

\* Functors run once each and in the order of the calls of queueInLoop(), with
\* the vector swapped out under way: loop() implements TaskQueue.
Tasks == INSTANCE TaskQueue WITH Item <- Functor, queue <- functors \o pendingFunctors, taken <- executed
FunctorsInOrder == Tasks!Spec

\* A functor queued by another thread, or by the loop thread inside loop(),
\* runs without waiting for the time-out of poll(), unless the loop quits or the
\* assert of removeChannel() ends the program.
FunctorsRun ==
  \A n \in 1..MaxFunctors :
    (\E i \in 1..Len(pendingFunctors) : pendingFunctors[i].id = n /\ ~pendingFunctors[i].early) ~>
      (pc \in {"stopped", "aborted"} \/ \E i \in 1..Len(executed) : executed[i].id = n)
=============================================================================
