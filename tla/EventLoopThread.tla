-------------------------- MODULE EventLoopThread ---------------------------
(***************************************************************************)
(* A thread with an EventLoop on its stack (port/EventLoopThread.cpp,      *)
(* utils/Thread.cpp), composed with the EventLoop it runs.  Its owner      *)
(* calls startLoop() and the destructor; the loop thread runs threadFunc().*)
(***************************************************************************)
EXTENDS EventLoop

VARIABLES
  owner,  \* where the owner is in startLoop() and in the destructor
  stage,  \* where the loop thread is in threadFunc()
  loop    \* loop_ is not NULL

ownerVars == <<owner, stage, loop>>
threadVars == <<loopVars, ownerVars>>

ThreadInit ==
  /\ Init
  /\ owner = "new" /\ stage = "absent" /\ loop = FALSE
-----------------------------------------------------------------------------
(* startLoop() *)

\* thread_.start()
StartThread ==
  /\ owner = "new"
  /\ owner' = "check" /\ stage' = "callback"
  /\ UNCHANGED <<loopVars, loop>>

\* "while (loop_ == NULL) cond_.wait()" with the mutex held.
CheckLoop ==
  /\ owner = "check"
  /\ owner' = IF loop THEN "started" ELSE "waiting"
  /\ UNCHANGED <<loopVars, stage, loop>>

\* A condition variable may wake up for no reason.
SpuriousWakeup ==
  /\ owner = "waiting"
  /\ owner' = "check"
  /\ UNCHANGED <<loopVars, stage, loop>>
-----------------------------------------------------------------------------
(* threadFunc() *)

\* callback_(&loop): user code on the loop thread before loop().
Callback ==
  /\ stage = "callback" /\ pc = "ready"
  /\ UserCode
  /\ UNCHANGED ownerVars

\* loop_ = &loop and cond_.notify() under the mutex.
Publish ==
  /\ stage = "callback"
  /\ stage' = "published" /\ loop' = TRUE
  /\ owner' = IF owner = "waiting" THEN "check" ELSE owner
  /\ UNCHANGED loopVars

\* loop.loop()
RunLoop ==
  /\ stage = "published"
  /\ LoopStep \/ (UserCode /\ pc # "ready")
  /\ UNCHANGED ownerVars

RunLoopTimeout == PollTimeout /\ UNCHANGED ownerVars

\* loop() has returned: the EventLoop on the stack is destroyed and the thread
\* ends.  loop_ keeps its value.
Exit ==
  /\ stage = "published" /\ pc = "stopped"
  /\ stage' = "exited"
  /\ UNCHANGED <<loopVars, owner, loop>>
-----------------------------------------------------------------------------
(* ~EventLoopThread() *)

\* loop_->quit(): quit_ = true ...
DestructorQuit ==
  /\ owner = "started"
  /\ quit' = TRUE
  /\ owner' = "wakeup"
  /\ UNCHANGED <<pc, looping, wakeupFd, registered, ready, activeChannels, todo, current,
                 calling, pendingFunctors, functors, inFunctor, executed, threadPc, stage, loop>>

\* Mutant: the destructor only sets quit_.
DestructorNoWakeup ==
  /\ owner = "wakeup"
  /\ owner' = "join"
  /\ UNCHANGED <<loopVars, stage, loop>>

\* ... and wakeup().
DestructorWakeup ==
  /\ owner = "wakeup"
  /\ wakeupFd' = 1
  /\ owner' = "join"
  /\ UNCHANGED <<pc, looping, quit, registered, ready, activeChannels, todo, current,
                 calling, pendingFunctors, functors, inFunctor, executed, threadPc, stage, loop>>

\* thread_.join()
Join ==
  /\ owner = "join" /\ stage = "exited"
  /\ owner' = "gone"
  /\ UNCHANGED <<loopVars, stage, loop>>

\* Another thread that got the loop from startLoop() queues functors or quits the
\* loop while the owner keeps it.
OtherThread(t) ==
  /\ owner = "started" \/ threadPc[t] = "wakeup"
  /\ stage = "published"
  /\ ThreadStep(t)
  /\ UNCHANGED ownerVars

OwnerStep == Alive /\ (CheckLoop \/ DestructorWakeup \/ Join)
ThreadFunc == Publish \/ RunLoop \/ Exit

ThreadNext ==
  \/ StartThread
  \/ Alive /\ (SpuriousWakeup \/ DestructorQuit)
  \/ OwnerStep
  \/ Callback
  \/ ThreadFunc
  \/ RunLoopTimeout
  \/ \E t \in Thread : OtherThread(t)
  \/ \E channel \in UserChannel : Alive /\ EventArrives(channel) /\ UNCHANGED ownerVars

ThreadSpec == ThreadInit /\ [][ThreadNext]_threadVars

\* The threads are scheduled, and the callbacks that the loop runs return.  Nothing
\* is assumed of RunLoopTimeout: progress must not need the time-out of poll().
ThreadFairSpec ==
  /\ ThreadSpec
  /\ WF_threadVars(OwnerStep)
  /\ WF_threadVars(Publish)
  /\ WF_threadVars(Exit)
  /\ WF_threadVars(stage = "published" /\ LoopStep /\ UNCHANGED ownerVars)
  /\ \A t \in Thread : WF_threadVars(stage = "published" /\ Alive /\ Wakeup(t) /\ UNCHANGED ownerVars)
-----------------------------------------------------------------------------
(* Properties *)

\* The destructor returns if its quit() met a loop that had entered loop().
\* (A quit() before that is undone by the "quit_ = false" of loop().)  The assert of
\* removeChannel() may end the program first.
JoinReturns == (owner \in {"wakeup", "join"} /\ looping /\ quit) ~> (owner = "gone" \/ pc = "aborted")
=============================================================================
