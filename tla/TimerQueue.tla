----------------------------- MODULE TimerQueue -----------------------------
(***************************************************************************)
(* The timer queue of one EventLoop (port/TimerQueue.cpp, port/Timer.h,    *)
(* port/Timer.cpp, port/TimerId.h).                                        *)
(*                                                                         *)
(* The loop thread owns the two sets timers_ and activeTimers_.  Another   *)
(* thread reaches them only through EventLoop::runInLoop, that is through  *)
(* the FIFO of pending functors (module EventLoop).  Timers live at heap   *)
(* addresses that are reused after delete, a TimerId is an address and a   *)
(* sequence number, and one kernel timerfd wakes the loop for the earliest *)
(* timer.                                                                  *)
(*                                                                         *)
(* Time is discrete.  "clock" is Timestamp::now(), the wall clock; the     *)
(* timerfd counts down on the monotonic clock, so the two can drift apart  *)
(* (AdjustClock).                                                          *)
(***************************************************************************)
EXTENDS Integers, Sequences

CONSTANTS
  Ptr,         \* heap addresses a Timer can get
  Thread,      \* threads other than the loop thread
  MaxCreated,  \* bound on the number of timers ever created
  MaxTime,     \* bound on the wall clock
  MaxPending,  \* bound on the queue of pending functors
  MaxAdjust,   \* bound on the number of wall clock adjustments
  Delays,      \* "when" of a new timer, relative to now (may be in the past)
  Intervals,   \* repeat intervals; 0 is a one-shot timer
  MinDelay,    \* the 100 microseconds of howMuchTimeFromNow
  None         \* "no value"

ASSUME ConstantsAssumption ==
  /\ MaxCreated \in Nat /\ MaxTime \in Nat \ {0}
  /\ MaxPending \in Nat /\ MaxAdjust \in Nat
  /\ Delays \subseteq Int /\ Intervals \subseteq Nat
  /\ MinDelay \in Nat \ {0}
  /\ None \notin Int

VARIABLES
  allocated,             \* addresses that hold a live Timer
  heap,                  \* address -> Timer fields
  numCreated,            \* Timer::s_numCreated_
  timers,                \* timers_: set of <<expiration, address>>
  activeTimers,          \* activeTimers_: set of <<address, sequence>>
  cancelingTimers,       \* cancelingTimers_
  callingExpiredTimers,  \* callingExpiredTimers_
  expired,               \* the vector of handleRead, as a set of entries
  torun,                 \* entries of expired whose callback has not run yet
  now,                   \* the local "now" of handleRead
  timerfd,               \* ticks until timerfd_ is readable, or Disarmed
  clock,                 \* the wall clock
  adjusted,              \* wall clock adjustments so far
  pending,               \* functors queued for the loop thread
  returning,             \* thread -> <<address, sequence>> inside addTimer, or None
  issued,                \* TimerIds that addTimer has returned
  named,                 \* history: ids passed to cancelInLoop
  cancelled              \* history: sequences cancelled while in the queue

queueVars == <<timers, activeTimers, cancelingTimers, callingExpiredTimers, expired, torun, now>>
timeVars == <<clock, adjusted>>
vars == <<allocated, heap, numCreated, timers, activeTimers, cancelingTimers,
          callingExpiredTimers, expired, torun, now, timerfd, clock, adjusted,
          pending, returning, issued, named, cancelled>>

Sequence == 0..MaxCreated
TimerId == Ptr \X Sequence
Entry == Int \X Ptr
Timer == [seq: Sequence, expiration: Int, interval: Nat, lastRun: Int \cup {None}]
Functor == [op: {"add", "cancel"}, ptr: Ptr, seq: Sequence]
Disarmed == -1

\* Memory that holds no Timer.
Freed == [seq |-> 0, expiration |-> 0, interval |-> 0, lastRun |-> None]

Init ==
  /\ allocated = {}
  /\ heap = [p \in Ptr |-> Freed]
  /\ numCreated = 0
  /\ timers = {}
  /\ activeTimers = {}
  /\ cancelingTimers = {}
  /\ callingExpiredTimers = FALSE
  /\ expired = {}
  /\ torun = {}
  /\ now = 0
  /\ timerfd = Disarmed
  /\ clock = 1
  /\ adjusted = 0
  /\ pending = <<>>
  /\ returning = [t \in Thread |-> None]
  /\ issued = {}
  /\ named = {}
  /\ cancelled = {}
-----------------------------------------------------------------------------
(* Helpers *)

Later(a, b) == IF a > b THEN a ELSE b

\* resetTimerfd(timerfd_, expiration): at least MinDelay from now.
ResetTimerfd(expiration) == Later(expiration - clock, MinDelay)

\* Mutant: insert() reports a new earliest timer only for the first timer.
EarliestChangedIfEmpty(when) == timers = {}

\* "it == timers_.end() || when < it->first" of insert().
EarliestChanged(when) == \A entry \in timers : when < entry[1]

\* timers_.begin()
IsEarliest(entry, entries) ==
  entry \in entries /\ \A other \in entries : entry[1] <= other[1]

repeat(p) == heap[p].interval > 0

\* Timer::restart(now)
NextExpiration(p) == now + heap[p].interval

\* The timer at p with another expiration or time of its last run.
TimerAt(p, expiration, lastRun) ==
  [seq |-> heap[p].seq, expiration |-> expiration, interval |-> heap[p].interval, lastRun |-> lastRun]

\* new Timer(cb, when, interval): a fresh sequence number at any free address.
New(p, when, interval) ==
  /\ numCreated < MaxCreated
  /\ p \notin allocated
  /\ allocated' = allocated \cup {p}
  /\ numCreated' = numCreated + 1
  /\ heap' = [heap EXCEPT ![p] = [seq |-> numCreated + 1, expiration |-> when,
                                  interval |-> interval, lastRun |-> None]]

\* addTimerInLoop(timer): insert, and rearm the timerfd for a new earliest timer.
AddTimerInLoop(p, seq, when) ==
  /\ timers' = timers \cup {<<when, p>>}
  /\ activeTimers' = activeTimers \cup {<<p, seq>>}
  /\ timerfd' = IF EarliestChanged(when) THEN ResetTimerfd(when) ELSE timerfd
  /\ UNCHANGED <<cancelingTimers, callingExpiredTimers, expired, torun, now>>

\* Mutants: cancelInLoop forgets timers_; looks the timer up by its address
\* alone; forgets to delete the timer.
EraseActiveOnly(id) ==
  /\ id \in activeTimers
  /\ activeTimers' = activeTimers \ {id}
  /\ allocated' = allocated \ {id[1]}
  /\ heap' = [heap EXCEPT ![id[1]] = Freed]
  /\ cancelled' = cancelled \cup {id[2]}
  /\ UNCHANGED <<timers, cancelingTimers>>
EraseByAddress(id) ==
  \E other \in activeTimers :
    /\ other[1] = id[1]
    /\ timers' = timers \ {<<heap[id[1]].expiration, id[1]>>}
    /\ activeTimers' = activeTimers \ {other}
    /\ allocated' = allocated \ {id[1]}
    /\ heap' = [heap EXCEPT ![id[1]] = Freed]
    /\ cancelled' = cancelled \cup {other[2]}
    /\ UNCHANGED cancelingTimers
EraseNoDelete(id) ==
  /\ id \in activeTimers
  /\ timers' = timers \ {<<heap[id[1]].expiration, id[1]>>}
  /\ activeTimers' = activeTimers \ {id}
  /\ cancelled' = cancelled \cup {id[2]}
  /\ UNCHANGED <<allocated, heap, cancelingTimers>>

\* The id found in activeTimers_: erase both entries and delete the timer.
EraseActive(id) ==
  /\ id \in activeTimers
  /\ timers' = timers \ {<<heap[id[1]].expiration, id[1]>>}
  /\ activeTimers' = activeTimers \ {id}
  /\ allocated' = allocated \ {id[1]}
  /\ heap' = [heap EXCEPT ![id[1]] = Freed]
  /\ cancelled' = cancelled \cup {id[2]}
  /\ UNCHANGED cancelingTimers

\* The id not found while the expired timers run: remember it for reset().
RememberCanceling(id) ==
  /\ id \notin activeTimers
  /\ callingExpiredTimers
  /\ cancelingTimers' = cancelingTimers \cup {id}
  /\ cancelled' = IF \E entry \in expired : entry[2] = id[1] /\ heap[id[1]].seq = id[2]
                  THEN cancelled \cup {id[2]} ELSE cancelled
  /\ UNCHANGED <<timers, activeTimers, allocated, heap>>

\* The id not found otherwise: nothing happens.
CancelNothing(id) ==
  /\ id \notin activeTimers
  /\ ~callingExpiredTimers
  /\ UNCHANGED <<timers, activeTimers, allocated, heap, cancelingTimers, cancelled>>

CancelInLoop(id) ==
  /\ EraseActive(id) \/ RememberCanceling(id) \/ CancelNothing(id)
  /\ named' = named \cup {id}
  /\ UNCHANGED <<callingExpiredTimers, expired, torun, now, timerfd, numCreated>>

\* The loop thread is inside user code: an event handler or a functor when no
\* expired timers are being run, else the callback of a timer already taken.
InCallback == callingExpiredTimers => torun # expired
-----------------------------------------------------------------------------
(* Actions *)

\* addTimer() called on the loop thread: runInLoop runs addTimerInLoop at once.
AddTimerFromLoop(p, when, interval) ==
  /\ InCallback
  /\ New(p, when, interval)
  /\ AddTimerInLoop(p, numCreated + 1, when)
  /\ issued' = issued \cup {<<p, numCreated + 1>>}
  /\ UNCHANGED <<clock, adjusted, pending, returning, named, cancelled>>

\* addTimer() called on another thread, up to and including runInLoop.
AddTimerFromThread(t, p, when, interval) ==
  /\ returning[t] = None
  /\ Len(pending) < MaxPending
  /\ New(p, when, interval)
  /\ pending' = Append(pending, [op |-> "add", ptr |-> p, seq |-> numCreated + 1])
  /\ returning' = [returning EXCEPT ![t] = <<p, numCreated + 1>>]
  /\ UNCHANGED <<queueVars, timeVars, timerfd, issued, named, cancelled>>

\* The rest of it: "return TimerId(timer, timer->sequence())" reads the timer
\* after it was handed over.  The loop thread may have deleted it by then (any
\* stale content) and may have reused its memory for another timer.
AddTimerReturn(t) ==
  /\ returning[t] # None
  /\ LET p == returning[t][1] IN
       \E seq \in IF p \in allocated THEN {heap[p].seq} ELSE {returning[t][2], 0} :
         issued' = issued \cup {<<p, seq>>}
  /\ returning' = [returning EXCEPT ![t] = None]
  /\ UNCHANGED <<allocated, heap, numCreated, queueVars, timeVars, timerfd, pending, named, cancelled>>

\* cancel() on the loop thread.
CancelFromLoop(id) ==
  /\ InCallback
  /\ CancelInLoop(id)
  /\ UNCHANGED <<clock, adjusted, pending, returning, issued>>

\* cancel() on another thread.
CancelFromThread(id) ==
  /\ Len(pending) < MaxPending
  /\ pending' = Append(pending, [op |-> "cancel", ptr |-> id[1], seq |-> id[2]])
  /\ UNCHANGED <<allocated, heap, numCreated, queueVars, timeVars, timerfd,
                 returning, issued, named, cancelled>>

\* doPendingFunctors reaches a queued addTimerInLoop or cancelInLoop.
RunPendingAdd ==
  /\ ~callingExpiredTimers
  /\ pending # <<>>
  /\ Head(pending).op = "add"
  /\ LET p == Head(pending).ptr IN AddTimerInLoop(p, heap[p].seq, heap[p].expiration)
  /\ pending' = Tail(pending)
  /\ UNCHANGED <<allocated, heap, numCreated, timeVars, returning, issued, named, cancelled>>

RunPendingCancel ==
  /\ ~callingExpiredTimers
  /\ pending # <<>>
  /\ Head(pending).op = "cancel"
  /\ CancelInLoop(<<Head(pending).ptr, Head(pending).seq>>)
  /\ pending' = Tail(pending)
  /\ UNCHANGED <<clock, adjusted, returning, issued>>

\* handleRead() up to the first callback: read the timerfd and take what
\* getExpired(now) returns out of both sets.
HandleRead ==
  /\ ~callingExpiredTimers
  /\ timerfd = 0
  /\ timerfd' = Disarmed
  /\ now' = clock
  /\ expired' = {entry \in timers : entry[1] <= clock}
  /\ torun' = expired'
  /\ timers' = timers \ expired'
  /\ activeTimers' = activeTimers \ {<<entry[2], heap[entry[2]].seq>> : entry \in expired'}
  /\ callingExpiredTimers' = TRUE
  /\ cancelingTimers' = {}
  /\ UNCHANGED <<allocated, heap, numCreated, timeVars, pending, returning, issued, named, cancelled>>

\* One callback, in the order of the expirations (then of the addresses).
RunTimer(entry) ==
  /\ callingExpiredTimers
  /\ IsEarliest(entry, torun)
  /\ torun' = torun \ {entry}
  /\ heap' = [heap EXCEPT ![entry[2]] = TimerAt(entry[2], heap[entry[2]].expiration, now)]
  /\ UNCHANGED <<allocated, numCreated, timers, activeTimers, cancelingTimers,
                 callingExpiredTimers, expired, now, timerfd, timeVars, pending,
                 returning, issued, named, cancelled>>

\* Mutant: reset() does not look into cancelingTimers_.
RestartedAlways == {p \in {entry[2] : entry \in expired} : repeat(p)}

\* The expired timers that reset() restarts, and their new entries.
Restarted ==
  {p \in {entry[2] : entry \in expired} : repeat(p) /\ <<p, heap[p].seq>> \notin cancelingTimers}
RestartedEntries == {<<NextExpiration(p), p>> : p \in Restarted}

\* Mutant: reset() never rearms.
RearmNever == UNCHANGED timerfd

\* The end of reset(): rearm for the earliest timer if its time is valid.
Rearm ==
  \/ \E entry \in timers' :
       IsEarliest(entry, timers') /\ entry[1] > 0 /\ timerfd' = ResetTimerfd(entry[1])
  \/ /\ \A entry \in timers' : IsEarliest(entry, timers') => entry[1] <= 0
     /\ UNCHANGED timerfd

\* The rest of handleRead(): reset(expired, now) restarts or deletes every
\* expired timer and rearms the timerfd for the earliest valid timer.
Reset ==
  /\ callingExpiredTimers
  /\ torun = {}
  /\ callingExpiredTimers' = FALSE
  /\ expired' = {}
  /\ allocated' = allocated \ ({entry[2] : entry \in expired} \ Restarted)
  /\ heap' = [p \in Ptr |->
                IF p \in Restarted THEN TimerAt(p, NextExpiration(p), heap[p].lastRun)
                ELSE IF p \in {entry[2] : entry \in expired} THEN Freed
                ELSE heap[p]]
  /\ timers' = timers \cup RestartedEntries
  /\ activeTimers' = activeTimers \cup {<<p, heap[p].seq>> : p \in Restarted}
  /\ Rearm
  /\ UNCHANGED <<numCreated, cancelingTimers, torun, now, timeVars, pending, returning,
                 issued, named, cancelled>>

\* Time passes on both clocks (the wall clock stops at its bound).
Tick ==
  /\ clock < MaxTime \/ timerfd > 0
  /\ clock' = IF clock < MaxTime THEN clock + 1 ELSE clock
  /\ timerfd' = IF timerfd > 0 THEN timerfd - 1 ELSE timerfd
  /\ UNCHANGED <<allocated, heap, numCreated, queueVars, adjusted, pending, returning,
                 issued, named, cancelled>>

\* The wall clock is set to another time; the timerfd does not notice.
AdjustClock(c) ==
  /\ adjusted < MaxAdjust
  /\ adjusted' = adjusted + 1
  /\ clock' = c
  /\ UNCHANGED <<allocated, heap, numCreated, queueVars, timerfd, pending, returning,
                 issued, named, cancelled>>

LoopStep ==
  \/ RunPendingAdd
  \/ RunPendingCancel
  \/ HandleRead
  \/ \E entry \in torun : RunTimer(entry)
  \/ Reset

UserStep ==
  \/ \E p \in Ptr, d \in Delays, i \in Intervals : AddTimerFromLoop(p, clock + d, i)
  \/ \E t \in Thread, p \in Ptr, d \in Delays, i \in Intervals :
       AddTimerFromThread(t, p, clock + d, i)
  \/ \E t \in Thread : AddTimerReturn(t)
  \/ \E id \in issued : CancelFromLoop(id) \/ CancelFromThread(id)

Next ==
  \/ LoopStep
  \/ UserStep
  \/ Tick
  \/ \E c \in 1..MaxTime : AdjustClock(c)

Spec == Init /\ [][Next]_vars

\* Every iteration of EventLoop::loop polls (for at most kPollTimeMs), handles
\* every readable descriptor and then runs the functors queued so far; every
\* callback returns; time never stops.
FairSpec ==
  /\ Spec
  /\ WF_vars(RunPendingAdd \/ RunPendingCancel)
  /\ WF_vars(HandleRead)
  /\ WF_vars(\E entry \in torun : RunTimer(entry))
  /\ WF_vars(Reset)
  /\ WF_vars(Tick)
-----------------------------------------------------------------------------
(* Properties *)

\* The values every variable of the queue can take.
TypeOK ==
  /\ allocated \subseteq Ptr
  /\ heap \in [Ptr -> Timer]
  /\ numCreated \in Sequence
  /\ timers \subseteq Entry
  /\ activeTimers \subseteq TimerId
  /\ cancelingTimers \subseteq TimerId
  /\ callingExpiredTimers \in BOOLEAN
  /\ expired \subseteq Entry
  /\ torun \subseteq expired
  /\ now \in Int
  /\ timerfd \in Nat \cup {Disarmed}
  /\ clock \in 1..MaxTime
  /\ adjusted \in 0..MaxAdjust
  /\ pending \in Seq(Functor)
  /\ returning \in [Thread -> TimerId \cup {None}]
  /\ issued \subseteq TimerId
  /\ named \subseteq TimerId
  /\ cancelled \subseteq Sequence

\* The asserts of cancelInLoop, getExpired and insert: timers_ and
\* activeTimers_ always hold the same live timers, each with its own
\* expiration and sequence number, so each erase finds exactly one entry.
SetsAgree ==
  /\ \A entry \in timers :
       /\ entry[2] \in allocated
       /\ heap[entry[2]].expiration = entry[1]
       /\ <<entry[2], heap[entry[2]].seq>> \in activeTimers
  /\ \A id \in activeTimers :
       /\ heap[id[1]].seq = id[2]
       /\ <<heap[id[1]].expiration, id[1]>> \in timers

\* No expired timer that handleRead still uses has been deleted or put back
\* into the queue, whatever its callbacks add and cancel.
ExpiredAlive ==
  \A entry \in expired :
    /\ entry[2] \in allocated
    /\ \A other \in timers : other[2] # entry[2]
    /\ \A other \in expired : other[2] = entry[2] => other = entry

\* A timer cancelled while it was queued, or while its batch of expired timers
\* ran (by itself or by another callback of the batch), is never queued again.
CancelIsFinal ==
  \A id \in activeTimers : id[2] \notin cancelled

\* Whenever the loop is about to poll and a timer is queued, the timerfd is
\* running, even if the wall clock has been set under it; and as long as it has
\* not, it goes off no later than the earliest timer is due (or MinDelay from now
\* when it is already due).
ArmedInTime ==
  (timers # {} /\ ~callingExpiredTimers) =>
    /\ timerfd # Disarmed
    /\ adjusted = 0 => \A entry \in timers : timerfd <= Later(entry[1] - clock, MinDelay)

\* A TimerId whose timer is gone never cancels the timer that reuses its
\* address: a repeating timer is deleted only if cancelInLoop was called with
\* its own address and sequence number.
OnlyNamedTimersDie ==
  [][\A p \in allocated :
       (heap[p].interval > 0 /\ <<p, heap[p].seq>> \notin named') =>
         p \in allocated' /\ heap'[p].seq = heap[p].seq]_vars

\* A cancel() from another thread is never too early: when the loop runs it,
\* the addTimerInLoop of that timer has run, and the timer is gone afterwards.
QueuedCancelEffective ==
  [][(pending # <<>> /\ pending' = Tail(pending) /\ Head(pending).op = "cancel") =>
       ~(Head(pending).ptr \in allocated' /\ heap'[Head(pending).ptr].seq = Head(pending).seq)]_vars

\* Every queued timer that is due within the horizon is eventually taken out
\* of the queue (run, or cancelled first), and a repeated one each time it is
\* due again, until none is left that the clock will reach.
TimersExpire ==
  (\E entry \in timers : entry[1] <= MaxTime) ~> (\A entry \in timers : entry[1] > MaxTime)
=============================================================================
