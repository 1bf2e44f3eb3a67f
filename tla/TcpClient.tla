----------------------------- MODULE TcpClient ------------------------------
(***************************************************************************)
(* A TcpClient and its Connector on an EventLoop (port/TcpClient.cpp,      *)
(* port/Connector.cpp): non-blocking connect, retry with back-off, stop    *)
(* and reconnection.                                                       *)
(*                                                                         *)
(* The objects are one record, so that each method is an operator on it;   *)
(* a method that depends on the network gives the set of its results.  A   *)
(* failed assert stores its place in "failed" and ends the program.  The   *)
(* part of EventLoop::loop() that matters is kept: a phase in which the    *)
(* channels that poll() reported are handled, and one in which the         *)
(* functors queued until then are run.                                     *)
(*                                                                         *)
(* connect_ of the TcpClient and of the Connector are plain bools: what    *)
(* connect() and stop() do on another thread, and what removeConnection()  *)
(* and restart() do on the loop thread, are separate steps.                *)
(***************************************************************************)
EXTENDS Naturals, Sequences

CONSTANTS
  kInitRetryDelayMs, kMaxRetryDelayMs,
  Retry,        \* retry_: enableRetry() was called
  CallFrom,     \* where the user calls connect() and stop() from: "thread"
                \* (another thread), "functor" or "handler" (the loop thread)
  MaxConnects,  \* bound on the calls of connect()
  MaxStops,     \* bound on the calls of stop()
  None

ASSUME TcpClientAssumption ==
  /\ kInitRetryDelayMs \in Nat /\ kMaxRetryDelayMs \in Nat /\ kInitRetryDelayMs <= kMaxRetryDelayMs
  /\ Retry \in BOOLEAN /\ CallFrom \subseteq {"thread", "functor", "handler"}
  /\ MaxConnects \in Nat /\ MaxStops \in Nat

VARIABLES
  c,         \* the client and its connector
  phase,     \* where loop() is: "poll", "events" or "functors"
  batch,     \* the functors that doPendingFunctors() has still to run
  call,      \* where the other thread is in connect() or stop(): "none", "start", "stop"
             \* or the functor it has still to queue
  connects,  \* number of calls of connect()
  stops,     \* number of calls of stop()
  ended      \* history: what the last call was: "no" (not a stop()), "stopped", or
             \* "overtaken" (a stop() between the test and the assignment of a restart)

vars == <<c, phase, batch, call, connects, stops, ended>>
userVars == <<call, connects, stops, ended>>

Init ==
  /\ c = [wanted     |-> TRUE,            \* TcpClient::connect_
          connection |-> FALSE,           \* TcpClient::connection_ is set
          step       |-> "none",          \* "restart", "start": in removeConnection(), before
                                          \* and after restart() has set connect_
          connect    |-> FALSE,           \* Connector::connect_
          state      |-> "kDisconnected", \* Connector::state_
          channel    |-> "null",          \* channel_: null, armed or removed
          active     |-> FALSE,           \* it is in activeChannels_, not handled yet
          due        |-> FALSE,           \* so is the timerfd, for a retry timer
          closing    |-> FALSE,           \* so is the channel of the closed connection
          delay      |-> kInitRetryDelayMs,
          timers     |-> 0,               \* retry timers that are set
          fresh      |-> FALSE,           \* one was set since the last poll()
          sockets    |-> 0,               \* sockets the connector has open
          pending    |-> <<>>,            \* its functors in pendingFunctors_
          gaveUp     |-> FALSE,           \* history: connect() met a fatal error
          failed     |-> None]            \* the assert that failed
  /\ phase = "poll" /\ batch = <<>>
  /\ call = "none" /\ connects = 0 /\ stops = 0 /\ ended = "no"
-----------------------------------------------------------------------------
(* Connector *)

Fail(o, place) == [o EXCEPT !.failed = place]
Smaller(a, b) == IF a < b THEN a ELSE b

\* Mutant: no retry once the delay is at its maximum.
retryGivesUp(o) ==
  IF o.connect /\ o.delay < kMaxRetryDelayMs
  THEN [o EXCEPT !.sockets = @ - 1, !.state = "kDisconnected", !.timers = @ + 1, !.fresh = TRUE,
                 !.delay = Smaller(2 * @, kMaxRetryDelayMs)]
  ELSE [o EXCEPT !.sockets = @ - 1, !.state = "kDisconnected"]

retry(o) ==
  IF o.connect
  THEN [o EXCEPT !.sockets = @ - 1, !.state = "kDisconnected", !.timers = @ + 1, !.fresh = TRUE,
                 !.delay = Smaller(2 * @, kMaxRetryDelayMs)]
  ELSE [o EXCEPT !.sockets = @ - 1, !.state = "kDisconnected"]

\* Channel::remove() leads to the assert of EventLoop::removeChannel().
removeAndResetChannel(o) ==
  IF phase = "events" /\ o.active THEN Fail(o, "removeChannel")
  ELSE [o EXCEPT !.channel = "removed", !.pending = Append(@, "resetChannel")]

connecting(o) ==
  IF o.channel # "null" THEN Fail(o, "connecting")
  ELSE [o EXCEPT !.state = "kConnecting", !.channel = "armed"]

\* connect(): in progress, to be retried, or hopeless.
connect(o) ==
  LET open == [o EXCEPT !.sockets = @ + 1] IN
    {connecting(open), retry(open), [open EXCEPT !.sockets = @ - 1, !.gaveUp = TRUE]}

startInLoop(o) ==
  IF o.state # "kDisconnected" THEN {Fail(o, "startInLoop")}
  ELSE IF o.connect THEN connect(o) ELSE {o}

stopInLoop(o) ==
  IF o.state # "kConnecting" THEN o
  ELSE LET removed == removeAndResetChannel([o EXCEPT !.state = "kDisconnected"])
       IN IF removed.failed # None THEN removed ELSE retry(removed)

\* restart() up to its call of startInLoop().
restart(o) ==
  [o EXCEPT !.state = "kDisconnected", !.delay = kInitRetryDelayMs, !.connect = TRUE, !.step = "start"]

\* A new socket is given to TcpClient::newConnection().
newConnection(o) == [o EXCEPT !.sockets = @ - 1, !.connection = TRUE]

\* handleWrite() when the connection is made: with connect_ off it is closed.
handleWriteConnected(o) ==
  LET up == [removeAndResetChannel(o) EXCEPT !.state = "kConnected"]
  IN IF o.connect THEN newConnection(up) ELSE [up EXCEPT !.sockets = @ - 1]

\* handleWrite() with SO_ERROR set or a connection of the socket to itself.
handleWriteFailed(o) == retry(removeAndResetChannel(o))

handleWrite(o) ==
  IF o.state = "kConnecting" THEN {handleWriteConnected(o), handleWriteFailed(o)}
  ELSE IF o.state = "kDisconnected" THEN {o} ELSE {Fail(o, "handleWrite")}

handleError(o) ==
  IF o.state # "kConnecting" THEN Fail(o, "handleError") ELSE retry(removeAndResetChannel(o))

\* TcpClient::removeConnection(), called when the connection is closed, up to its call
\* of restart().
removeConnection(o) ==
  [o EXCEPT !.connection = FALSE, !.step = IF Retry /\ o.wanted THEN "restart" ELSE "none"]
-----------------------------------------------------------------------------
(* The loop *)

Alive == c.failed = None

\* poll() reports some of the channels that have events.  The delay of a retry
\* timer outlasts the handlers of an iteration: one that is set now is not due
\* before the next poll(), nor then if pending functors end the wait at once.
Poll ==
  /\ Alive /\ phase = "poll"
  /\ phase' = "events"
  /\ \E ready \in {FALSE, c.channel = "armed"}, closed \in {FALSE, c.connection},
        expired \in {FALSE, c.timers > 0 /\ ~(c.fresh /\ c.pending # <<>>)} :
       c' = [c EXCEPT !.active = ready, !.due = expired, !.closing = closed, !.fresh = FALSE]
  /\ UNCHANGED <<batch, userVars>>

\* handleEvent() of the channel of the connector with POLLOUT, POLLERR or both;
\* the error callback comes first.
HandleOut ==
  /\ Alive /\ phase = "events" /\ c.step = "none" /\ c.active
  /\ c' \in handleWrite([c EXCEPT !.active = FALSE])
  /\ UNCHANGED <<phase, batch, userVars>>

HandleErr ==
  /\ Alive /\ phase = "events" /\ c.step = "none" /\ c.active
  /\ LET o == handleError([c EXCEPT !.active = FALSE])
     IN c' \in IF o.failed # None THEN {o} ELSE {o} \cup handleWrite(o)
  /\ UNCHANGED <<phase, batch, userVars>>

\* Mutant: the retry timer repeats.
HandleTimerRepeats ==
  /\ Alive /\ phase = "events" /\ c.step = "none" /\ c.due
  /\ c' \in startInLoop([c EXCEPT !.due = FALSE])
  /\ c'.timers <= 2
  /\ UNCHANGED <<phase, batch, userVars>>

\* A retry timer expires.
HandleTimer ==
  /\ Alive /\ phase = "events" /\ c.step = "none" /\ c.due
  /\ c' \in startInLoop([c EXCEPT !.timers = @ - 1, !.due = FALSE])
  /\ UNCHANGED <<phase, batch, userVars>>

\* The connection is closed: TcpConnection::handleClose() calls removeConnection(),
\* which tests retry_ && connect_ ...
ConnectionCloses ==
  /\ Alive /\ phase = "events" /\ c.closing
  /\ c' = removeConnection([c EXCEPT !.closing = FALSE])
  /\ UNCHANGED <<phase, batch, userVars>>

\* ... and calls restart(), which sets connect_ of the connector ...
Restart ==
  /\ Alive /\ c.step = "restart"
  /\ c' = restart(c)
  /\ UNCHANGED <<phase, batch, userVars>>

\* ... and reads it again in startInLoop().
RestartStarts ==
  /\ Alive /\ c.step = "start"
  /\ c' \in startInLoop([c EXCEPT !.step = "none"])
  /\ UNCHANGED <<phase, batch, userVars>>

\* All events are handled: doPendingFunctors() swaps.
EventsDone ==
  /\ Alive /\ phase = "events" /\ c.step = "none" /\ ~c.active /\ ~c.due /\ ~c.closing
  /\ phase' = "functors"
  /\ batch' = c.pending
  /\ c' = [c EXCEPT !.pending = <<>>]
  /\ UNCHANGED userVars

\* Mutant: resetChannel() does nothing.
ResetNever ==
  /\ Alive /\ phase = "functors" /\ batch # <<>>
  /\ batch' = Tail(batch)
  /\ c' \in CASE Head(batch) = "startInLoop"  -> startInLoop(c)
              [] Head(batch) = "stopInLoop"   -> {stopInLoop(c)}
              [] Head(batch) = "resetChannel" -> {c}
  /\ UNCHANGED <<phase, userVars>>

\* The next functor; resetChannel() frees the channel.
RunFunctor ==
  /\ Alive /\ phase = "functors" /\ batch # <<>>
  /\ batch' = Tail(batch)
  /\ c' \in CASE Head(batch) = "startInLoop"  -> startInLoop(c)
              [] Head(batch) = "stopInLoop"   -> {stopInLoop(c)}
              [] Head(batch) = "resetChannel" -> {[c EXCEPT !.channel = "null"]}
  /\ UNCHANGED <<phase, userVars>>

FunctorsDone ==
  /\ Alive /\ phase = "functors" /\ batch = <<>>
  /\ phase' = "poll"
  /\ UNCHANGED <<c, batch, userVars>>
-----------------------------------------------------------------------------
(* The user *)

\* The user's code runs on the loop thread now.
OnLoopThread ==
  \/ "functor" \in CallFrom /\ phase = "functors"
  \/ "handler" \in CallFrom /\ phase = "events" /\ c.step = "none"

\* The user's code calls connect() or stop() on another thread now.
OnOtherThread == "thread" \in CallFrom /\ call = "none"

\* What a stop() is that clears connect_ now.
Stopped == IF c.step = "restart" THEN "overtaken" ELSE "stopped"

\* TcpClient::connect(), the first call, or one after a stop(): all of it on the loop
\* thread, or connect_ = true of the client on another thread.
Connect ==
  /\ Alive /\ connects < MaxConnects /\ connects <= stops
  /\ connects' = connects + 1
  /\ \/ /\ OnLoopThread
        /\ c' \in startInLoop([c EXCEPT !.wanted = TRUE, !.connect = TRUE])
        /\ ended' = "no" /\ UNCHANGED call
     \/ /\ OnOtherThread
        /\ c' = [c EXCEPT !.wanted = TRUE]
        /\ call' = "start" /\ UNCHANGED ended
  /\ UNCHANGED <<phase, batch, stops>>

\* TcpClient::stop(), likewise.
Stop ==
  /\ Alive /\ stops < MaxStops /\ connects > 0
  /\ stops' = stops + 1
  /\ \/ /\ OnLoopThread
        /\ c' = stopInLoop([c EXCEPT !.wanted = FALSE, !.connect = FALSE])
        /\ ended' = Stopped /\ UNCHANGED call
     \/ /\ OnOtherThread
        /\ c' = [c EXCEPT !.wanted = FALSE]
        /\ call' = "stop" /\ UNCHANGED ended
  /\ UNCHANGED <<phase, batch, connects>>

\* On the other thread Connector::start() and stop() set connect_ of the connector ...
SetConnect ==
  /\ Alive /\ call \in {"start", "stop"}
  /\ c' = [c EXCEPT !.connect = (call = "start")]
  /\ call' = IF call = "start" THEN "startInLoop" ELSE "stopInLoop"
  /\ ended' = IF call = "start" THEN "no" ELSE Stopped
  /\ UNCHANGED <<phase, batch, connects, stops>>

\* ... and runInLoop() queues the functor.
QueueFunctor ==
  /\ Alive /\ call \in {"startInLoop", "stopInLoop"}
  /\ c' = [c EXCEPT !.pending = Append(@, call)]
  /\ call' = "none"
  /\ UNCHANGED <<phase, batch, connects, stops, ended>>

\* TcpClient::disconnect(): the shutdown of the connection lets it close.
Disconnect ==
  /\ Alive /\ c.wanted
  /\ c' = [c EXCEPT !.wanted = FALSE]
  /\ UNCHANGED <<phase, batch, userVars>>

LoopStep ==
  \/ Poll \/ HandleOut \/ HandleErr \/ HandleTimer
  \/ ConnectionCloses \/ Restart \/ RestartStarts
  \/ EventsDone \/ RunFunctor \/ FunctorsDone
CallStep == SetConnect \/ QueueFunctor

Next == LoopStep \/ CallStep \/ Connect \/ Stop \/ Disconnect

Spec == Init /\ [][Next]_vars

\* The loop thread runs, and so does a thread within connect() or stop(); retry timers
\* expire, and the network reports the end of an attempt.
FairSpec ==
  /\ Spec /\ WF_vars(LoopStep) /\ WF_vars(CallStep)
  /\ SF_vars(Poll /\ c'.active) /\ SF_vars(Poll /\ c'.due)
-----------------------------------------------------------------------------
(* Properties *)

\* With one connect() and reconnections only, no assert of Connector.cpp and
\* EventLoop::removeChannel() fails, whenever stop() comes.
NoAssertFails == c.failed = None

\* The connector has a socket open exactly while it connects: retry() closes
\* it, newConnection() takes it over, and nothing is closed twice.  And as long
\* as connect_ is set, an attempt is under way, scheduled, queued or about to be
\* made by connect() or restart(): only a fatal error of connect(2) ends the attempts.
AttemptsAccounted ==
  Alive =>
    /\ c.sockets = IF c.state = "kConnecting" THEN 1 ELSE 0
    /\ (c.connect /\ c.state = "kDisconnected" /\ ~c.gaveUp) =>
         \/ c.timers > 0 \/ call = "startInLoop" \/ c.step = "start"
         \/ \E i \in 1..Len(c.pending) : c.pending[i] = "startInLoop"
         \/ \E i \in 1..Len(batch) : batch[i] = "startInLoop"

\* A stop() with no connect() after it ends every attempt for good, whatever the loop
\* was doing: no socket of the connector stays open and no retry timer stays set.
\* There is one exception: a stop() on another thread that clears connect_ after
\* removeConnection() has tested that the connection is wanted and before restart()
\* sets connect_ is lost, and the attempts go on.
StopQuiesces == <>[](ended = "stopped") => <>[](c.timers = 0 /\ c.sockets = 0)
=============================================================================
