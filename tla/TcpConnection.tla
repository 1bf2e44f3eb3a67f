---------------------------- MODULE TcpConnection ---------------------------
(***************************************************************************)
(* A TcpConnection of a TcpServer (port/TcpConnection.cpp,                 *)
(* port/TcpServer.cpp): it lives on an I/O loop, the server on a loop of   *)
(* its own, and other threads send and shut down.                          *)
(*                                                                         *)
(* The connection is one record and its methods are operators on it, or on *)
(* sets of results where the kernel decides.  The functors of the two      *)
(* loops are sequences of the names of what they call; a message is a      *)
(* sequence of cells <<sender, number, position>>.  A failed assert stores *)
(* its place in "failed" and ends the program; so does a call through the  *)
(* raw pointer to a server that is gone.  Threads that send hold a         *)
(* TcpConnectionPtr, so the connection itself outlives their functors.     *)
(***************************************************************************)
EXTENDS Naturals, Sequences

CONSTANTS
  Thread,        \* threads other than the two loop threads
  MaxMessages,   \* bound on the messages of a sender
  MsgLen,        \* cells of a message
  ShutdownFrom,  \* who calls shutdown(): "loop" (a callback), "thread"
  MayDestroy,    \* the TcpServer may be destroyed
  None

ASSUME TcpConnectionAssumption ==
  /\ MaxMessages \in Nat /\ MsgLen \in Nat \ {0}
  /\ ShutdownFrom \subseteq {"loop", "thread"} /\ MayDestroy \in BOOLEAN
  /\ "loop" \notin Thread /\ None # "remove"

VARIABLES
  k,          \* the connection
  ioLoop,     \* pendingFunctors_ of its loop
  baseLoop,   \* pendingFunctors_ of the loop of the server
  inMap,      \* it is in connections_
  server,     \* the TcpServer exists
  threadPc,   \* where the threads are in send() and shutdown()
  count       \* messages sent by each sender

vars == <<k, ioLoop, baseLoop, inMap, server, threadPc, count>>

Sender == Thread \cup {"loop"}

\* newConnection() has made the connection and queued connectEstablished().
Init ==
  /\ k = [state      |-> "kConnecting",  \* state_
          reading    |-> FALSE,          \* the events of channel_
          writing    |-> FALSE,
          registered |-> FALSE,          \* channel_ is in the poller
          output     |-> <<>>,           \* outputBuffer_
          wire       |-> <<>>,           \* what the kernel accepted
          fin        |-> FALSE,          \* shutdownWrite() was called
          reset      |-> FALSE,          \* the peer is gone
          accepted   |-> <<>>,           \* history: what sendInLoop() took on
          failed     |-> None]           \* the assert that failed
  /\ ioLoop = <<<<"connectEstablished">>>> /\ baseLoop = <<>>
  /\ inMap = TRUE /\ server = TRUE
  /\ threadPc = [t \in Thread |-> "idle"]
  /\ count = [s \in Sender |-> 0]

Fail(o, place) == [o EXCEPT !.failed = place]
Alive == k.failed = None
From(s, i) == SubSeq(s, i, Len(s))
-----------------------------------------------------------------------------
(* Methods of the connection *)

\* write(2) accepts some of the cells, or none for now; it fails when the
\* write side is closed or the peer is gone.
Broken(o) == o.reset \/ o.fin
Written(o, data) == IF Broken(o) THEN {} ELSE 0..Len(data)

\* outputBuffer_.append() and enableWriting(), which updates the poller.
Buffered(o, data) ==
  IF data = <<>> THEN o
  ELSE [o EXCEPT !.output = @ \o data, !.writing = TRUE, !.registered = TRUE]

\* Write n cells and buffer the rest.
WriteSome(o, data, n) ==
  Buffered([o EXCEPT !.wire = @ \o SubSeq(data, 1, n), !.accepted = @ \o data],
           From(data, n + 1))

\* Mutant: data is written at once although older data is still buffered.
sendInLoopAtOnce(o, data) ==
  IF o.state = "kDisconnected" THEN {o}
  ELSE {WriteSome(o, data, n) : n \in Written(o, data)}

\* sendInLoop(): write at once if nothing is buffered, buffer the rest and wait
\* for POLLOUT.  EPIPE drops the message; any other error keeps it.
sendInLoop(o, data) ==
  IF o.state = "kDisconnected" THEN {o}
  ELSE IF o.writing \/ o.output # <<>> THEN {WriteSome(o, data, 0)}
  ELSE {WriteSome(o, data, n) : n \in Written(o, data)}
       \cup (IF Broken(o) THEN {o} ELSE {})
       \cup (IF o.reset /\ ~o.fin THEN {WriteSome(o, data, 0)} ELSE {})

\* Mutant: the output buffer is not looked at.
shutdownInLoopAtOnce(o) == [o EXCEPT !.fin = TRUE]

shutdownInLoop(o) == IF o.writing THEN o ELSE [o EXCEPT !.fin = TRUE]

\* n cells of the output buffer are written; without a rest, writing stops.
Drain(o, n) ==
  [o EXCEPT !.wire = @ \o SubSeq(o.output, 1, n), !.output = From(@, n + 1),
            !.writing = n < Len(o.output)]

\* Mutant: the shutdown that waits for the output is forgotten.
handleWriteForgets(o) ==
  {Drain(o, n) : n \in Written(o, o.output)} \cup (IF Broken(o) THEN {o} ELSE {})

\* handleWrite(): when all is written, the shutdown that waited is done.
handleWrite(o) ==
  {IF n = Len(o.output) /\ o.state = "kDisconnecting" THEN shutdownInLoop(Drain(o, n)) ELSE Drain(o, n)
     : n \in Written(o, o.output)}
  \cup (IF Broken(o) THEN {o} ELSE {})

\* handleClose(), up to closeCallback_.
handleClose(o) ==
  IF o.state \notin {"kConnected", "kDisconnecting"} THEN Fail(o, "handleClose")
  ELSE [o EXCEPT !.state = "kDisconnected", !.reading = FALSE, !.writing = FALSE]

connectEstablished(o) ==
  IF o.state # "kConnecting" THEN Fail(o, "connectEstablished")
  ELSE [o EXCEPT !.state = "kConnected", !.reading = TRUE, !.registered = TRUE]

\* connectDestroyed(): Channel::remove() asserts that no event is enabled.
connectDestroyed(o) ==
  LET off == IF o.state = "kConnected"
             THEN [o EXCEPT !.state = "kDisconnected", !.reading = FALSE, !.writing = FALSE]
             ELSE o
  IN IF off.reading \/ off.writing THEN Fail(off, "remove") ELSE [off EXCEPT !.registered = FALSE]

Message(s) == [i \in 1..MsgLen |-> <<s, count[s] + 1, i>>]
-----------------------------------------------------------------------------
(* The I/O loop *)

\* The next functor.
RunFunctor ==
  /\ Alive /\ ioLoop # <<>>
  /\ LET f == Head(ioLoop) IN
       k' \in CASE f[1] = "connectEstablished" -> {connectEstablished(k)}
                [] f[1] = "connectDestroyed"   -> {connectDestroyed(k)}
                [] f[1] = "shutdownInLoop"     -> {shutdownInLoop(k)}
                [] f[1] = "sendInLoop"         -> sendInLoop(k, f[2])
  /\ ioLoop' = Tail(ioLoop)
  /\ UNCHANGED <<baseLoop, inMap, server, threadPc, count>>

\* POLLOUT
HandleWrite ==
  /\ Alive /\ k.registered /\ k.writing
  /\ k' \in handleWrite(k)
  /\ UNCHANGED <<ioLoop, baseLoop, inMap, server, threadPc, count>>

\* handleRead() gets data: the message callback may answer or shut down.
HandleMessage ==
  /\ Alive /\ k.registered /\ k.reading /\ ~k.reset
  /\ \/ /\ k.state = "kConnected" /\ count["loop"] < MaxMessages
        /\ k' \in sendInLoop(k, Message("loop"))
        /\ count' = [count EXCEPT !["loop"] = @ + 1]
     \/ /\ k.state = "kConnected" /\ "loop" \in ShutdownFrom
        /\ k' = shutdownInLoop([k EXCEPT !.state = "kDisconnecting"])
        /\ UNCHANGED count
  /\ UNCHANGED <<ioLoop, baseLoop, inMap, server, threadPc>>

\* handleRead() gets 0, or POLLHUP: handleClose() and its closeCallback_,
\* TcpServer::removeConnection() on a raw pointer to the server.
HandleClose ==
  /\ Alive /\ k.registered /\ k.reading
  /\ k' = IF server THEN handleClose(k) ELSE Fail(handleClose(k), "closeCallback")
  /\ baseLoop' = Append(baseLoop, "removeConnectionInLoop")
  /\ UNCHANGED <<ioLoop, inMap, server, threadPc, count>>
-----------------------------------------------------------------------------
(* The loop of the server *)

\* Mutant: connectDestroyed() is not queued.
RemoveConnectionSilently ==
  /\ Alive /\ baseLoop # <<>>
  /\ baseLoop' = Tail(baseLoop)
  /\ inMap' = FALSE
  /\ UNCHANGED <<k, ioLoop, server, threadPc, count>>

\* removeConnectionInLoop(), bound to a raw pointer to the server.
RemoveConnectionInLoop ==
  /\ Alive /\ baseLoop # <<>>
  /\ baseLoop' = Tail(baseLoop)
  /\ IF server /\ inMap
     THEN /\ ioLoop' = Append(ioLoop, <<"connectDestroyed">>)
          /\ UNCHANGED k
     ELSE k' = Fail(k, "removeConnectionInLoop") /\ UNCHANGED ioLoop
  /\ inMap' = FALSE
  /\ UNCHANGED <<server, threadPc, count>>

\* ~TcpServer(): the connections that are left are destroyed.
DestroyServer ==
  /\ Alive /\ MayDestroy /\ server
  /\ server' = FALSE /\ inMap' = FALSE
  /\ ioLoop' = IF inMap THEN Append(ioLoop, <<"connectDestroyed">>) ELSE ioLoop
  /\ UNCHANGED <<k, baseLoop, threadPc, count>>
-----------------------------------------------------------------------------
(* Other threads and the peer *)

\* send(): the test of state_, then the functor.
Send(t) ==
  /\ Alive /\ threadPc[t] = "idle" /\ k.state = "kConnected" /\ count[t] < MaxMessages
  /\ threadPc' = [threadPc EXCEPT ![t] = "send"]
  /\ UNCHANGED <<k, ioLoop, baseLoop, inMap, server, count>>

QueueSend(t) ==
  /\ Alive /\ threadPc[t] = "send"
  /\ ioLoop' = Append(ioLoop, <<"sendInLoop", Message(t)>>)
  /\ count' = [count EXCEPT ![t] = @ + 1]
  /\ threadPc' = [threadPc EXCEPT ![t] = "idle"]
  /\ UNCHANGED <<k, baseLoop, inMap, server>>

\* shutdown(): the test of state_, then kDisconnecting and the functor.
Shutdown(t) ==
  /\ Alive /\ "thread" \in ShutdownFrom /\ threadPc[t] = "idle" /\ k.state = "kConnected"
  /\ threadPc' = [threadPc EXCEPT ![t] = "shutdown"]
  /\ UNCHANGED <<k, ioLoop, baseLoop, inMap, server, count>>

QueueShutdown(t) ==
  /\ Alive /\ threadPc[t] = "shutdown"
  /\ k' = [k EXCEPT !.state = "kDisconnecting"]
  /\ ioLoop' = Append(ioLoop, <<"shutdownInLoop">>)
  /\ threadPc' = [threadPc EXCEPT ![t] = "idle"]
  /\ UNCHANGED <<baseLoop, inMap, server, count>>

\* The peer resets the connection.
PeerReset ==
  /\ Alive /\ ~k.reset
  /\ k' = [k EXCEPT !.reset = TRUE]
  /\ UNCHANGED <<ioLoop, baseLoop, inMap, server, threadPc, count>>

Next ==
  \/ RunFunctor \/ HandleWrite \/ HandleMessage \/ HandleClose
  \/ RemoveConnectionInLoop \/ DestroyServer \/ PeerReset
  \/ \E t \in Thread : Send(t) \/ QueueSend(t) \/ Shutdown(t) \/ QueueShutdown(t)

Spec == Init /\ [][Next]_vars

\* Both loops run, the threads finish their calls, and a peer that is there
\* makes room for more data again and again.
FairSpec ==
  /\ Spec
  /\ WF_vars(RunFunctor) /\ WF_vars(RemoveConnectionInLoop)
  /\ SF_vars(HandleWrite /\ k'.wire # k.wire)
  /\ \A t \in Thread : WF_vars(QueueSend(t) \/ QueueShutdown(t))
-----------------------------------------------------------------------------
(* Properties *)

\* What is written and what is buffered are, in this order, what sendInLoop()
\* took on: nothing is lost, repeated or overtaken, however write() splits it.
OutputInOrder == k.wire \o k.output = k.accepted

\* The write side of an open connection is closed only when the output buffer is
\* empty.
FinAfterOutput == k.fin /\ k.reading => k.output = <<>>

\* shutdown() closes the write side in the end, unless the connection is
\* closed or reset first.
ShutdownCompletes ==
  (k.state = "kDisconnecting") ~> (k.fin \/ k.reset \/ k.state = "kDisconnected" \/ ~Alive)

\* A closed connection leaves the map of the server and the poller.
ClosedIsRemoved ==
  (k.state = "kDisconnected") ~> ((~inMap /\ ~k.registered) \/ ~Alive)

\* Channel::remove(): "assert(isNoneEvent())".
RemovesDisabledChannel == k.failed # "remove"
=============================================================================
