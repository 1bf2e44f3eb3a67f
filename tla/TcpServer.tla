------------------------------ MODULE TcpServer -----------------------------
(***************************************************************************)
(* A TcpServer with its Acceptor and its EventLoopThreadPool               *)
(* (port/TcpServer.cpp, Acceptor.cpp, EventLoopThreadPool.cpp, Socket.cpp, *)
(* accept() of SocketsOps.cpp), from start() to the end of the program:    *)
(* the base loop accepts connections and gives them to the loops of the    *)
(* pool in turn, the process runs out of descriptors, and the server is    *)
(* destroyed when the base loop has returned.                              *)
(*                                                                         *)
(* Each loop runs its handlers (place "poll"), then takes its functors and *)
(* runs them (place "functors"), and looks at quit_ only then; what is     *)
(* pending when it ends is dropped.  A functor is <<name, connection>>; it *)
(* keeps its connection alive until the batch it is in is done.  What a    *)
(* connection sends and receives is left to module TcpConnection.          *)
(***************************************************************************)
EXTENDS Integers, Sequences

CONSTANTS
  ThreadNums,  \* arguments of setThreadNum()
  MaxPeers,    \* bound on the peers that connect
  NumFds,      \* the limit of the process, without the listening socket
  Radix,       \* 10 in the code
  NameDigits,  \* the digits of a connection's number that fit into its name
  None

ASSUME TcpServerAssumption ==
  /\ ThreadNums \subseteq Nat /\ \E n \in ThreadNums : \A m \in ThreadNums : m <= n
  /\ MaxPeers \in Nat /\ NumFds \in Nat \ {0}
  /\ Radix \in Nat \ {0, 1} /\ NameDigits \in Nat \ {0}
  /\ None \notin {"kConnecting", "kConnected", "kDisconnected"}

Fd == 0 .. NumFds - 1
Conn == 1 .. MaxPeers
MaxThreads == CHOOSE n \in ThreadNums : \A m \in ThreadNums : m <= n
base == 0                      \* the loop of the server; the others follow
Loop == base .. MaxThreads

VARIABLES
  numThreads,  \* numThreads_
  phase,       \* of the program: "new", "running", "destroyed", "over", "aborted"
  arrived,     \* number of peers that have connected ...
  served,      \* ... and of those that were accepted, refused or went away
  accepting,   \* where Acceptor::handleRead() is
  idleFd,      \* idleFd_
  owner,       \* what a descriptor is open for: For("idle"), a connection, ...
  nextLoop,    \* next_
  nextConnId,  \* nextConnId_
  connections, \* connections_: name -> connection, as a set of pairs
  state,       \* state_ of the connections
  channel,     \* connections whose Channel is in the poller of its loop
  loopOf,      \* connection -> its loop
  place,       \* loop -> "off", "poll", "functors", "ended"
  pending,     \* loop -> pendingFunctors_
  batch,       \* loop -> the functors that it has taken, and how many it has run
  quit,        \* the loops whose quit_ is set
  failed       \* the assert that failed

acceptVars == <<accepting, idleFd, nextLoop, nextConnId>>
connVars == <<state, channel, loopOf>>
loopVars == <<place, pending, batch, quit>>
vars == <<numThreads, phase, arrived, served, acceptVars, owner, connections, connVars, loopVars, failed>>

For(use) == <<use, 0>>
ForConn(c) == <<"connection", c>>
Nothing == For("nothing")

\* The Acceptor opens its reserve, idleFd_.
AcceptorInit ==
  /\ accepting = "idle" /\ idleFd = 0
  /\ owner = [f \in Fd |-> IF f = 0 THEN For("idle") ELSE Nothing]

\* The EventLoopThreadPool has no threads yet.
PoolInit ==
  /\ numThreads \in ThreadNums /\ nextLoop = 0
  /\ place = [l \in Loop |-> "off"]
  /\ pending = [l \in Loop |-> <<>>]
  /\ batch = [l \in Loop |-> [functors |-> <<>>, run |-> 0]]

\* The constructor of TcpServer.
Init ==
  /\ AcceptorInit /\ PoolInit
  /\ phase = "new" /\ arrived = 0 /\ served = 0
  /\ nextConnId = 1 /\ connections = {}
  /\ state = [c \in Conn |-> None]
  /\ channel = {} /\ loopOf = [c \in Conn |-> base]
  /\ quit = {} /\ failed = None

Alive == failed = None /\ phase # "aborted"
Free(own) == {f \in Fd : own[f] = Nothing}
Lowest(fds) == CHOOSE f \in fds : \A g \in fds : f <= g

\* The connections that connections_ or a functor refers to.
Referred(conns, pend, bat) ==
  {c \in Conn : \/ \E e \in conns : e[2] = c
                \/ \E l \in Loop : \/ \E i \in DOMAIN pend[l] : pend[l][i][2] = c
                                  \/ \E i \in DOMAIN bat[l].functors : bat[l].functors[i][2] = c}

\* ~Socket() of the connections without a reference closes their descriptors.
Closed(own, refs) == [f \in Fd |-> IF own[f][1] = "connection" /\ own[f][2] \notin refs THEN Nothing ELSE own[f]]
-----------------------------------------------------------------------------
(* TcpServer::start() *)

\* EventLoopThreadPool::start() returns when all its loops run.
StartPool == place' = [l \in Loop |-> IF l <= numThreads THEN "poll" ELSE "off"]

\* start(): the pool, Acceptor::listen() at once, and the base loop begins.
Start ==
  /\ Alive /\ phase = "new" /\ phase' = "running"
  /\ StartPool
  /\ UNCHANGED <<numThreads, arrived, served, acceptVars, owner, connections, connVars,
                 pending, batch, quit, failed>>

\* A peer connects; the kernel keeps it until accept().
Arrive ==
  /\ Alive /\ phase = "running" /\ arrived < MaxPeers
  /\ arrived' = arrived + 1
  /\ UNCHANGED <<numThreads, phase, served, acceptVars, owner, connections, connVars, loopVars, failed>>

\* Other parts of the program open and close descriptors.
OpenOther ==
  /\ Alive /\ phase = "running" /\ Free(owner) # {}
  /\ owner' = [owner EXCEPT ![Lowest(Free(owner))] = For("other")]
  /\ UNCHANGED <<numThreads, phase, arrived, served, acceptVars, connections, connVars, loopVars, failed>>
CloseOther(f) ==
  /\ Alive /\ owner[f] = For("other")
  /\ owner' = [owner EXCEPT ![f] = Nothing]
  /\ UNCHANGED <<numThreads, phase, arrived, served, acceptVars, connections, connVars, loopVars, failed>>
-----------------------------------------------------------------------------
(* Acceptor::handleRead() on the base loop *)

\* The place of the poller at which a handler of the base loop starts.
Readable == Alive /\ place[base] = "poll" /\ accepting = "idle" /\ arrived > served

\* EventLoopThreadPool::getNextLoop(): the loop, and next_ after it.
GetNextLoop == IF numThreads = 0 THEN base ELSE nextLoop + 1
NextAfter == IF numThreads = 0 THEN nextLoop
             ELSE IF nextLoop + 1 >= numThreads THEN 0 ELSE nextLoop + 1

\* The digits of a number, but for the last ones, that fit.
Cut(id, digits) ==
  LET cut[n \in 0 .. id] == IF n < Radix ^ digits THEN n ELSE cut[n \div Radix] IN cut[id]

\* Mutant: the buffer of snprintf() has one byte less.
ConnNameShort(id) == IF id < Radix ^ (NameDigits - 1) THEN id ELSE Cut(id, NameDigits - 1)

\* snprintf(buf, 32, ":%s#%d"): a number with too many digits is cut.
ConnName(id) == IF id < Radix ^ NameDigits THEN id ELSE Cut(id, NameDigits)

\* newConnection(): connection nextConnId_ enters connections_ under its name,
\* and its loop is to run connectEstablished(); the base loop does so at once.
NewConnection(fd) ==
  LET c == nextConnId
      l == GetNextLoop
  IN /\ owner' = [owner EXCEPT ![fd] = ForConn(c)]
     /\ nextLoop' = NextAfter /\ nextConnId' = nextConnId + 1
     /\ connections' = {e \in connections : e[1] # ConnName(c)} \cup {<<ConnName(c), c>>}
     /\ loopOf' = [loopOf EXCEPT ![c] = l]
     /\ state' = [state EXCEPT ![c] = IF l = base THEN "kConnected" ELSE "kConnecting"]
     /\ channel' = IF l = base THEN channel \cup {c} ELSE channel
     /\ pending' = IF l = base THEN pending
                   ELSE [pending EXCEPT ![l] = Append(@, <<"connectEstablished", c>>)]

\* accept() gets a descriptor.
Accept ==
  /\ Readable /\ Free(owner) # {}
  /\ NewConnection(Lowest(Free(owner)))
  /\ served' = served + 1
  /\ UNCHANGED <<numThreads, phase, arrived, accepting, idleFd, place, batch, quit, failed>>

\* accept() fails for a peer that has gone (ECONNABORTED and the like).
AcceptFails ==
  /\ Readable
  /\ served' = served + 1
  /\ UNCHANGED <<numThreads, phase, arrived, acceptVars, owner, connections, connVars, loopVars, failed>>

\* accept() fails with an error that LOG_FATAL ends the program for (ENFILE,
\* ENOBUFS, ENOMEM and others).
AcceptAborts ==
  /\ Readable
  /\ phase' = "aborted"
  /\ UNCHANGED <<numThreads, arrived, served, acceptVars, owner, connections, connVars, loopVars, failed>>

\* Mutant: EMFILE is only logged.
AcceptFullIgnores ==
  /\ Readable /\ Free(owner) = {}
  /\ UNCHANGED vars

\* accept() fails with EMFILE: idleFd_ is closed to make room ...
AcceptFull ==
  /\ Readable /\ Free(owner) = {}
  /\ accepting' = "refuse"
  /\ owner' = [f \in Fd |-> IF f = idleFd THEN Nothing ELSE owner[f]]
  /\ UNCHANGED <<numThreads, phase, arrived, served, idleFd, nextLoop, nextConnId, connections,
                 connVars, loopVars, failed>>

\* ... the peer is accepted, if it is still there and no other thread has taken
\* the room ...
Refuse ==
  /\ Alive /\ accepting = "refuse" /\ accepting' = "close"
  /\ \/ /\ Free(owner) # {}
        /\ idleFd' = Lowest(Free(owner))
        /\ owner' = [owner EXCEPT ![idleFd'] = For("refused")]
        /\ served' = served + 1
     \/ Free(owner) = {} /\ idleFd' = -1 /\ UNCHANGED <<owner, served>>
     \/ idleFd' = -1 /\ served' = served + 1 /\ UNCHANGED owner
  /\ UNCHANGED <<numThreads, phase, arrived, nextLoop, nextConnId, connections, connVars, loopVars, failed>>

\* ... and closed again ...
CloseRefused ==
  /\ Alive /\ accepting = "close" /\ accepting' = "reopen"
  /\ owner' = [f \in Fd |-> IF f = idleFd THEN Nothing ELSE owner[f]]
  /\ UNCHANGED <<numThreads, phase, arrived, served, idleFd, nextLoop, nextConnId, connections,
                 connVars, loopVars, failed>>

\* ... and /dev/null takes the room, if it is still there.
Reopen ==
  /\ Alive /\ accepting = "reopen" /\ accepting' = "idle"
  /\ IF Free(owner) # {}
     THEN /\ idleFd' = Lowest(Free(owner))
          /\ owner' = [owner EXCEPT ![idleFd'] = For("idle")]
     ELSE idleFd' = -1 /\ UNCHANGED owner
  /\ UNCHANGED <<numThreads, phase, arrived, served, nextLoop, nextConnId, connections, connVars, loopVars, failed>>

HandleRead == Accept \/ AcceptFull \/ Refuse \/ CloseRefused \/ Reopen
-----------------------------------------------------------------------------
(* The connections *)

\* removeConnectionInLoop() on the base loop, with pend before it.
RemoveConnectionInLoop(c, pend) ==
  /\ connections' = {e \in connections : e[1] # ConnName(c)}
  /\ failed' = IF \E e \in connections : e[1] = ConnName(c) THEN failed ELSE "removeConnectionInLoop"
  /\ pending' = [pend EXCEPT ![loopOf[c]] = Append(@, <<"connectDestroyed", c>>)]

\* The peer closes a connection: handleClose() and, through closeCallback_,
\* removeConnection().
HandleClose(c) ==
  LET l == loopOf[c] IN
  /\ Alive /\ c \in channel /\ state[c] = "kConnected" /\ place[l] = "poll"
  /\ l = base => accepting = "idle"
  /\ state' = [state EXCEPT ![c] = "kDisconnected"]
  /\ IF l = base THEN RemoveConnectionInLoop(c, pending)
     ELSE /\ pending' = [pending EXCEPT ![base] = Append(@, <<"removeConnectionInLoop", c>>)]
          /\ UNCHANGED <<connections, failed>>
  /\ UNCHANGED <<numThreads, phase, arrived, served, acceptVars, owner, channel, loopOf, place, batch, quit>>

\* doPendingFunctors(): the functors are taken ...
TakeFunctors(l) ==
  /\ Alive /\ place[l] = "poll" /\ (pending[l] # <<>> \/ l \in quit)
  /\ l = base => accepting = "idle"
  /\ place' = [place EXCEPT ![l] = "functors"]
  /\ batch' = [batch EXCEPT ![l] = [functors |-> pending[l], run |-> 0]]
  /\ pending' = [pending EXCEPT ![l] = <<>>]
  /\ UNCHANGED <<numThreads, phase, arrived, served, acceptVars, owner, connections, connVars, quit, failed>>

\* ... and run, one after the other.
RunFunctor(l) ==
  LET b == batch[l]
      f == b.functors[b.run + 1]
      c == f[2]
  IN
  /\ Alive /\ place[l] = "functors" /\ b.run < Len(b.functors)
  /\ batch' = [batch EXCEPT ![l].run = @ + 1]
  /\ \/ /\ f[1] = "connectEstablished"
        /\ IF state[c] = "kConnecting"
           THEN /\ state' = [state EXCEPT ![c] = "kConnected"] /\ channel' = channel \cup {c}
                /\ UNCHANGED failed
           ELSE failed' = "connectEstablished" /\ UNCHANGED <<state, channel>>
        /\ UNCHANGED <<connections, pending>>
     \/ /\ f[1] = "connectDestroyed"
        /\ state' = [state EXCEPT ![c] = "kDisconnected"] /\ channel' = channel \ {c}
        /\ UNCHANGED <<connections, pending, failed>>
     \/ /\ f[1] = "removeConnectionInLoop"
        /\ RemoveConnectionInLoop(c, pending)
        /\ UNCHANGED <<state, channel>>
  /\ UNCHANGED <<numThreads, phase, arrived, served, acceptVars, owner, loopOf, place, quit>>

\* The batch is destroyed, and quit_ is looked at.  The EventLoop of a thread of
\* the pool is destroyed with what is pending in it; the base loop is kept.
EndBatch(l) ==
  /\ Alive /\ place[l] = "functors" /\ batch[l].run = Len(batch[l].functors)
  /\ batch' = [batch EXCEPT ![l] = [functors |-> <<>>, run |-> 0]]
  /\ place' = [place EXCEPT ![l] = IF l \in quit THEN "ended" ELSE "poll"]
  /\ pending' = IF l \in quit /\ l # base THEN [pending EXCEPT ![l] = <<>>] ELSE pending
  /\ owner' = Closed(owner, Referred(connections, pending', batch'))
  /\ UNCHANGED <<numThreads, phase, arrived, served, acceptVars, connections, connVars, quit, failed>>
-----------------------------------------------------------------------------
(* The end *)

\* quit() of the base loop, by any thread.
Quit ==
  /\ Alive /\ phase = "running" /\ base \notin quit
  /\ quit' = quit \cup {base}
  /\ UNCHANGED <<numThreads, phase, arrived, served, acceptVars, owner, connections, connVars,
                 place, pending, batch, failed>>

\* Mutant: ~TcpServer() only drops its connections.
DestroyConnectionSilently(e) ==
  /\ Alive /\ phase = "running" /\ place[base] = "ended" /\ e \in connections
  /\ connections' = connections \ {e}
  /\ owner' = Closed(owner, Referred(connections', pending, batch))
  /\ UNCHANGED <<numThreads, phase, arrived, served, acceptVars, connVars, loopVars, failed>>

\* ~TcpServer(), after loop() has returned: the references in connections_ are
\* given up one by one, for runInLoop(connectDestroyed), which is at once on the
\* base loop.  The other loops go on meanwhile.
DestroyConnection(e) ==
  LET c == e[2]
      l == loopOf[c]
  IN
  /\ Alive /\ phase = "running" /\ place[base] = "ended" /\ e \in connections
  /\ connections' = connections \ {e}
  /\ state' = IF l = base THEN [state EXCEPT ![c] = "kDisconnected"] ELSE state
  /\ channel' = IF l = base THEN channel \ {c} ELSE channel
  /\ pending' = IF l = base THEN pending
                ELSE [pending EXCEPT ![l] = Append(@, <<"connectDestroyed", c>>)]
  /\ owner' = Closed(owner, Referred(connections', pending', batch))
  /\ UNCHANGED <<numThreads, phase, arrived, served, acceptVars, loopOf, place, batch, quit, failed>>

\* The body of ~TcpServer() is done, and its members are destroyed.
ServerDone == phase = "running" /\ place[base] = "ended" /\ connections = {}

\* ~EventLoopThread() of one thread after the other: quit(), and join().
QuitThread(l) ==
  /\ Alive /\ ServerDone /\ l \in 1 .. numThreads \ quit
  /\ \A m \in 1 .. l - 1 : place[m] = "ended"
  /\ quit' = quit \cup {l}
  /\ UNCHANGED <<numThreads, phase, arrived, served, acceptVars, owner, connections, connVars,
                 place, pending, batch, failed>>

\* ~Acceptor(), when all threads are joined.
DestroyAcceptor ==
  /\ Alive /\ ServerDone /\ \A l \in 1 .. numThreads : place[l] = "ended"
  /\ phase' = "destroyed"
  /\ owner' = [f \in Fd |-> IF f = idleFd THEN Nothing ELSE owner[f]]
  /\ UNCHANGED <<numThreads, arrived, served, acceptVars, connections, connVars, loopVars, failed>>

\* The base EventLoop is destroyed with what is pending in it.
DestroyBase ==
  /\ Alive /\ phase = "destroyed" /\ phase' = "over"
  /\ pending' = [pending EXCEPT ![base] = <<>>]
  /\ owner' = Closed(owner, {})
  /\ UNCHANGED <<numThreads, arrived, served, acceptVars, connections, connVars, place, batch, quit, failed>>

LoopStep(l) == TakeFunctors(l) \/ RunFunctor(l) \/ EndBatch(l)

Next ==
  \/ Start \/ Arrive \/ OpenOther \/ HandleRead \/ AcceptFails \/ AcceptAborts \/ Quit
  \/ DestroyAcceptor \/ DestroyBase
  \/ \E e \in connections : DestroyConnection(e)
  \/ \E f \in Fd : CloseOther(f)
  \/ \E c \in Conn : HandleClose(c)
  \/ \E l \in Loop : LoopStep(l) \/ QuitThread(l)

Spec == Init /\ [][Next]_vars

\* The loops run; the base loop comes back to the listening socket, which the
\* poller reports as long as a peer waits, whatever else it has to do.
FairSpec == Spec /\ SF_vars(HandleRead) /\ \A l \in Loop : WF_vars(LoopStep(l))
-----------------------------------------------------------------------------
(* Properties *)

\* A descriptor is closed by whoever opened it, and by nobody else: outside the
\* steps of handleRead() idleFd_ is the reserve or -1, a connection that anything
\* refers to has exactly one descriptor, no TcpConnection is destroyed while its
\* Channel is still in the poller of a loop that runs, whether the peer, the loops
\* or the destructor of the server are first, and at the end only the descriptors
\* of other parts of the program are open.
DescriptorsOwned ==
  /\ accepting = "idle" /\ phase \notin {"destroyed", "over"} => idleFd = -1 \/ owner[idleFd] = For("idle")
  /\ \A f \in Fd : owner[f] \in {For("idle"), For("refused")} => f = idleFd
  /\ \A c \in Referred(connections, pending, batch) : \E f \in Fd : {g \in Fd : owner[g] = ForConn(c)} = {f}
  /\ \A c \in channel : (\E f \in Fd : owner[f] = ForConn(c)) \/ place[loopOf[c]] = "ended"
  /\ phase = "over" => \A f \in Fd : owner[f] \in {Nothing, For("other")}

\* removeConnectionInLoop(): "assert(n == 1)", and the assert of
\* connectEstablished(): every connection is in connections_ until its removal,
\* whoever closes it, in whatever order.
NoAssertFails == failed = None

\* A peer that connects is accepted or turned away in the end, although the
\* process has no descriptor left: unless another thread took the reserve in
\* the middle of handleRead(), or the loop is to end.
BacklogServed ==
  (served < arrived) ~> \/ served >= arrived \/ base \in quit \/ ~Alive
                        \/ accepting = "refuse" /\ Free(owner) = {}
                        \/ accepting = "idle" /\ idleFd = -1
=============================================================================
