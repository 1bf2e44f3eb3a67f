---------------------------- MODULE TcpServerProofs ----------------------------
(***************************************************************************)
(* TcpServer closes each descriptor once and in time, and its asserts      *)
(* hold, for any number of threads, peers and descriptors.                 *)
(***************************************************************************)
EXTENDS TcpServer, TLAPS

\* The numbers of the connections fit into their names.
NumbersFit == \A c \in Conn : c < Radix ^ NameDigits

\* No connection has the name of another one.
DistinctNames == \A c, d \in Conn : ConnName(c) = ConnName(d) => c = d

\* Numbers that are not cut make different names.
LEMMA NamesDiffer == NumbersFit => DistinctNames
BY Zenon DEF NumbersFit, DistinctNames, ConnName
-----------------------------------------------------------------------------
(* What a loop has to run *)

Functor == {"connectEstablished", "connectDestroyed", "removeConnectionInLoop"} \X Conn
Batch == {b \in [functors : Seq(Functor), run : Nat] : b.run <= Len(b.functors)}

Establish(c) == <<"connectEstablished", c>>
Destroy(c) == <<"connectDestroyed", c>>
Remove(c) == <<"removeConnectionInLoop", c>>

\* The functors of batch b that are left, and those of p after them.
Size(b, p) == Len(b.functors) - b.run + Len(p)
At(b, p, i) == IF i <= Len(b.functors) - b.run THEN b.functors[b.run + i]
               ELSE p[i - (Len(b.functors) - b.run)]

Has(b, p, f) == \E i \in 1 .. Size(b, p) : At(b, p, i) = f
Once(b, p, f) == \A i, j \in 1 .. Size(b, p) : At(b, p, i) = f /\ At(b, p, j) = f => i = j
Before(b, p, f, g) == \A i, j \in 1 .. Size(b, p) : At(b, p, i) = f /\ At(b, p, j) = g => i < j

\* A queue that holds the connection alive.
Holds(q, c) == \E i \in 1 .. Len(q) : q[i][2] = c

\* A functor tells its member function and its connection.
LEMMA FunctorNames ==
  ASSUME NEW c \in Conn
  PROVE  /\ Establish(c) \in Functor /\ Destroy(c) \in Functor /\ Remove(c) \in Functor
         /\ Establish(c)[2] = c /\ Destroy(c)[2] = c /\ Remove(c)[2] = c
         /\ \A d \in Conn : /\ Establish(c) # Destroy(d) /\ Establish(c) # Remove(d) /\ Destroy(c) # Remove(d)
                            /\ (Establish(c) = Establish(d) => c = d)
                            /\ (Destroy(c) = Destroy(d) => c = d)
                            /\ (Remove(c) = Remove(d) => c = d)
BY Zenon DEF Establish, Destroy, Remove, Functor

\* What Append() does to a queue of functors.
LEMMA AppendFacts ==
  ASSUME NEW p \in Seq(Functor), NEW f \in Functor
  PROVE  /\ Append(p, f) \in Seq(Functor) /\ Len(p) \in Nat /\ Len(Append(p, f)) = Len(p) + 1
         /\ \A i \in 1 .. Len(p) : Append(p, f)[i] = p[i]
         /\ Append(p, f)[Len(p) + 1] = f
OBVIOUS

\* Nothing is pending after an empty queue.
LEMMA AtEmpty ==
  ASSUME NEW b \in Batch, NEW p \in Seq(Functor), NEW f
  PROVE  /\ Len(p) \in Nat /\ Size(b, p) \in Nat
         /\ b.run = Len(b.functors) => Size(b, p) = Len(p) /\ \A i \in 1 .. Len(p) : At(b, p, i) = p[i]
         /\ b.run = 0 => /\ Size(b, <<>>) = Len(b.functors)
                         /\ \A i \in 1 .. Len(b.functors) : At(b, <<>>, i) = b.functors[i]
         /\ b.run = Len(b.functors) => ~Has(b, <<>>, f)
BY DEF Batch, Size, At, Has

\* A functor that is queued is the last one.
LEMMA Queued ==
  ASSUME NEW b \in Batch, NEW p \in Seq(Functor), NEW f \in Functor
  PROVE  LET r == Append(p, f) IN
         /\ r \in Seq(Functor)
         /\ \A g \in Functor : Has(b, r, g) <=> Has(b, p, g) \/ g = f
         /\ \A g \in Functor : Once(b, p, g) /\ (g = f => ~Has(b, p, g)) => Once(b, r, g)
         /\ \A g, h \in Functor : Before(b, p, g, h) /\ g # h /\ (g = f => ~Has(b, p, h)) => Before(b, r, g, h)
<1> DEFINE r == Append(p, f)
           n == Size(b, p)
<1>1. /\ r \in Seq(Functor) /\ n \in Nat /\ Size(b, r) = n + 1
      /\ At(b, r, n + 1) = f
      /\ \A i \in 1 .. n : At(b, r, i) = At(b, p, i)
  BY AppendFacts DEF Batch, Size, At
<1>2. \A i \in 1 .. n + 1 : i \in 1 .. n \/ i = n + 1
  BY <1>1
<1>3. 1 .. n \subseteq 1 .. n + 1 /\ n + 1 \in 1 .. n + 1 /\ \A i \in 1 .. n : i < n + 1
  BY <1>1
<1> HIDE DEF r, n
<1>4. ASSUME NEW g \in Functor PROVE Has(b, r, g) <=> Has(b, p, g) \/ g = f
  BY <1>1, <1>2, <1>3, Zenon DEF Has, n
<1>5. ASSUME NEW g \in Functor, Once(b, p, g), g = f => ~Has(b, p, g) PROVE Once(b, r, g)
  BY <1>1, <1>2, <1>3, <1>5, Zenon DEF Has, Once, n
<1>6. ASSUME NEW g \in Functor, NEW h \in Functor, Before(b, p, g, h), g # h, g = f => ~Has(b, p, h)
      PROVE  Before(b, r, g, h)
  BY <1>1, <1>2, <1>3, <1>6, Zenon DEF Has, Before, n
<1> QED
  BY <1>1, <1>4, <1>5, <1>6, Zenon DEF r

\* The functor that is run is the first one.
LEMMA RunFirst ==
  ASSUME NEW b \in Batch, NEW p \in Seq(Functor), b.run < Len(b.functors)
  PROVE  LET a == [b EXCEPT !.run = @ + 1]
             e == b.functors[b.run + 1] IN
         /\ a \in Batch /\ a.functors = b.functors /\ e \in Functor /\ Has(b, p, e)
         /\ \A g \in Functor : Has(b, p, g) <=> g = e \/ Has(a, p, g)
         /\ \A g \in Functor : Once(b, p, g) => Once(a, p, g) /\ (g = e => ~Has(a, p, g))
         /\ \A g, h \in Functor : Before(b, p, g, h) => Before(a, p, g, h) /\ (h = e => ~Has(b, p, g))
<1> DEFINE a == [b EXCEPT !.run = @ + 1]
           e == b.functors[b.run + 1]
           n == Size(a, p)
<1>1. a \in Batch /\ a.functors = b.functors /\ a.run = b.run + 1 /\ e \in Functor
  BY DEF Batch
<1> HIDE DEF a
<1>2. n \in Nat /\ Size(b, p) = n + 1
  <2>1. Len(b.functors) \in Nat /\ b.run \in Nat /\ Len(p) \in Nat
    BY DEF Batch
  <2>2. \A i, j, k \in Nat : j < i => (i - (j + 1)) + k \in Nat /\ (i - j) + k = ((i - (j + 1)) + k) + 1
    OBVIOUS
  <2>3. Size(a, p) = (Len(b.functors) - (b.run + 1)) + Len(p)
    BY <1>1, Zenon DEF Size
  <2>4. Size(b, p) = (Len(b.functors) - b.run) + Len(p)
    BY Zenon DEF Size
  <2>5. /\ (Len(b.functors) - (b.run + 1)) + Len(p) \in Nat
        /\ (Len(b.functors) - b.run) + Len(p) = ((Len(b.functors) - (b.run + 1)) + Len(p)) + 1
    BY <2>1, <2>2, Zenon
  <2> HIDE DEF a
  <2> QED
    BY <2>3, <2>4, <2>5, Zenon
<1>3. At(b, p, 1) = e /\ \A i \in 1 .. n : At(b, p, i + 1) = At(a, p, i)
  <2>1. At(b, p, 1) = e
    BY DEF Batch, At
  <2>2. ASSUME NEW i \in 1 .. n PROVE At(b, p, i + 1) = At(a, p, i)
    <3>1. b.run \in Nat /\ Len(b.functors) \in Nat
      BY DEF Batch
    <3> DEFINE m == Len(b.functors)
               k == b.run
    <3>2. i \in Nat /\ m \in Nat /\ k \in Nat /\ a.run = k + 1
      BY <1>1, <1>2, <3>1
    <3> HIDE DEF m, k
    <3>3. /\ k + (i + 1) = a.run + i
          /\ (i + 1) - (m - k) = i - (m - a.run)
          /\ i + 1 <= m - k <=> i <= m - a.run
      BY <3>2
    <3> QED
      BY <3>3, <1>1, Zenon DEF At, m, k
  <2> QED
    BY <2>1, <2>2, Zenon
<1>4. /\ \A i \in 1 .. n : i + 1 \in 1 .. n + 1 /\ i + 1 # 1
      /\ \A i \in 1 .. n + 1 : i = 1 \/ (i - 1 \in 1 .. n /\ (i - 1) + 1 = i)
      /\ \A i, j \in 1 .. n : (i + 1 = j + 1 <=> i = j) /\ (i + 1 < j + 1 <=> i < j)
      /\ 1 \in 1 .. n + 1 /\ \A i \in 1 .. n + 1 : ~(i < 1)
  BY <1>2
<1> HIDE DEF e, n
<1>5. \A i \in 1 .. n + 1 : i = 1 \/ \E j \in 1 .. n : i = j + 1
  BY <1>4, Zenon
<1>6. ASSUME NEW g \in Functor PROVE Has(b, p, g) <=> g = e \/ Has(a, p, g)
  BY <1>2, <1>3, <1>4, <1>5 DEF Has, n
<1>7. ASSUME NEW g \in Functor, Once(b, p, g) PROVE Once(a, p, g) /\ (g = e => ~Has(a, p, g))
  <2>1. Once(a, p, g)
    BY <1>2, <1>3, <1>4, <1>7 DEF Once, n
  <2>2. g = e => ~Has(a, p, g)
    BY <1>2, <1>3, <1>4, <1>7, Zenon DEF Once, Has, n
  <2> QED
    BY <2>1, <2>2, Zenon
<1>8. ASSUME NEW g \in Functor, NEW h \in Functor, Before(b, p, g, h)
      PROVE  Before(a, p, g, h) /\ (h = e => ~Has(b, p, g))
  <2>1. Before(a, p, g, h)
    BY <1>2, <1>3, <1>4, <1>8 DEF Before, n
  <2>2. h = e => ~Has(b, p, g)
    BY <1>2, <1>3, <1>4, <1>8, Zenon DEF Before, Has, n
  <2> QED
    BY <2>1, <2>2, Zenon
<1>9. Has(b, p, e)
  BY <1>6, <1>1, Zenon
<1> QED
  BY <1>1, <1>6, <1>7, <1>8, <1>9, Zenon DEF a, e

\* What is to be run holds its connection alive.
LEMMA HasHolds ==
  ASSUME NEW b \in Batch, NEW p \in Seq(Functor), NEW f \in Functor, Has(b, p, f)
  PROVE  Holds(b.functors, f[2]) \/ Holds(p, f[2])
<1>1. PICK i \in 1 .. Size(b, p) : At(b, p, i) = f
  BY Zenon DEF Has
<1>2. CASE i <= Len(b.functors) - b.run
  <2>1. b.run + i \in 1 .. Len(b.functors) /\ b.functors[b.run + i] = f
    BY <1>1, <1>2 DEF Batch, Size, At
  <2> QED
    BY <2>1, Zenon DEF Holds
<1>3. CASE ~(i <= Len(b.functors) - b.run)
  <2> DEFINE j == i - (Len(b.functors) - b.run)
  <2>1. j \in 1 .. Len(p) /\ p[j] = f
    BY <1>1, <1>3 DEF Batch, Size, At
  <2> HIDE DEF j
  <2> QED
    BY <2>1, Zenon DEF Holds
<1> QED
  BY <1>2, <1>3, Zenon

\* A functor that is queued holds its connection alive, and the others go on to.
LEMMA HoldsAppend ==
  ASSUME NEW p \in Seq(Functor), NEW f \in Functor, NEW c
  PROVE  Holds(Append(p, f), c) <=> Holds(p, c) \/ f[2] = c
<1>1. \A i \in 1 .. Len(p) + 1 : i \in 1 .. Len(p) \/ i = Len(p) + 1
  BY AppendFacts
<1>2. 1 .. Len(p) \subseteq 1 .. Len(p) + 1 /\ Len(p) + 1 \in 1 .. Len(p) + 1
  BY AppendFacts
<1> QED
  BY <1>1, <1>2, AppendFacts DEF Holds
-----------------------------------------------------------------------------
(* The inductive invariant *)

\* connections_ has the connection.
Listed(c) == <<ConnName(c), c>> \in connections

\* What loop l has to run.
Pending(l, f) == Has(batch[l], pending[l], f)
PendingOnce(l, f) == Once(batch[l], pending[l], f)
PendingBefore(l, f, g) == Before(batch[l], pending[l], f, g)

\* Neither connections_ nor a functor keeps the connection alive.
Alone(c) == ~Listed(c) /\ \A l \in Loop : ~Holds(pending[l], c) /\ ~Holds(batch[l].functors, c)

Open(c) == \E f \in Fd : owner[f] = ForConn(c)

LoopTypes ==
  /\ numThreads \in ThreadNums /\ quit \subseteq Loop
  /\ place \in [Loop -> {"off", "poll", "functors", "ended"}]
  /\ pending \in [Loop -> Seq(Functor)] /\ batch \in [Loop -> Batch]

ConnTypes ==
  /\ arrived \in Nat /\ served \in Nat /\ nextConnId \in Nat \ {0}
  /\ nextConnId <= served + 1 /\ served <= arrived /\ arrived <= MaxPeers
  /\ nextLoop \in Nat /\ (numThreads > 0 => nextLoop < numThreads)
  /\ connections \subseteq {<<ConnName(c), c>> : c \in Conn}
  /\ state \in [Conn -> {None, "kConnecting", "kConnected", "kDisconnected"}]
  /\ channel \subseteq Conn
  /\ loopOf \in [Conn -> 0 .. numThreads]

Owner == {Nothing, For("idle"), For("refused"), For("other")} \cup {ForConn(c) : c \in Conn}

\* The descriptors of the Acceptor, at each place of handleRead().
FdInv ==
  /\ accepting \in {"idle", "refuse", "close", "reopen"}
  /\ idleFd \in Fd \cup {-1} /\ owner \in [Fd -> Owner]
  /\ place[base] # "poll" => accepting = "idle"
  /\ accepting = "refuse" => served < arrived
  /\ accepting = "idle" /\ phase \notin {"destroyed", "over"} => idleFd = -1 \/ owner[idleFd] = For("idle")
  /\ accepting = "close" => idleFd = -1 \/ owner[idleFd] = For("refused")
  /\ accepting \in {"refuse", "reopen"} \/ phase \in {"destroyed", "over"} =>
       \A f \in Fd : owner[f] \notin {For("idle"), For("refused")}
  /\ \A f \in Fd : owner[f] \in {For("idle"), For("refused")} => f = idleFd

\* The base loop ends first, and its connections are given up before a thread
\* is told to quit.
LoopInv ==
  /\ phase \in {"new", "running", "destroyed", "over", "aborted"}
  /\ phase = "new" => \A l \in Loop : place[l] = "off"
  /\ \A l \in Loop \ (0 .. numThreads) : place[l] = "off" /\ pending[l] = <<>>
  /\ \A l \in Loop : place[l] # "functors" => batch[l] = [functors |-> <<>>, run |-> 0]
  /\ \A l \in Loop \ {base} : place[l] = "ended" => l \in quit /\ pending[l] = <<>>
  /\ \A l \in quit \ {base} : place[base] = "ended" /\ connections = {}
  /\ phase \in {"destroyed", "over"} =>
       connections = {} /\ \A l \in 0 .. numThreads : place[l] = "ended"
  /\ phase = "over" => pending[base] = <<>>

\* What the functors of the loops promise about connection c.
TodoInv(c) ==
  \A l \in Loop :
    /\ Pending(l, Establish(c)) => l = loopOf[c] /\ l # base /\ state[c] = "kConnecting"
    /\ Pending(l, Destroy(c)) =>
         /\ l = loopOf[c] /\ state[c] # None /\ ~Listed(c)
         /\ place[base] # "ended" => state[c] = "kDisconnected"
    /\ Pending(l, Remove(c)) =>
         /\ l = base /\ loopOf[c] # base /\ state[c] = "kDisconnected"
         /\ place[base] # "ended" => Listed(c)
    /\ PendingOnce(l, Establish(c)) /\ PendingOnce(l, Remove(c))
    /\ PendingBefore(l, Establish(c), Destroy(c))

\* A connection is in connections_ until its removal, and whoever takes it out
\* has connectDestroyed() run for it; one that is not made yet is nowhere.
ConnInv(c) ==
  /\ state[c] = None <=> c >= nextConnId
  /\ state[c] = None => c \notin channel /\ Alone(c) /\ ~Open(c)
  /\ state[c] \in {"kConnecting", "kConnected"} /\ place[base] # "ended" => Listed(c)
  /\ state[c] = "kConnecting" \/ c \in channel =>
       Listed(c) \/ Pending(loopOf[c], Destroy(c)) \/ place[loopOf[c]] = "ended"

\* The descriptors of the connections.
OpenInv(c) ==
  /\ \A f, g \in Fd : owner[f] = ForConn(c) /\ owner[g] = ForConn(c) => f = g
  /\ ~Alone(c) => Open(c)
  /\ c \in channel => Open(c) \/ place[loopOf[c]] = "ended"
  /\ phase = "over" => ~Open(c)

ServerInv ==
  /\ LoopTypes /\ ConnTypes /\ FdInv /\ LoopInv
  /\ \A c \in Conn : TodoInv(c) /\ ConnInv(c) /\ OpenInv(c)
  /\ failed = None
-----------------------------------------------------------------------------
(* The operators of the model *)

\* What the assumption on the constants gives.
LEMMA Constants ==
  /\ MaxPeers \in Nat /\ NumFds \in Nat /\ 0 \in Fd /\ -1 \notin Fd
  /\ MaxThreads \in Nat /\ base \in Loop /\ base = 0
  /\ \A n \in ThreadNums : n \in Nat /\ 0 .. n \subseteq Loop
  /\ None \notin {"kConnecting", "kConnected", "kDisconnected"}
<1>1. MaxThreads \in Nat /\ \A n \in ThreadNums : n <= MaxThreads
  BY TcpServerAssumption, Zenon DEF MaxThreads
<1> QED
  BY <1>1, TcpServerAssumption DEF base, Loop, Fd

\* Alone, of other values of the variables.
Unheld(c, conns, pend, bat) ==
  <<ConnName(c), c>> \notin conns /\ \A l \in Loop : ~Holds(pend[l], c) /\ ~Holds(bat[l].functors, c)

\* Referred, by what connections_ and the queues hold.
LEMMA ReferredHeld ==
  ASSUME NEW conns \in SUBSET {<<ConnName(c), c>> : c \in Conn}, NEW pend \in [Loop -> Seq(Functor)],
         NEW bat \in [Loop -> Batch], NEW c \in Conn
  PROVE  c \in Referred(conns, pend, bat) <=> ~Unheld(c, conns, pend, bat)
<1>1. (\E e \in conns : e[2] = c) <=> <<ConnName(c), c>> \in conns
  OBVIOUS
<1>2. ASSUME NEW q \in Seq(Functor)
      PROVE  (\E i \in DOMAIN q : q[i][2] = c) <=> Holds(q, c)
  <2>1. DOMAIN q = 1 .. Len(q)
    OBVIOUS
  <2> QED
    BY <2>1, Zenon DEF Holds
<1>3. \A l \in Loop : pend[l] \in Seq(Functor) /\ bat[l].functors \in Seq(Functor)
  BY Zenon DEF Batch
<1>4. ASSUME NEW l \in Loop
      PROVE  /\ (\E i \in DOMAIN pend[l] : pend[l][i][2] = c) <=> Holds(pend[l], c)
             /\ (\E i \in DOMAIN bat[l].functors : bat[l].functors[i][2] = c) <=> Holds(bat[l].functors, c)
  BY <1>2, <1>3, Zenon
<1> QED
  BY <1>1, <1>4, Zenon DEF Referred, Unheld

\* connections_.erase() takes one connection out.
LEMMA Erased ==
  ASSUME DistinctNames, ConnTypes, NEW c \in Conn,
         connections' = {e \in connections : e[1] # ConnName(c)}
  PROVE  /\ connections' \subseteq {<<ConnName(d), d>> : d \in Conn}
         /\ \A d \in Conn : Listed(d)' <=> Listed(d) /\ d # c
BY Zenon DEF DistinctNames, ConnTypes, Listed

\* A connection that a functor is to run for is alive.
LEMMA PendingAlive ==
  ASSUME NEW c \in Conn, NEW f \in Functor, f[2] = c
  PROVE  /\ LoopTypes => \A l \in Loop : Pending(l, f) => ~Alone(c)
         /\ LoopTypes' => \A l \in Loop : Pending(l, f)' => ~Alone(c)'
<1>1. ASSUME LoopTypes, NEW l \in Loop, Pending(l, f) PROVE ~Alone(c)
  <2>1. batch[l] \in Batch /\ pending[l] \in Seq(Functor)
    BY <1>1, Zenon DEF LoopTypes
  <2> QED
    BY <1>1, <2>1, HasHolds, Zenon DEF Pending, Alone
<1>2. ASSUME LoopTypes', NEW l \in Loop, Pending(l, f)' PROVE ~Alone(c)'
  <2>1. batch'[l] \in Batch /\ pending'[l] \in Seq(Functor)
    BY <1>2, Zenon DEF LoopTypes
  <2> QED
    BY <1>2, <2>1, HasHolds, Zenon DEF Pending, Alone
<1> QED
  BY <1>1, <1>2, Zenon

-----------------------------------------------------------------------------
(* Init *)

\* The constructor establishes the invariant.
LEMMA ServerInit == Init => ServerInv
<1> SUFFICES ASSUME Init PROVE ServerInv
  BY Zenon
<1> USE DEF Init, AcceptorInit, PoolInit
<1>1. LoopTypes
  BY Constants DEF LoopTypes, Batch
<1>2. ConnTypes
  BY <1>1, Constants DEF ConnTypes, LoopTypes
<1>3. FdInv
  BY <1>1, Constants, Zenon DEF FdInv, Owner, For, ForConn, Nothing
<1>4. LoopInv
  BY <1>1, Constants, Zenon DEF LoopInv, LoopTypes
<1>5. ASSUME NEW c \in Conn PROVE Alone(c) /\ ~Open(c)
  <2>1. ~Listed(c) /\ \A l \in Loop : pending[l] = <<>> /\ batch[l].functors = <<>>
    BY Zenon DEF Listed
  <2>2. ~Holds(<<>>, c)
    BY DEF Holds
  <2>3. ~Open(c)
    BY Zenon DEF Open, For, ForConn, Nothing
  <2> QED
    BY <2>1, <2>2, <2>3, Zenon DEF Alone
<1>6. ASSUME NEW c \in Conn PROVE TodoInv(c) /\ ConnInv(c) /\ OpenInv(c)
  <2>1. ASSUME NEW l \in Loop
        PROVE  Size(batch[l], pending[l]) = 0
    BY DEF Size
  <2>2. TodoInv(c)
    BY <2>1 DEF TodoInv, Pending, PendingOnce, PendingBefore, Has, Once, Before
  <2>3. ConnInv(c)
    BY <1>5, Constants DEF ConnInv, Conn
  <2>4. OpenInv(c)
    BY <1>5, Zenon DEF OpenInv, Open
  <2> QED
    BY <2>2, <2>3, <2>4, Zenon
<1> QED
  BY <1>1, <1>2, <1>3, <1>4, <1>6, Zenon DEF ServerInv
-----------------------------------------------------------------------------
(* The steps that leave the connections alone *)

\* A loop that has ended never runs again.
EndedStay == \A l \in Loop : place[l] = "ended" => place'[l] = "ended"

\* Nothing is queued for connection c.
LEMMA TodoKept ==
  ASSUME ServerInv, NEW c \in Conn, UNCHANGED <<connections, connVars>>, EndedStay,
         \A l \in Loop :
           /\ \A f \in Functor : (Pending(l, f)' => Pending(l, f)) /\ (PendingOnce(l, f) => PendingOnce(l, f)')
           /\ \A f, g \in Functor : PendingBefore(l, f, g) => PendingBefore(l, f, g)'
  PROVE  TodoInv(c)'
<1>1. TodoInv(c) /\ base \in Loop
  BY Constants, Zenon DEF ServerInv
<1>2. Listed(c)' <=> Listed(c)
  BY Zenon DEF Listed
<1>3. state' = state /\ loopOf' = loopOf
  BY Zenon DEF connVars
<1> QED
  BY <1>1, <1>2, <1>3, FunctorNames, Zenon DEF TodoInv, EndedStay

\* A step that leaves what a connection depends on keeps its part of the invariant.
LEMMA ConnKept ==
  ASSUME ServerInv, NEW c \in Conn, UNCHANGED <<connections, connVars, nextConnId>>, EndedStay,
         Alone(c) => Alone(c)', Open(c)' => Open(c),
         Pending(loopOf[c], Destroy(c)) =>
           Pending(loopOf[c], Destroy(c))' \/ place'[loopOf[c]] = "ended"
  PROVE  ConnInv(c)'
<1>1. ConnInv(c) /\ base \in Loop
  BY Constants, Zenon DEF ServerInv
<1>2. Listed(c)' <=> Listed(c)
  BY Zenon DEF Listed
<1>3. state' = state /\ loopOf' = loopOf /\ channel' = channel
  BY Zenon DEF connVars
<1>4. loopOf[c] \in Loop
  BY Constants, Zenon DEF ServerInv, ConnTypes, LoopTypes
<1> QED
  BY <1>1, <1>2, <1>3, <1>4, Zenon DEF ConnInv, EndedStay

\* The same for all connections at once.
LEMMA ConnsKept ==
  ASSUME ServerInv, NEW c \in Conn,
         UNCHANGED <<connections, connVars, nextConnId, pending, batch>>, EndedStay,
         phase' = "over" => phase = "over",
         \A f \in Fd : owner'[f] = ForConn(c) <=> owner[f] = ForConn(c)
  PROVE  TodoInv(c)' /\ ConnInv(c)' /\ OpenInv(c)'
<1>1. \A l, f, g : /\ Pending(l, f)' <=> Pending(l, f)
                   /\ PendingOnce(l, f)' <=> PendingOnce(l, f)
                   /\ PendingBefore(l, f, g)' <=> PendingBefore(l, f, g)
  BY Zenon DEF Pending, PendingOnce, PendingBefore
<1>2. (Alone(c)' <=> Alone(c)) /\ (Open(c)' <=> Open(c))
  BY Zenon DEF Alone, Listed, Open
<1>3. TodoInv(c)'
  BY <1>1, TodoKept, Zenon
<1>4. loopOf[c]' = loopOf[c] /\ (c \in channel' <=> c \in channel) /\ loopOf[c] \in Loop
  BY Constants, Zenon DEF connVars, ServerInv, ConnTypes, LoopTypes
<1>5. ConnInv(c)'
  BY <1>1, <1>2, <1>4, ConnKept, Zenon
<1>6. OpenInv(c)'
  BY <1>2, <1>4, Zenon DEF ServerInv, OpenInv, EndedStay
<1> QED
  BY <1>3, <1>5, <1>6, Zenon

\* The facts about loops and numbers are of no concern to these steps.
LEMMA LoopsKept ==
  ASSUME ServerInv,
         UNCHANGED <<numThreads, connections, connVars, nextLoop, nextConnId, place, pending, batch, quit>>
  PROVE  /\ LoopTypes'
         /\ arrived' \in Nat /\ served' \in Nat /\ served <= served' /\ served' <= arrived' /\ arrived' <= MaxPeers
            => ConnTypes'
         /\ phase' = phase \/ phase' = "aborted" => LoopInv'
<1>1. LoopTypes'
  BY Zenon DEF ServerInv, LoopTypes
<1>2. ASSUME arrived' \in Nat /\ served' \in Nat /\ served <= served' /\ served' <= arrived' /\ arrived' <= MaxPeers
      PROVE  ConnTypes'
  <2>1. nextConnId' <= served' + 1
    <3>1. nextConnId' = nextConnId /\ nextConnId \in Nat /\ served \in Nat /\ nextConnId <= served + 1
      BY Zenon DEF ServerInv, ConnTypes
    <3>2. \A i, j, k \in Nat : i <= j + 1 /\ j <= k => i <= k + 1
      OBVIOUS
    <3> QED
      BY <1>2, <3>1, <3>2, Zenon
  <2>2. /\ nextConnId' \in Nat \ {0} /\ nextLoop' \in Nat /\ (numThreads' > 0 => nextLoop' < numThreads')
        /\ state' \in [Conn -> {None, "kConnecting", "kConnected", "kDisconnected"}]
        /\ channel' \subseteq Conn /\ loopOf' \in [Conn -> 0 .. numThreads']
    BY Zenon DEF ServerInv, ConnTypes, connVars
  <2>3. connections' \subseteq {<<ConnName(c), c>> : c \in Conn}
    BY Zenon DEF ServerInv, ConnTypes
  <2> QED
    BY <1>2, <2>1, <2>2, <2>3, Zenon DEF ConnTypes
<1>3. ASSUME phase' = phase \/ phase' = "aborted" PROVE LoopInv'
  BY <1>3, Zenon DEF ServerInv, LoopInv
<1> QED
  BY <1>1, <1>2, <1>3, Zenon

\* A step that changes no counter keeps the types of the connections.
LEMMA CountsKept ==
  ASSUME ServerInv, UNCHANGED <<arrived, served>>
  PROVE  arrived' \in Nat /\ served' \in Nat /\ served <= served' /\ served' <= arrived' /\ arrived' <= MaxPeers
BY DEF ServerInv, ConnTypes

\* The uses of a descriptor differ.
LEMMA OwnersDiffer ==
  /\ Nothing = For("nothing")
  /\ \A c \in Conn : ForConn(c) \notin {Nothing, For("idle"), For("refused"), For("other")}
  /\ \A c, d \in Conn : ForConn(c) = ForConn(d) => c = d
  /\ For("idle") \notin {Nothing, For("refused"), For("other")}
  /\ For("refused") \notin {Nothing, For("other")} /\ For("other") # Nothing
  /\ {Nothing, For("idle"), For("refused"), For("other")} \subseteq Owner
  /\ \A c \in Conn : ForConn(c) \in Owner
BY Zenon DEF For, ForConn, Nothing, Owner

\* The server is there as long as the base loop runs.
LEMMA BaseRuns ==
  ASSUME ServerInv, place[base] # "ended" \/ accepting # "idle"
  PROVE  phase \notin {"destroyed", "over"} /\ (accepting # "idle" => place[base] = "poll")
<1>1. base \in 0 .. numThreads
  BY Constants DEF ServerInv, LoopTypes
<1>2. accepting # "idle" => place[base] = "poll"
  BY Zenon DEF ServerInv, FdInv
<1>3. place[base] # "ended"
  BY <1>2, Zenon
<1>4. phase \notin {"destroyed", "over"}
  BY <1>1, <1>3, Zenon DEF ServerInv, LoopInv
<1> QED
  BY <1>2, <1>4, Zenon

LEMMA ArriveKeeps == ASSUME ServerInv, Arrive PROVE ServerInv'
<1> USE DEF Arrive, acceptVars, loopVars
<1>1. LoopTypes' /\ ConnTypes' /\ LoopInv'
  <2>1. UNCHANGED <<numThreads, connections, connVars, nextLoop, nextConnId, place, pending, batch, quit>>
    BY Zenon
  <2>2. /\ arrived' \in Nat /\ served' \in Nat /\ served <= served' /\ served' <= arrived' /\ arrived' <= MaxPeers
        /\ phase' = phase \/ phase' = "aborted"
    BY Constants DEF ServerInv, ConnTypes
  <2> QED
    BY <2>1, <2>2, LoopsKept, Zenon
<1>2. FdInv'
  BY DEF ServerInv, FdInv, ConnTypes
<1> QED
  BY <1>1, <1>2, ConnsKept, Zenon DEF ServerInv, EndedStay

LEMMA CloseOtherKeeps == ASSUME ServerInv, NEW fd \in Fd, CloseOther(fd) PROVE ServerInv'
<1> USE DEF CloseOther, acceptVars, loopVars
<1>1. LoopTypes' /\ ConnTypes' /\ LoopInv'
  <2>1. UNCHANGED <<numThreads, connections, connVars, nextLoop, nextConnId, place, pending, batch, quit>>
    BY Zenon
  <2>2. UNCHANGED <<arrived, served>> /\ (phase' = phase \/ phase' = "aborted")
    BY Zenon
  <2> QED
    BY <2>1, <2>2, CountsKept, LoopsKept, Zenon
<1>2. FdInv'
  BY OwnersDiffer, Zenon DEF ServerInv, FdInv
<1>3. \A f \in Fd, c \in Conn : owner'[f] = ForConn(c) <=> owner[f] = ForConn(c)
  BY OwnersDiffer, Zenon DEF ServerInv, FdInv
<1> QED
  BY <1>1, <1>2, <1>3, ConnsKept, Zenon DEF ServerInv, EndedStay

LEMMA AcceptFailsKeeps == ASSUME ServerInv, AcceptFails \/ AcceptAborts PROVE ServerInv'
<1> USE DEF AcceptFails, AcceptAborts, Readable, acceptVars, loopVars
<1>1. LoopTypes' /\ ConnTypes' /\ LoopInv'
  <2>1. UNCHANGED <<numThreads, connections, connVars, nextLoop, nextConnId, place, pending, batch, quit>>
    BY Zenon
  <2>2. /\ arrived' \in Nat /\ served' \in Nat /\ served <= served' /\ served' <= arrived' /\ arrived' <= MaxPeers
        /\ phase' = phase \/ phase' = "aborted"
    BY Constants DEF ServerInv, ConnTypes
  <2> QED
    BY <2>1, <2>2, LoopsKept, Zenon
<1>2. phase \notin {"destroyed", "over"} /\ phase' \notin {"destroyed", "over"}
  BY BaseRuns, Zenon
<1>3. FdInv'
  BY <1>2, Zenon DEF ServerInv, FdInv
<1> QED
  BY <1>1, <1>2, <1>3, ConnsKept, Zenon DEF ServerInv, EndedStay

\* close(idleFd_) is of a descriptor of the Acceptor.
LEMMA IdleClosed ==
  ASSUME ServerInv, accepting \in {"idle", "close"}, phase \notin {"destroyed", "over"},
         owner' = [f \in Fd |-> IF f = idleFd THEN Nothing ELSE owner[f]]
  PROVE  /\ owner' \in [Fd -> Owner]
         /\ \A f \in Fd : owner'[f] \notin {For("idle"), For("refused")}
         /\ \A f \in Fd, c \in Conn : owner'[f] = ForConn(c) <=> owner[f] = ForConn(c)
BY Constants, OwnersDiffer, Zenon DEF ServerInv, FdInv

LEMMA AcceptFullKeeps == ASSUME ServerInv, AcceptFull \/ CloseRefused PROVE ServerInv'
<1> USE DEF AcceptFull, CloseRefused, Readable, acceptVars, loopVars
<1>1. LoopTypes' /\ ConnTypes' /\ LoopInv'
  <2>1. UNCHANGED <<numThreads, connections, connVars, nextLoop, nextConnId, place, pending, batch, quit>>
    BY Zenon
  <2>2. UNCHANGED <<arrived, served>> /\ (phase' = phase \/ phase' = "aborted")
    BY Zenon
  <2> QED
    BY <2>1, <2>2, CountsKept, LoopsKept, Zenon
<1>2. place[base] = "poll" /\ phase \notin {"destroyed", "over"}
  BY BaseRuns, Zenon
<1>3. /\ owner' \in [Fd -> Owner]
      /\ \A f \in Fd : owner'[f] \notin {For("idle"), For("refused")}
      /\ \A f \in Fd, c \in Conn : owner'[f] = ForConn(c) <=> owner[f] = ForConn(c)
  BY <1>2, IdleClosed, Zenon
<1>4. FdInv'
  BY <1>2, <1>3, Zenon DEF ServerInv, FdInv, ConnTypes
<1> QED
  BY <1>1, <1>3, <1>4, ConnsKept, Zenon DEF ServerInv, EndedStay

LEMMA QuitKeeps == ASSUME ServerInv, Quit \/ \E l \in Loop : QuitThread(l) PROVE ServerInv'
<1> USE DEF Quit, QuitThread, ServerDone, acceptVars, loopVars
<1>1. LoopTypes'
  BY Constants, Zenon DEF ServerInv, LoopTypes
<1>2. ConnTypes'
  BY Zenon DEF ServerInv, ConnTypes, connVars
<1>3. FdInv'
  BY Zenon DEF ServerInv, FdInv
<1>4. LoopInv'
  BY Zenon DEF ServerInv, LoopInv
<1> QED
  BY <1>1, <1>2, <1>3, <1>4, ConnsKept, Zenon DEF ServerInv, EndedStay

LEMMA DestroyAcceptorKeeps == ASSUME ServerInv, DestroyAcceptor PROVE ServerInv'
<1> USE DEF DestroyAcceptor, ServerDone, acceptVars, loopVars
<1>1. LoopTypes' /\ ConnTypes'
  BY LoopsKept DEF ServerInv, ConnTypes
<1>2. accepting = "idle"
  BY Zenon DEF ServerInv, FdInv
<1>3. /\ owner' \in [Fd -> Owner]
      /\ \A f \in Fd : owner'[f] \notin {For("idle"), For("refused")}
      /\ \A f \in Fd, c \in Conn : owner'[f] = ForConn(c) <=> owner[f] = ForConn(c)
  BY <1>2, IdleClosed, Zenon
<1>4. FdInv'
  BY <1>2, <1>3, Zenon DEF ServerInv, FdInv
<1>5. \A l \in 0 .. numThreads : l = base \/ l \in 1 .. numThreads
  BY Constants DEF ServerInv, LoopTypes
<1>6. LoopInv'
  BY <1>5, Zenon DEF ServerInv, LoopInv
<1> QED
  BY <1>1, <1>3, <1>4, <1>6, ConnsKept, Zenon DEF ServerInv, EndedStay

LEMMA StartKeeps == ASSUME ServerInv, Start PROVE ServerInv'
<1> USE DEF Start, StartPool, acceptVars
<1>1. LoopTypes'
  BY Zenon DEF ServerInv, LoopTypes
<1>2. ConnTypes'
  BY Zenon DEF ServerInv, ConnTypes, connVars
<1>3. EndedStay /\ base \in Loop /\ place'[base] = "poll"
  BY Constants DEF ServerInv, LoopInv, LoopTypes, EndedStay
<1>4. FdInv'
  BY <1>3, Zenon DEF ServerInv, FdInv, LoopInv
<1>5. LoopInv'
  <2>1. quit \subseteq {base}
    BY <1>3, Zenon DEF ServerInv, LoopInv
  <2>2. \A l \in Loop \ (0 .. numThreads) : place'[l] = "off"
    BY Constants DEF ServerInv, LoopTypes, Loop
  <2>3. place' \in [Loop -> {"off", "poll"}]
    BY Zenon
  <2> QED
    BY <2>1, <2>2, <2>3, <1>3, Zenon DEF ServerInv, LoopInv
<1> QED
  BY <1>1, <1>2, <1>3, <1>4, <1>5, ConnsKept, Zenon DEF ServerInv
-----------------------------------------------------------------------------
(* The loops *)

\* The functors of a loop that has nothing left of its batch may be taken, and
\* the batch may be thrown away.
LEMMA Shifted ==
  ASSUME NEW b \in Batch, b.run = Len(b.functors), NEW p \in Seq(Functor)
  PROVE  LET none == [functors |-> <<>>, run |-> 0]
             all == [functors |-> p, run |-> 0] IN
         /\ none \in Batch /\ all \in Batch /\ <<>> \in Seq(Functor)
         /\ \A f : Has(none, p, f) <=> Has(b, p, f)
         /\ \A f : Has(all, <<>>, f) <=> Has(b, p, f)
         /\ \A f : Once(b, p, f) => Once(none, p, f) /\ Once(all, <<>>, f)
         /\ \A f, g : Before(b, p, f, g) => Before(none, p, f, g) /\ Before(all, <<>>, f, g)
<1> DEFINE none == [functors |-> <<>>, run |-> 0]
           all == [functors |-> p, run |-> 0]
<1>1. none \in Batch /\ all \in Batch /\ <<>> \in Seq(Functor) /\ none.run = Len(none.functors)
      /\ all.run = 0 /\ all.functors = p
  BY DEF Batch
<1> HIDE DEF none, all
<1>2. Size(b, p) = Len(p) /\ Size(none, p) = Len(p) /\ Size(all, <<>>) = Len(p)
  BY <1>1, AtEmpty, Zenon
<1>3. \A i \in 1 .. Len(p) : At(b, p, i) = p[i] /\ At(none, p, i) = p[i] /\ At(all, <<>>, i) = p[i]
  BY <1>1, AtEmpty
<1>4. \A f : (Has(none, p, f) <=> Has(b, p, f)) /\ (Has(all, <<>>, f) <=> Has(b, p, f))
  BY <1>2, <1>3, Zenon DEF Has
<1>5. \A f : Once(b, p, f) => Once(none, p, f) /\ Once(all, <<>>, f)
  BY <1>2, <1>3, Zenon DEF Once
<1>6. \A f, g : Before(b, p, f, g) => Before(none, p, f, g) /\ Before(all, <<>>, f, g)
  BY <1>2, <1>3, Zenon DEF Before
<1> QED
  BY <1>1, <1>4, <1>5, <1>6, Zenon DEF none, all

LEMMA TakeFunctorsKeeps == ASSUME ServerInv, NEW l \in Loop, TakeFunctors(l) PROVE ServerInv'
<1> USE DEF TakeFunctors, acceptVars
<1> DEFINE none == [functors |-> <<>>, run |-> 0]
           all == [functors |-> pending[l], run |-> 0]
<1>1. /\ place[l] = "poll" /\ place' = [place EXCEPT ![l] = "functors"]
      /\ batch' = [batch EXCEPT ![l] = all] /\ pending' = [pending EXCEPT ![l] = <<>>]
      /\ UNCHANGED <<numThreads, phase, arrived, served, acceptVars, owner, connections, connVars, quit, failed>>
      /\ l = base => accepting = "idle"
  BY Zenon
<1>2. /\ batch[l] = none /\ pending \in [Loop -> Seq(Functor)] /\ batch \in [Loop -> Batch]
      /\ place \in [Loop -> {"off", "poll", "functors", "ended"}]
  BY Zenon DEF ServerInv, LoopInv, LoopTypes
<1>3. none \in Batch /\ none.run = Len(none.functors) /\ none.functors = <<>> /\ all.functors = pending[l]
  BY DEF Batch
<1> HIDE DEF none, TakeFunctors
<1>4. /\ all \in Batch /\ <<>> \in Seq(Functor)
      /\ \A f : Has(all, <<>>, f) <=> Has(none, pending[l], f)
      /\ \A f : Once(none, pending[l], f) => Once(all, <<>>, f)
      /\ \A f, g : Before(none, pending[l], f, g) => Before(all, <<>>, f, g)
  BY <1>2, <1>3, Shifted, Zenon
<1> HIDE DEF all
<1>5. /\ batch'[l] = all /\ pending'[l] = <<>>
      /\ \A m \in Loop \ {l} : batch'[m] = batch[m] /\ pending'[m] = pending[m]
  BY <1>1, <1>2, Zenon
<1>6. LoopTypes'
  BY <1>1, <1>2, <1>4, Zenon DEF ServerInv, LoopTypes
<1>7. ConnTypes'
  BY <1>1, Zenon DEF ServerInv, ConnTypes, connVars
<1>8. FdInv'
  BY <1>1, <1>2, Constants, Zenon DEF ServerInv, FdInv
<1>9. LoopInv'
  <2>1. base \in Loop /\ 0 .. numThreads \subseteq Loop
    BY Constants, Zenon DEF ServerInv, LoopTypes
  <2>2. /\ place'[l] = "functors" /\ phase # "new"
        /\ \A m \in Loop \ {l} : place'[m] = place[m]
    BY <1>1, <1>2, Zenon DEF ServerInv, LoopInv
  <2> QED
    BY <1>1, <1>5, <2>1, <2>2 DEF ServerInv, LoopInv
<1>10. EndedStay
  BY <1>1, <1>2, Zenon DEF EndedStay
<1>11. ASSUME NEW c \in Conn PROVE TodoInv(c)' /\ ConnInv(c)' /\ OpenInv(c)'
  <2>1. \A m \in Loop, f \in Functor : Pending(m, f)' <=> Pending(m, f)
    BY <1>2, <1>4, <1>5, Zenon DEF Pending
  <2>2. \A m \in Loop, f \in Functor : PendingOnce(m, f) => PendingOnce(m, f)'
    BY <1>2, <1>4, <1>5, Zenon DEF PendingOnce
  <2>3. \A m \in Loop, f, g \in Functor : PendingBefore(m, f, g) => PendingBefore(m, f, g)'
    BY <1>2, <1>4, <1>5, Zenon DEF PendingBefore
  <2>4. TodoInv(c)'
    BY <1>1, <1>10, <2>1, <2>2, <2>3, TodoKept, Zenon
  <2>5. loopOf[c] \in Loop /\ loopOf' = loopOf /\ channel' = channel
    BY <1>1, Constants, Zenon DEF ServerInv, ConnTypes, LoopTypes, connVars
  <2>6. Alone(c)' <=> Alone(c)
    <3>1. ~Holds(<<>>, c)
      BY DEF Holds
    <3>2. \A m \in Loop : Holds(pending'[m], c) \/ Holds(batch'[m].functors, c)
                            <=> Holds(pending[m], c) \/ Holds(batch[m].functors, c)
      BY <3>1, <1>2, <1>3, <1>5, Zenon
    <3>3. Listed(c)' <=> Listed(c)
      BY <1>1, Zenon DEF Listed
    <3> QED
      BY <3>2, <3>3, Zenon DEF Alone
  <2>7. Open(c)' <=> Open(c)
    BY <1>1, Zenon DEF Open
  <2>8. ConnInv(c)'
    BY <1>1, <1>10, <2>1, <2>5, <2>6, <2>7, ConnKept, FunctorNames, Zenon
  <2>9. OpenInv(c)'
    BY <1>1, <1>10, <2>5, <2>6, <2>7, Zenon DEF ServerInv, OpenInv, EndedStay
  <2> QED
    BY <2>4, <2>8, <2>9, Zenon
<1> QED
  BY <1>1, <1>6, <1>7, <1>8, <1>9, <1>11, Zenon DEF ServerInv
-----------------------------------------------------------------------------
(* ~Socket() *)

\* The descriptors of the connections that nothing keeps alive are closed.
LEMMA Released ==
  ASSUME ServerInv, LoopTypes', ConnTypes',
         owner' = Closed(owner, Referred(connections', pending', batch'))
  PROVE  /\ owner' \in [Fd -> Owner]
         /\ \A f \in Fd, u \in {"idle", "refused"} : owner'[f] = For(u) <=> owner[f] = For(u)
         /\ \A f \in Fd, c \in Conn : owner'[f] = ForConn(c) <=> owner[f] = ForConn(c) /\ ~Alone(c)'
<1> DEFINE refs == Referred(connections', pending', batch')
<1>1. \A c \in Conn : c \in refs <=> ~Alone(c)'
  <2>1. /\ connections' \in SUBSET {<<ConnName(c), c>> : c \in Conn}
        /\ pending' \in [Loop -> Seq(Functor)] /\ batch' \in [Loop -> Batch]
    BY Zenon DEF LoopTypes, ConnTypes
  <2>2. \A c \in Conn : Alone(c)' <=> Unheld(c, connections', pending', batch')
    BY Zenon DEF Alone, Unheld, Listed
  <2> QED
    BY <2>1, <2>2, ReferredHeld, Zenon
<1>2. owner' = [f \in Fd |-> IF owner[f][1] = "connection" /\ owner[f][2] \notin refs THEN Nothing ELSE owner[f]]
  BY Zenon DEF Closed
<1> HIDE DEF refs
<1>3. owner \in [Fd -> Owner]
  BY Zenon DEF ServerInv, FdInv
<1>4. ASSUME NEW f \in Fd PROVE
         \/ owner'[f] = owner[f] /\ owner[f] \in {Nothing, For("idle"), For("refused"), For("other")}
         \/ \E c \in Conn : /\ owner[f] = ForConn(c)
                            /\ owner'[f] = IF Alone(c)' THEN Nothing ELSE owner[f]
  <2>1. CASE \E c \in Conn : owner[f] = ForConn(c)
    <3>1. PICK c \in Conn : owner[f] = ForConn(c)
      BY <2>1, Zenon
    <3>2. owner[f][1] = "connection" /\ owner[f][2] = c
      BY <3>1 DEF ForConn
    <3> QED
      BY <1>1, <1>2, <3>1, <3>2, Zenon
  <2>2. CASE owner[f] \in {Nothing, For("idle"), For("refused"), For("other")}
    <3>1. owner[f][1] # "connection"
      BY <2>2 DEF Nothing, For
    <3> QED
      BY <1>2, <2>2, <3>1, Zenon
  <2> QED
    BY <1>3, <2>1, <2>2, Zenon DEF Owner
<1>5. \A f \in Fd : owner'[f] \in Owner
  BY <1>4, OwnersDiffer, Zenon
<1>6. owner' \in [Fd -> Owner]
  BY <1>2, <1>5, Zenon
<1>7. ASSUME NEW f \in Fd, NEW c \in Conn
      PROVE  owner'[f] = ForConn(c) <=> owner[f] = ForConn(c) /\ ~Alone(c)'
  BY <1>4, OwnersDiffer, Zenon
<1>8. ASSUME NEW f \in Fd, NEW u \in {"idle", "refused"}
      PROVE  owner'[f] = For(u) <=> owner[f] = For(u)
  BY <1>4, OwnersDiffer, Zenon
<1> QED
  BY <1>6, <1>7, <1>8, Zenon

\* No Channel loses its descriptor in a loop that runs.
LEMMA OpenAfter ==
  ASSUME ServerInv, LoopTypes', NEW c \in Conn, ConnInv(c)', Alone(c) => Alone(c)', loopOf'[c] \in Loop,
         \A f \in Fd : owner'[f] = ForConn(c) <=> owner[f] = ForConn(c) /\ ~Alone(c)',
         phase' = "over" => phase = "over" \/ Alone(c)'
  PROVE  OpenInv(c)'
<1>1. OpenInv(c)
  BY Zenon DEF ServerInv
<1>2. ~Alone(c)' => Open(c)'
  BY <1>1, Zenon DEF OpenInv, Open
<1>3. Open(c)' => Open(c) /\ ~Alone(c)'
  BY Zenon DEF Open
<1>4. ASSUME c \in channel' PROVE Open(c)' \/ place'[loopOf'[c]] = "ended"
  <2>1. Listed(c)' \/ Pending(loopOf[c], Destroy(c))' \/ place'[loopOf'[c]] = "ended"
    BY <1>4, Zenon DEF ConnInv
  <2>2. Listed(c)' => ~Alone(c)'
    BY Zenon DEF Alone
  <2>3. Pending(loopOf[c], Destroy(c))' => ~Alone(c)'
    BY PendingAlive, FunctorNames, Zenon
  <2> QED
    BY <1>2, <2>1, <2>2, <2>3, Zenon
<1> QED
  BY <1>1, <1>2, <1>3, <1>4, Zenon DEF OpenInv

\* The end of a batch closes the connections that only the batch held.
LEMMA EndBatchKeeps == ASSUME ServerInv, NEW l \in Loop, EndBatch(l) PROVE ServerInv'
<1> DEFINE none == [functors |-> <<>>, run |-> 0]
<1>1. /\ place[l] = "functors" /\ batch[l].run = Len(batch[l].functors)
      /\ place' = [place EXCEPT ![l] = IF l \in quit THEN "ended" ELSE "poll"]
      /\ batch' = [batch EXCEPT ![l] = none]
      /\ pending' = IF l \in quit /\ l # base THEN [pending EXCEPT ![l] = <<>>] ELSE pending
      /\ owner' = Closed(owner, Referred(connections', pending', batch'))
      /\ UNCHANGED <<numThreads, phase, arrived, served, acceptVars, connections, connVars, quit, failed>>
  BY Zenon DEF EndBatch
<1>2. /\ pending \in [Loop -> Seq(Functor)] /\ batch \in [Loop -> Batch]
      /\ place \in [Loop -> {"off", "poll", "functors", "ended"}]
  BY Zenon DEF ServerInv, LoopTypes
<1>3. /\ none \in Batch /\ <<>> \in Seq(Functor) /\ none.run = Len(none.functors)
      /\ \A f : Has(none, pending[l], f) <=> Has(batch[l], pending[l], f)
      /\ \A f : Once(batch[l], pending[l], f) => Once(none, pending[l], f)
      /\ \A f, g : Before(batch[l], pending[l], f, g) => Before(none, pending[l], f, g)
  BY <1>1, <1>2, Shifted, Zenon
<1>4. \A f : ~Has(none, <<>>, f)
  BY <1>3, AtEmpty, Zenon
<1>5. none.functors = <<>> /\ \A c : ~Holds(<<>>, c)
  BY DEF Holds
<1> HIDE DEF none
<1>6. /\ batch'[l] = none /\ pending'[l] \in {pending[l], <<>>}
      /\ pending'[l] # pending[l] => l \in quit /\ l # base
      /\ l \in quit /\ l # base => pending'[l] = <<>>
      /\ place'[l] = IF l \in quit THEN "ended" ELSE "poll"
      /\ \A m \in Loop \ {l} : batch'[m] = batch[m] /\ pending'[m] = pending[m] /\ place'[m] = place[m]
  BY <1>1, <1>2, Zenon
<1>7. LoopTypes'
  BY <1>1, <1>2, <1>3, Zenon DEF ServerInv, LoopTypes
<1>8. ConnTypes'
  BY <1>1, Zenon DEF ServerInv, ConnTypes, connVars, acceptVars
<1>9. base \in Loop /\ 0 .. numThreads \subseteq Loop /\ EndedStay
  BY <1>1, <1>6, Constants, Zenon DEF ServerInv, LoopTypes, EndedStay
<1>10. FdInv'
  <2>1. accepting' = accepting /\ (place'[base] # "poll" => accepting = "idle")
    BY <1>1, <1>6, <1>9, Zenon DEF ServerInv, FdInv, acceptVars
  <2>2. /\ owner' \in [Fd -> Owner]
        /\ \A f \in Fd : owner'[f] = For("idle") <=> owner[f] = For("idle")
        /\ \A f \in Fd : owner'[f] = For("refused") <=> owner[f] = For("refused")
    BY <1>1, <1>7, <1>8, Released, Zenon
  <2> QED
    BY <2>1, <2>2, <1>1, Zenon DEF ServerInv, FdInv, acceptVars
<1>11. LoopInv'
  <2>1. phase # "new" /\ l \in 0 .. numThreads
    BY <1>1, Zenon DEF ServerInv, LoopInv
  <2> QED
    BY <1>1, <1>6, <1>9, <2>1 DEF ServerInv, LoopInv, none
<1>12. ASSUME NEW c \in Conn PROVE TodoInv(c)' /\ ConnInv(c)' /\ OpenInv(c)'
  <2>1. \A m \in Loop, f \in Functor : Pending(m, f)' => Pending(m, f)
    BY <1>3, <1>4, <1>6, Zenon DEF Pending
  <2>2. \A f : Once(none, <<>>, f)
    BY <1>4, Zenon DEF Once, Has
  <2>3. \A f, g : Before(none, <<>>, f, g)
    BY <1>4, Zenon DEF Before, Has
  <2>4. \A m \in Loop, f \in Functor : PendingOnce(m, f) => PendingOnce(m, f)'
    BY <1>3, <1>6, <2>2, Zenon DEF PendingOnce
  <2>5. \A m \in Loop, f, g \in Functor : PendingBefore(m, f, g) => PendingBefore(m, f, g)'
    BY <1>3, <1>6, <2>3, Zenon DEF PendingBefore
  <2>6. TodoInv(c)'
    BY <1>1, <1>9, <2>1, <2>4, <2>5, TodoKept, Zenon
  <2>7. Alone(c) => Alone(c)'
    <3>1. \A m \in Loop : Holds(pending'[m], c) \/ Holds(batch'[m].functors, c)
                            => Holds(pending[m], c) \/ Holds(batch[m].functors, c)
      BY <1>5, <1>6, Zenon
    <3>2. Listed(c)' <=> Listed(c)
      BY <1>1, Zenon DEF Listed
    <3> QED
      BY <3>1, <3>2, Zenon DEF Alone
  <2>8. \A f \in Fd : owner'[f] = ForConn(c) <=> owner[f] = ForConn(c) /\ ~Alone(c)'
    BY <1>1, <1>7, <1>8, Released, Zenon
  <2>9. Open(c)' => Open(c)
    BY <2>8, Zenon DEF Open
  <2>10. loopOf[c] \in Loop /\ loopOf' = loopOf
    BY <1>1, Constants, Zenon DEF ServerInv, ConnTypes, LoopTypes, connVars
  <2>11. Pending(loopOf[c], Destroy(c)) =>
           Pending(loopOf[c], Destroy(c))' \/ place'[loopOf[c]] = "ended"
    BY <1>3, <1>6, <2>10, Zenon DEF Pending
  <2>12. ConnInv(c)'
    BY <1>1, <1>9, <2>7, <2>9, <2>11, ConnKept, Zenon DEF acceptVars
  <2>13. OpenInv(c)'
    BY <1>1, <1>7, <2>7, <2>8, <2>10, <2>12, OpenAfter, Zenon
  <2> QED
    BY <2>6, <2>12, <2>13, Zenon
<1> QED
  BY <1>1, <1>7, <1>8, <1>10, <1>11, <1>12, Zenon DEF ServerInv

LEMMA DestroyBaseKeeps == ASSUME ServerInv, DestroyBase PROVE ServerInv'
<1> DEFINE none == [functors |-> <<>>, run |-> 0]
<1>1. /\ phase = "destroyed" /\ phase' = "over" /\ pending' = [pending EXCEPT ![base] = <<>>]
      /\ owner' = Closed(owner, {})
      /\ UNCHANGED <<numThreads, arrived, served, acceptVars, connections, connVars, place, batch, quit, failed>>
  BY Zenon DEF DestroyBase
<1>2. /\ pending \in [Loop -> Seq(Functor)] /\ batch \in [Loop -> Batch] /\ base \in Loop
      /\ 0 .. numThreads \subseteq Loop /\ base \in 0 .. numThreads
  BY Constants DEF ServerInv, LoopTypes
<1>3. /\ connections = {} /\ \A l \in 0 .. numThreads : place[l] = "ended"
      /\ \A l \in Loop \ (0 .. numThreads) : place[l] = "off" /\ pending[l] = <<>>
  BY <1>1, Zenon DEF ServerInv, LoopInv
<1>4. \A l \in Loop : batch[l] = none
  BY <1>3, Zenon DEF ServerInv, LoopInv
<1>5. \A l \in Loop \ {base} : pending[l] = <<>>
  BY <1>2, <1>3, Zenon DEF ServerInv, LoopInv
<1>6. \A l \in Loop : pending'[l] = <<>> /\ batch'[l] = none
  BY <1>1, <1>2, <1>4, <1>5, Zenon
<1>7. LoopTypes'
  BY <1>1, <1>2 DEF ServerInv, LoopTypes
<1>8. ConnTypes'
  BY <1>1, Zenon DEF ServerInv, ConnTypes, connVars, acceptVars
<1>9. LoopInv'
  BY <1>1, <1>2, <1>3, <1>6, Zenon DEF ServerInv, LoopInv
<1>10. none \in Batch /\ none.run = Len(none.functors) /\ <<>> \in Seq(Functor)
  BY DEF Batch
<1>11. ASSUME NEW c \in Conn PROVE Alone(c)'
  BY <1>1, <1>3, <1>6 DEF Alone, Listed, Holds
<1>12. Referred(connections', pending', batch') = {}
  <2>1. /\ connections' \in SUBSET {<<ConnName(c), c>> : c \in Conn}
        /\ pending' \in [Loop -> Seq(Functor)] /\ batch' \in [Loop -> Batch]
    BY <1>7, <1>8, Zenon DEF LoopTypes, ConnTypes
  <2>2. \A c \in Conn : Unheld(c, connections', pending', batch')
    BY <1>11, Zenon DEF Alone, Unheld, Listed
  <2>3. \A c \in Conn : c \notin Referred(connections', pending', batch')
    BY <2>1, <2>2, ReferredHeld, Zenon
  <2> QED
    BY <2>3, Zenon DEF Referred
<1>13. /\ owner' \in [Fd -> Owner]
       /\ \A f \in Fd, u \in {"idle", "refused"} : owner'[f] = For(u) <=> owner[f] = For(u)
       /\ \A f \in Fd, c \in Conn : owner'[f] = ForConn(c) <=> owner[f] = ForConn(c) /\ ~Alone(c)'
  BY <1>1, <1>7, <1>8, <1>12, Released, Zenon
<1>14. FdInv'
  <2>1. \A f \in Fd : /\ owner'[f] = For("idle") <=> owner[f] = For("idle")
                      /\ owner'[f] = For("refused") <=> owner[f] = For("refused")
    BY <1>13, Zenon
  <2> QED
    BY <1>1, <1>13, <2>1, Zenon DEF ServerInv, FdInv, acceptVars
<1> HIDE DEF none
<1>15. ASSUME NEW c \in Conn PROVE TodoInv(c)' /\ ConnInv(c)' /\ OpenInv(c)'
  <2>1. \A f, g : ~Has(none, <<>>, f) /\ Once(none, <<>>, f) /\ Before(none, <<>>, f, g)
    <3>1. Size(none, <<>>) = 0
      BY <1>10, AtEmpty, Zenon
    <3> QED
      BY <3>1 DEF Has, Once, Before
  <2>2. EndedStay /\ UNCHANGED <<connections, connVars, nextConnId>>
    BY <1>1, Zenon DEF EndedStay, acceptVars
  <2>3. TodoInv(c)'
    BY <1>6, <2>1, <2>2, TodoKept, Zenon DEF Pending, PendingOnce, PendingBefore
  <2>4. loopOf[c] \in 0 .. numThreads /\ loopOf' = loopOf /\ place' = place
    BY <1>1, Zenon DEF ServerInv, ConnTypes, connVars
  <2>5. Open(c)' => Open(c)
    BY <1>13, Zenon DEF Open
  <2>6. ConnInv(c)'
    BY <1>3, <1>11, <2>2, <2>4, <2>5, ConnKept, Zenon
  <2>7. OpenInv(c)'
    BY <1>2, <1>7, <1>11, <1>13, <2>4, <2>6, OpenAfter, Zenon
  <2> QED
    BY <2>3, <2>6, <2>7, Zenon
<1> QED
  BY <1>1, <1>7, <1>8, <1>9, <1>14, <1>15, Zenon DEF ServerInv
-----------------------------------------------------------------------------
(* The steps of a connection *)

\* What a loop has to run once f is queued in loop l.
Enqueued(l, f) ==
  /\ pending' \in [Loop -> Seq(Functor)]
  /\ \A m \in Loop, g \in Functor : Pending(m, g)' <=> Pending(m, g) \/ (m = l /\ g = f)
  /\ \A m \in Loop, g \in Functor :
       PendingOnce(m, g) /\ (m = l /\ g = f => ~Pending(m, g)) => PendingOnce(m, g)'
  /\ \A m \in Loop, g, h \in Functor :
       PendingBefore(m, g, h) /\ g # h /\ (m = l /\ g = f => ~Pending(m, h)) => PendingBefore(m, g, h)'
  /\ \A m \in Loop, c \in Conn : Holds(pending'[m], c) <=> Holds(pending[m], c) \/ (m = l /\ f[2] = c)

\* What a loop has to run after one functor has been queued.
LEMMA PendingAppended ==
  ASSUME LoopTypes, NEW l \in Loop, NEW f \in Functor,
         pending' = [pending EXCEPT ![l] = Append(@, f)], UNCHANGED batch
  PROVE  Enqueued(l, f)
<1> DEFINE b == batch[l]
           p == pending[l]
           r == Append(p, f)
<1>1. /\ b \in Batch /\ p \in Seq(Functor) /\ pending'[l] = r /\ batch'[l] = b
      /\ \A m \in Loop \ {l} : pending'[m] = pending[m] /\ batch'[m] = batch[m]
  BY Zenon DEF LoopTypes
<1>2. /\ r \in Seq(Functor)
      /\ \A g \in Functor : Has(b, r, g) <=> Has(b, p, g) \/ g = f
      /\ \A g \in Functor : Once(b, p, g) /\ (g = f => ~Has(b, p, g)) => Once(b, r, g)
      /\ \A g, h \in Functor : Before(b, p, g, h) /\ g # h /\ (g = f => ~Has(b, p, h)) => Before(b, r, g, h)
  BY <1>1, Queued, Zenon
<1>3. \A c \in Conn : Holds(r, c) <=> Holds(p, c) \/ f[2] = c
  BY <1>1, HoldsAppend, Zenon
<1>4. pending' \in [Loop -> Seq(Functor)]
  BY <1>2, Zenon DEF LoopTypes
<1> HIDE DEF r
<1>5. ASSUME NEW m \in Loop, NEW g \in Functor
      PROVE  /\ Pending(m, g)' <=> Pending(m, g) \/ (m = l /\ g = f)
             /\ PendingOnce(m, g) /\ (m = l /\ g = f => ~Pending(m, g)) => PendingOnce(m, g)'
  BY <1>1, <1>2, Zenon DEF Pending, PendingOnce
<1>6. ASSUME NEW m \in Loop, NEW g \in Functor, NEW h \in Functor
      PROVE  PendingBefore(m, g, h) /\ g # h /\ (m = l /\ g = f => ~Pending(m, h)) => PendingBefore(m, g, h)'
  BY <1>1, <1>2, Zenon DEF Pending, PendingBefore
<1>7. ASSUME NEW m \in Loop, NEW c \in Conn
      PROVE  Holds(pending'[m], c) <=> Holds(pending[m], c) \/ (m = l /\ f[2] = c)
  BY <1>1, <1>3, Zenon
<1> QED
  BY <1>4, <1>5, <1>6, <1>7, Zenon DEF Enqueued

\* What is queued or run for one connection is of no concern to another.
Untouched(d) ==
  /\ state'[d] = state[d] /\ loopOf'[d] = loopOf[d] /\ (d \in channel' <=> d \in channel)
  /\ Listed(d)' <=> Listed(d)
  /\ \A l \in Loop, f \in {Establish(d), Destroy(d), Remove(d)} :
       /\ Pending(l, f)' <=> Pending(l, f)
       /\ PendingOnce(l, f) => PendingOnce(l, f)'
  /\ \A l \in Loop : PendingBefore(l, Establish(d), Destroy(d)) => PendingBefore(l, Establish(d), Destroy(d))'
  /\ Alone(d)' <=> Alone(d)

\* A step that changes one connection keeps what holds of another one.
LEMMA OthersKept ==
  ASSUME ServerInv, NEW d \in Conn, Untouched(d), EndedStay,
         Open(d)' => Open(d), d >= nextConnId' <=> d >= nextConnId
  PROVE  TodoInv(d)' /\ ConnInv(d)'
<1>1. TodoInv(d) /\ ConnInv(d) /\ base \in Loop /\ loopOf[d] \in Loop
  BY Constants, Zenon DEF ServerInv, ConnTypes, LoopTypes
<1>2. TodoInv(d)'
  BY <1>1, Zenon DEF TodoInv, Untouched, EndedStay
<1>3. ConnInv(d)'
  BY <1>1, Zenon DEF ConnInv, Untouched, EndedStay
<1> QED
  BY <1>2, <1>3, Zenon

\* A step that leaves the descriptors of a connection alone.
LEMMA OpenSame ==
  ASSUME ServerInv, NEW d \in Conn, Untouched(d), EndedStay, phase' = phase,
         \A f \in Fd : owner'[f] = ForConn(d) <=> owner[f] = ForConn(d)
  PROVE  OpenInv(d)' /\ (Open(d)' => Open(d))
<1>1. OpenInv(d) /\ loopOf[d] \in Loop
  BY Constants, Zenon DEF ServerInv, ConnTypes, LoopTypes
<1>2. Open(d)' <=> Open(d)
  BY Zenon DEF Open
<1> QED
  BY <1>1, <1>2, Zenon DEF OpenInv, Untouched, EndedStay

\* A functor that is queued for one connection promises nothing about another.
LEMMA QueuedForOther ==
  ASSUME LoopTypes, NEW l \in Loop, NEW c \in Conn, NEW f \in Functor, f[2] = c,
         pending' = pending \/ pending' = [pending EXCEPT ![l] = Append(@, f)], UNCHANGED batch,
         NEW d \in Conn, d # c,
         state'[d] = state[d], loopOf'[d] = loopOf[d], d \in channel' <=> d \in channel, Listed(d)' <=> Listed(d)
  PROVE  Untouched(d)
<1> DEFINE F == {Establish(d), Destroy(d), Remove(d)}
<1>1. F \subseteq Functor /\ f \notin F /\ Establish(d) # Destroy(d)
  BY FunctorNames, Zenon
<1>2. CASE pending' = pending
  <2>1. \A m, g, h : /\ Pending(m, g)' <=> Pending(m, g)
                     /\ PendingOnce(m, g)' <=> PendingOnce(m, g)
                     /\ PendingBefore(m, g, h)' <=> PendingBefore(m, g, h)
    BY <1>2, Zenon DEF Pending, PendingOnce, PendingBefore
  <2>2. Alone(d)' <=> Alone(d)
    BY <1>2, Zenon DEF Alone
  <2> QED
    BY <2>1, <2>2, Zenon DEF Untouched
<1>3. CASE pending' = [pending EXCEPT ![l] = Append(@, f)]
  <2>1. /\ \A m \in Loop, g \in F : (Pending(m, g)' <=> Pending(m, g)) /\ (PendingOnce(m, g) => PendingOnce(m, g)')
        /\ \A m \in Loop : PendingBefore(m, Establish(d), Destroy(d)) => PendingBefore(m, Establish(d), Destroy(d))'
        /\ \A m \in Loop : Holds(pending'[m], d) <=> Holds(pending[m], d)
    <3>1. Enqueued(l, f)
      BY <1>3, PendingAppended, Zenon
    <3> HIDE DEF F
    <3>2. \A m \in Loop, g \in F : (Pending(m, g)' <=> Pending(m, g)) /\ (PendingOnce(m, g) => PendingOnce(m, g)')
      BY <1>1, <3>1, Zenon DEF Enqueued
    <3>3. Establish(d) \in F /\ Destroy(d) \in F
      BY Zenon DEF F
    <3>4. \A m \in Loop : PendingBefore(m, Establish(d), Destroy(d)) => PendingBefore(m, Establish(d), Destroy(d))'
      BY <1>1, <3>1, <3>3, Zenon DEF Enqueued
    <3> QED
      BY <3>1, <3>2, <3>4, Zenon DEF Enqueued
  <2>2. Alone(d)' <=> Alone(d)
    BY <2>1, Zenon DEF Alone
  <2> QED
    BY <2>1, <2>2, Zenon DEF Untouched
<1> QED
  BY <1>2, <1>3, Zenon

\* A connection that has not been made yet is not waited for.
LEMMA NothingPending ==
  ASSUME LoopTypes, NEW c \in Conn, Alone(c), NEW l \in Loop
  PROVE  ~Pending(l, Establish(c)) /\ ~Pending(l, Destroy(c)) /\ ~Pending(l, Remove(c))
BY PendingAlive, FunctorNames, Zenon


\* The functors of connection c after f, another one for it, is queued in loop l.
EnqueuedFor(c, l, f) ==
  \A m \in Loop, g, h \in {Establish(c), Destroy(c), Remove(c)} :
    /\ Pending(m, g)' <=> Pending(m, g) \/ (m = l /\ g = f)
    /\ PendingOnce(m, g) /\ (g = f => ~Pending(m, g)) => PendingOnce(m, g)'
    /\ PendingBefore(m, g, h) /\ g # h /\ (g = f => ~Pending(m, h)) => PendingBefore(m, g, h)'

\* A functor that is queued for a connection keeps it alive.
LEMMA QueuedForIt ==
  ASSUME LoopTypes, NEW l \in Loop, NEW c \in Conn, NEW f \in {Establish(c), Destroy(c), Remove(c)},
         pending' = [pending EXCEPT ![l] = Append(@, f)], UNCHANGED batch
  PROVE  EnqueuedFor(c, l, f)
<1> DEFINE F == {Establish(c), Destroy(c), Remove(c)}
<1>1. F \subseteq Functor
  BY FunctorNames, Zenon
<1> HIDE DEF F
<1>2. f \in F
  BY Zenon DEF F
<1>3. Enqueued(l, f)
  BY <1>1, <1>2, PendingAppended, Zenon
<1>4. \A m \in Loop, g, h \in F :
           /\ Pending(m, g)' <=> Pending(m, g) \/ (m = l /\ g = f)
           /\ PendingOnce(m, g) /\ (g = f => ~Pending(m, g)) => PendingOnce(m, g)'
           /\ PendingBefore(m, g, h) /\ g # h /\ (g = f => ~Pending(m, h)) => PendingBefore(m, g, h)'
  BY <1>1, <1>3, Zenon DEF Enqueued
<1> QED
  BY <1>4, Zenon DEF F, EnqueuedFor

\* A connection that its peer closes is still in connections_.
LEMMA HandleCloseKeeps == ASSUME DistinctNames, ServerInv, NEW c \in Conn, HandleClose(c) PROVE ServerInv'
<1> DEFINE l == loopOf[c]
<1>1. /\ c \in channel /\ state[c] = "kConnected" /\ place[l] = "poll"
      /\ state' = [state EXCEPT ![c] = "kDisconnected"]
      /\ UNCHANGED <<numThreads, phase, arrived, served, accepting, idleFd, nextLoop, nextConnId, owner, channel,
                     loopOf, place, batch, quit>>
  BY Zenon DEF HandleClose, acceptVars
<1>2. TodoInv(c) /\ ConnInv(c) /\ OpenInv(c) /\ l \in 0 .. numThreads /\ l \in Loop /\ base \in Loop /\ base \in 0 .. numThreads
  BY Constants DEF ServerInv, ConnTypes, LoopTypes
<1>3. /\ \A m \in Loop : ~Pending(m, Establish(c)) /\ ~Pending(m, Remove(c))
      /\ \A m \in Loop : Pending(m, Destroy(c)) => place[base] = "ended"
      /\ place[base] # "ended" => Listed(c)
      /\ Open(c) /\ ~(c >= nextConnId)
  BY <1>1, <1>2, Constants, Zenon DEF TodoInv, ConnInv, OpenInv
<1>4. PICK f \in {Destroy(c), Remove(c)} :
        /\ pending' = [pending EXCEPT ![base] = Append(@, f)]
        /\ f = Destroy(c) <=> l = base
  <2>1. Destroy(c) # Remove(c)
    BY FunctorNames, Zenon
  <2>2. CASE l = base
    BY <2>1, <2>2, Zenon DEF HandleClose, RemoveConnectionInLoop, Destroy
  <2>3. CASE l # base
    BY <2>1, <2>3, Zenon DEF HandleClose, Remove
  <2> QED
    BY <2>2, <2>3, Zenon
<1>5. f \in Functor /\ f[2] = c /\ f # Establish(c)
  BY FunctorNames, Zenon
<1>6. /\ connections' \subseteq {<<ConnName(d), d>> : d \in Conn}
      /\ \A d \in Conn : Listed(d)' <=> Listed(d) /\ (l # base \/ d # c)
      /\ connections' \subseteq connections
  <2>1. CASE l = base
    <3>1. connections' = {e \in connections : e[1] # ConnName(c)}
      BY <2>1, Zenon DEF HandleClose, RemoveConnectionInLoop
    <3> QED
      BY <2>1, <3>1, Erased, Zenon DEF ServerInv
  <2>2. CASE l # base
    BY <2>2, Zenon DEF HandleClose, ServerInv, ConnTypes, Listed
  <2> QED
    BY <2>1, <2>2, Zenon
<1>7. failed' = None
  <2>1. CASE l = base
    <3>1. \E e \in connections : e[1] = ConnName(c)
      BY <1>1, <1>3, <2>1, Zenon DEF Listed
    <3> QED
      BY <2>1, <3>1, Zenon DEF HandleClose, RemoveConnectionInLoop, ServerInv
  <2>2. CASE l # base
    BY <2>2, Zenon DEF HandleClose, ServerInv
  <2> QED
    BY <2>1, <2>2, Zenon
<1>8. LoopTypes'
  BY <1>1, <1>2, <1>4, <1>5, PendingAppended, Zenon DEF ServerInv, LoopTypes, Enqueued
<1>9. ConnTypes'
  BY <1>1, <1>6, Zenon DEF ServerInv, ConnTypes
<1>10. phase' = phase /\ phase \notin {"new", "destroyed", "over"} /\ EndedStay
  BY <1>1, <1>2, Zenon DEF ServerInv, LoopInv, EndedStay
<1>11. FdInv'
  BY <1>1, <1>10, Zenon DEF ServerInv, FdInv
<1>12. LoopInv'
  <2>1. \A m \in Loop \ {base} : pending'[m] = pending[m]
    BY <1>4, Zenon DEF ServerInv, LoopTypes
  <2>2. connections = {} => connections' = {}
    BY <1>6, Zenon
  <2> QED
    BY <1>1, <1>2, <1>10, <2>1, <2>2, Zenon DEF ServerInv, LoopInv
<1>13. ASSUME NEW d \in Conn, d # c PROVE TodoInv(d)' /\ ConnInv(d)' /\ OpenInv(d)'
  <2>1. /\ state'[d] = state[d] /\ loopOf'[d] = loopOf[d] /\ (d \in channel' <=> d \in channel)
        /\ Listed(d)' <=> Listed(d)
    BY <1>1, <1>6, <1>13, Zenon DEF ServerInv, ConnTypes
  <2>2. Untouched(d)
    BY <1>1, <1>2, <1>4, <1>5, <1>13, <2>1, QueuedForOther, Zenon DEF ServerInv
  <2>4. OpenInv(d)' /\ (Open(d)' => Open(d))
    BY <1>1, <1>10, <2>2, OpenSame, Zenon
  <2> QED
    BY <1>1, <1>10, <2>2, <2>4, OthersKept, Zenon
<1>14. EnqueuedFor(c, base, f)
  BY <1>1, <1>2, <1>4, QueuedForIt, Zenon DEF ServerInv
<1>15. state'[c] = "kDisconnected" /\ state'[c] # None /\ loopOf'[c] = l /\ place'[base] = place[base]
  BY <1>1, Constants, Zenon DEF ServerInv, ConnTypes
<1>16. Establish(c) # Destroy(c) /\ Establish(c) # Remove(c) /\ Destroy(c) # Remove(c)
  BY FunctorNames, Zenon
<1>17. TodoInv(c)'
  <2> SUFFICES ASSUME NEW m \in Loop
               PROVE  /\ ~Pending(m, Establish(c))'
                      /\ Pending(m, Destroy(c))' => m = l /\ ~Listed(c)'
                      /\ Pending(m, Remove(c))' => m = base /\ l # base /\ (place[base] # "ended" => Listed(c)')
                      /\ PendingOnce(m, Establish(c))' /\ PendingOnce(m, Remove(c))'
                      /\ PendingBefore(m, Establish(c), Destroy(c))'
    BY <1>15, Zenon DEF TodoInv
  <2>1. ~Pending(m, Establish(c))'
    BY <1>3, <1>5, <1>14, Zenon DEF EnqueuedFor
  <2>2. Pending(m, Destroy(c))' => m = l /\ ~Listed(c)'
    BY <1>2, <1>4, <1>6, <1>14, Zenon DEF EnqueuedFor, TodoInv
  <2>3. Pending(m, Remove(c))' => m = base /\ l # base /\ (place[base] # "ended" => Listed(c)')
    BY <1>3, <1>4, <1>6, <1>14, <1>16, Zenon DEF EnqueuedFor
  <2>4. PendingOnce(m, Establish(c))' /\ PendingOnce(m, Remove(c))'
    BY <1>2, <1>3, <1>5, <1>14, Zenon DEF EnqueuedFor, TodoInv
  <2>5. PendingBefore(m, Establish(c), Destroy(c))'
    BY <1>2, <1>5, <1>14, <1>16, Zenon DEF EnqueuedFor, TodoInv
  <2> QED
    BY <2>1, <2>2, <2>3, <2>4, <2>5, Zenon
<1>18. ConnInv(c)'
  <2>1. Listed(c)' \/ Pending(l, Destroy(c))' \/ place'[l] = "ended"
    BY <1>1, <1>2, <1>4, <1>6, <1>14, Zenon DEF EnqueuedFor, ConnInv
  <2> QED
    BY <1>1, <1>3, <1>15, <2>1, Zenon DEF ConnInv
<1>19. OpenInv(c)'
  <2>1. Open(c)'
    BY <1>1, <1>3, Zenon DEF Open
  <2> QED
    BY <1>1, <1>2, <1>10, <2>1, Zenon DEF OpenInv
<1> QED
  BY <1>7, <1>8, <1>9, <1>11, <1>12, <1>13, <1>17, <1>18, <1>19, Zenon DEF ServerInv

\* ~TcpServer() leaves each connection to a functor, or to nobody when its Channel is out.
LEMMA DestroyConnectionKeeps == ASSUME ServerInv, NEW e \in connections, DestroyConnection(e) PROVE ServerInv'
<1>1. PICK c \in Conn : e = <<ConnName(c), c>>
  BY Zenon DEF ServerInv, ConnTypes
<1> DEFINE l == loopOf[c]
           f == Destroy(c)
<1>2. /\ phase = "running" /\ place[base] = "ended"
      /\ connections' = connections \ {e}
      /\ state' = IF l = base THEN [state EXCEPT ![c] = "kDisconnected"] ELSE state
      /\ channel' = IF l = base THEN channel \ {c} ELSE channel
      /\ pending' = IF l = base THEN pending ELSE [pending EXCEPT ![l] = Append(@, f)]
      /\ owner' = Closed(owner, Referred(connections', pending', batch'))
      /\ UNCHANGED <<numThreads, phase, arrived, served, accepting, idleFd, nextLoop, nextConnId,
                     loopOf, place, batch, quit, failed>>
  BY <1>1, Zenon DEF DestroyConnection, acceptVars, Destroy
<1>3. TodoInv(c) /\ ConnInv(c) /\ OpenInv(c) /\ l \in 0 .. numThreads /\ l \in Loop /\ base \in Loop /\ base \in 0 .. numThreads
  <2>1. TodoInv(c) /\ ConnInv(c) /\ OpenInv(c) /\ l \in 0 .. numThreads
    BY Zenon DEF ServerInv, ConnTypes
  <2>2. base \in Loop /\ base \in 0 .. numThreads /\ 0 .. numThreads \subseteq Loop
    BY Constants DEF ServerInv, LoopTypes
  <2> QED
    BY <2>1, <2>2, Zenon
<1>4. Listed(c) /\ ~Alone(c) /\ state[c] # None /\ ~(c >= nextConnId)
  BY <1>1, <1>3, Zenon DEF Listed, Alone, ConnInv
<1>5. f \in Functor /\ f[2] = c
  BY FunctorNames, Zenon
<1>6. /\ connections' \subseteq {<<ConnName(d), d>> : d \in Conn}
      /\ \A d \in Conn : Listed(d)' <=> Listed(d) /\ d # c
  BY <1>1, <1>2, Zenon DEF ServerInv, ConnTypes, Listed
<1>7. pending' = pending \/ pending' = [pending EXCEPT ![l] = Append(@, f)]
  BY <1>2, Zenon
<1>8. LoopTypes'
  <2>1. pending' \in [Loop -> Seq(Functor)]
    BY <1>2, <1>3, <1>5, <1>7, PendingAppended, Zenon DEF ServerInv, LoopTypes, Enqueued
  <2> QED
    BY <1>2, <2>1, Zenon DEF ServerInv, LoopTypes
<1>9. ConnTypes'
  BY <1>2, <1>6, Zenon DEF ServerInv, ConnTypes
<1>10. phase' = phase /\ phase \notin {"new", "destroyed", "over"} /\ EndedStay
  BY <1>2, Zenon DEF EndedStay
<1>11. /\ owner' \in [Fd -> Owner]
       /\ \A g \in Fd, u \in {"idle", "refused"} : owner'[g] = For(u) <=> owner[g] = For(u)
       /\ \A g \in Fd, d \in Conn : owner'[g] = ForConn(d) <=> owner[g] = ForConn(d) /\ ~Alone(d)'
  BY <1>2, <1>8, <1>9, Released, Zenon
<1>12. FdInv'
  <2>1. accepting = "idle"
    BY <1>2, Zenon DEF ServerInv, FdInv
  <2> QED
    BY <1>2, <1>11, <2>1, Zenon DEF ServerInv, FdInv
<1>13. LoopInv'
  <2>1. quit \subseteq {base}
    BY Zenon DEF ServerInv, LoopInv
  <2>2. pending \in [Loop -> Seq(Functor)] /\ \A m \in Loop : pending'[m] = pending[m] \/ (m = l /\ m # base)
    BY <1>2, <1>3, Zenon DEF ServerInv, LoopTypes
  <2>3. \A m \in Loop \ {base} : place[m] # "ended"
    BY <2>1, Zenon DEF ServerInv, LoopInv
  <2> QED
    BY <1>2, <1>3, <2>1, <2>2, <2>3, Zenon DEF ServerInv, LoopInv
<1>14. ASSUME NEW d \in Conn, d # c PROVE TodoInv(d)' /\ ConnInv(d)' /\ OpenInv(d)'
  <2>1. /\ state'[d] = state[d] /\ loopOf'[d] = loopOf[d] /\ (d \in channel' <=> d \in channel)
        /\ Listed(d)' <=> Listed(d)
    BY <1>2, <1>6, <1>14, Zenon DEF ServerInv, ConnTypes
  <2>2. Untouched(d)
    <3> PICK k \in Loop : k = l
      BY <1>3, Zenon
    <3> QED
      BY <1>2, <1>5, <1>7, <1>14, <2>1, QueuedForOther, Zenon DEF ServerInv
  <2>3. Open(d)' => Open(d)
    BY <1>11, Zenon DEF Open
  <2>4. TodoInv(d)' /\ ConnInv(d)'
    BY <1>2, <1>10, <2>2, <2>3, OthersKept, Zenon
  <2>5. loopOf'[d] \in Loop /\ Alone(d) => Alone(d)'
    BY <2>2, Zenon DEF Untouched
  <2>6. loopOf'[d] \in Loop
    BY <1>8, <1>9, Constants, Zenon DEF LoopTypes, ConnTypes
  <2> QED
    BY <1>8, <1>10, <1>11, <2>4, <2>5, <2>6, OpenAfter, Zenon
<1>15. TodoInv(c)' /\ ConnInv(c)'
  <2>1. CASE l = base
    <3>1. /\ \A m \in Loop : ~Pending(m, Establish(c)) /\ ~Pending(m, Destroy(c)) /\ ~Pending(m, Remove(c))
          /\ \A m \in Loop : PendingOnce(m, Establish(c)) /\ PendingOnce(m, Remove(c))
          /\ \A m \in Loop : PendingBefore(m, Establish(c), Destroy(c))
      BY <1>3, <1>4, <2>1, Zenon DEF TodoInv
    <3>2. \A m, g, h : /\ Pending(m, g)' <=> Pending(m, g)
                       /\ PendingOnce(m, g)' <=> PendingOnce(m, g)
                       /\ PendingBefore(m, g, h)' <=> PendingBefore(m, g, h)
      BY <1>2, <2>1, Zenon DEF Pending, PendingOnce, PendingBefore
    <3>3. state'[c] = "kDisconnected" /\ c \notin channel'
      BY <1>2, <2>1, Zenon DEF ServerInv, ConnTypes
    <3>4. TodoInv(c)'
      BY <3>1, <3>2, Zenon DEF TodoInv
    <3>5. ConnInv(c)'
      BY <1>2, <1>4, <3>3, Constants, Zenon DEF ConnInv
    <3> QED
      BY <3>4, <3>5, Zenon
  <2>2. CASE l # base
    <3>1. EnqueuedFor(c, l, f)
      <4>1. pending' = [pending EXCEPT ![l] = Append(@, f)] /\ f \in {Establish(c), Destroy(c), Remove(c)}
        BY <1>2, <2>2, Zenon
      <4> PICK k \in Loop : k = l
        BY <1>3, Zenon
      <4>2. pending' = [pending EXCEPT ![k] = Append(@, f)] /\ LoopTypes /\ UNCHANGED batch
        BY <1>2, <4>1, Zenon DEF ServerInv
      <4> HIDE DEF f, l
      <4>3. EnqueuedFor(c, k, f)
        BY <4>1, <4>2, QueuedForIt, Zenon
      <4> QED
        BY <4>3, Zenon
    <3>2. state' = state /\ loopOf'[c] = l /\ place'[base] = "ended"
      BY <1>2, <2>2, Zenon
    <3>3. Establish(c) # Destroy(c) /\ Establish(c) # Remove(c) /\ Destroy(c) # Remove(c)
      BY FunctorNames, Zenon
    <3>4. TodoInv(c)'
      <4> SUFFICES ASSUME NEW m \in Loop
                   PROVE  /\ Pending(m, Establish(c))' => m = l /\ m # base /\ state[c] = "kConnecting"
                          /\ Pending(m, Destroy(c))' => m = l
                          /\ Pending(m, Remove(c))' => m = base /\ l # base /\ state[c] = "kDisconnected"
                          /\ PendingOnce(m, Establish(c))' /\ PendingOnce(m, Remove(c))'
                          /\ PendingBefore(m, Establish(c), Destroy(c))'
        BY <1>4, <1>6, <3>2, Zenon DEF TodoInv
      <4>1. /\ Pending(m, Establish(c))' => m = l /\ m # base /\ state[c] = "kConnecting"
            /\ Pending(m, Destroy(c))' => m = l
            /\ Pending(m, Remove(c))' => m = base /\ l # base /\ state[c] = "kDisconnected"
        BY <1>3, <3>1, <3>3, Zenon DEF TodoInv, EnqueuedFor
      <4>2. PendingOnce(m, Establish(c))' /\ PendingOnce(m, Remove(c))'
        BY <1>3, <3>1, <3>3, Zenon DEF TodoInv, EnqueuedFor
      <4>3. PendingBefore(m, Establish(c), Destroy(c))'
        BY <1>3, <3>1, <3>3, Zenon DEF TodoInv, EnqueuedFor
      <4> QED
        BY <4>1, <4>2, <4>3, Zenon
    <3>5. Pending(l, Destroy(c))'
      BY <1>3, <3>1, <3>2, Zenon DEF EnqueuedFor
    <3>6. ConnInv(c)'
      BY <1>2, <1>4, <3>2, <3>5, Zenon DEF ConnInv
    <3> QED
      BY <3>4, <3>6, Zenon
  <2> QED
    BY <2>1, <2>2, Zenon
<1>16. OpenInv(c)'
  <2>1. loopOf'[c] \in Loop
    BY <1>8, <1>9, Constants, Zenon DEF LoopTypes, ConnTypes
  <2> QED
    BY <1>4, <1>8, <1>10, <1>11, <1>15, <2>1, OpenAfter, Zenon
<1> QED
  BY <1>2, <1>8, <1>9, <1>12, <1>13, <1>14, <1>15, <1>16, Zenon DEF ServerInv

\* Loop l has run functor e, which has queued f in loop k, if k is a loop.
Ran(l, e, k, f) ==
  /\ pending' \in [Loop -> Seq(Functor)] /\ batch' \in [Loop -> Batch]
  /\ \A m \in Loop : (m # l => batch'[m] = batch[m]) /\ (m # k => pending'[m] = pending[m])
  /\ Pending(l, e)
  /\ \A g \in Functor : /\ Pending(l, g) <=> g = e \/ Pending(l, g)'
                        /\ PendingOnce(l, g) => PendingOnce(l, g)' /\ (g = e => ~Pending(l, g)')
  /\ \A g, h \in Functor : PendingBefore(l, g, h) => PendingBefore(l, g, h)' /\ (h = e => ~Pending(l, g))
  /\ \A m \in Loop \ {l}, g \in Functor :
       /\ Pending(m, g)' <=> Pending(m, g) \/ (m = k /\ g = f)
       /\ PendingOnce(m, g) /\ g # f => PendingOnce(m, g)'
  /\ \A m \in Loop \ {l}, g, h \in Functor : PendingBefore(m, g, h) /\ g # h /\ g # f => PendingBefore(m, g, h)'
  /\ \A m \in Loop, c \in Conn :
       /\ Holds(pending'[m], c) <=> Holds(pending[m], c) \/ (m = k /\ f[2] = c)
       /\ Holds(batch'[m].functors, c) <=> Holds(batch[m].functors, c)

\* What a loop has to run after it has run one functor.
LEMMA RanFunctor ==
  ASSUME LoopTypes, NEW l \in Loop, NEW e, e = batch[l].functors[batch[l].run + 1],
         batch[l].run < Len(batch[l].functors), batch' = [batch EXCEPT ![l].run = @ + 1],
         NEW k, k # l, NEW f \in Functor,
         pending' = [m \in Loop |-> IF m = k THEN Append(pending[m], f) ELSE pending[m]]
  PROVE  Ran(l, e, k, f)
<1> DEFINE b == batch[l]
           a == [b EXCEPT !.run = @ + 1]
           p == pending[l]
<1>1. /\ batch \in [Loop -> Batch] /\ pending \in [Loop -> Seq(Functor)]
      /\ b \in Batch /\ p \in Seq(Functor)
  BY Zenon DEF LoopTypes
<1>2. /\ batch'[l] = a /\ pending'[l] = p
      /\ \A m \in Loop \ {l} : batch'[m] = batch[m]
      /\ \A m \in Loop : pending'[m] = IF m = k THEN Append(pending[m], f) ELSE pending[m]
  BY <1>1, Zenon
<1>3. /\ a \in Batch /\ a.functors = b.functors /\ e \in Functor /\ Has(b, p, e)
      /\ \A g \in Functor : Has(b, p, g) <=> g = e \/ Has(a, p, g)
      /\ \A g \in Functor : Once(b, p, g) => Once(a, p, g) /\ (g = e => ~Has(a, p, g))
      /\ \A g, h \in Functor : Before(b, p, g, h) => Before(a, p, g, h) /\ (h = e => ~Has(b, p, g))
  BY <1>1, RunFirst, Zenon
<1>4. pending' \in [Loop -> Seq(Functor)]
  BY <1>1, AppendFacts, Zenon
<1> HIDE DEF a
<1>5. batch' \in [Loop -> Batch]
  <2>1. batch' = [batch EXCEPT ![l] = a]
    BY Zenon DEF a
  <2> QED
    BY <1>1, <1>3, <2>1, Zenon
<1>6. /\ Pending(l, e)
      /\ \A g \in Functor : /\ Pending(l, g) <=> g = e \/ Pending(l, g)'
                            /\ PendingOnce(l, g) => PendingOnce(l, g)' /\ (g = e => ~Pending(l, g)')
      /\ \A g, h \in Functor : PendingBefore(l, g, h) => PendingBefore(l, g, h)' /\ (h = e => ~Pending(l, g))
  BY <1>2, <1>3, Zenon DEF Pending, PendingOnce, PendingBefore
<1>7. ASSUME NEW m \in Loop \ {l}
      PROVE  /\ \A g \in Functor : /\ Pending(m, g)' <=> Pending(m, g) \/ (m = k /\ g = f)
                                   /\ PendingOnce(m, g) /\ g # f => PendingOnce(m, g)'
             /\ \A g, h \in Functor : PendingBefore(m, g, h) /\ g # h /\ g # f => PendingBefore(m, g, h)'
  <2> DEFINE r == Append(pending[m], f)
  <2>1. batch[m] \in Batch /\ pending[m] \in Seq(Functor) /\ batch'[m] = batch[m]
    BY <1>1, <1>2, Zenon
  <2>2. CASE m = k
    <3>1. pending'[m] = r
      BY <1>2, <2>2, Zenon
    <3>2. /\ \A g \in Functor : Has(batch[m], r, g) <=> Has(batch[m], pending[m], g) \/ g = f
          /\ \A g \in Functor : Once(batch[m], pending[m], g) /\ g # f => Once(batch[m], r, g)
          /\ \A g, h \in Functor : Before(batch[m], pending[m], g, h) /\ g # h /\ g # f => Before(batch[m], r, g, h)
      BY <2>1, Queued, Zenon
    <3> HIDE DEF r
    <3> QED
      BY <2>1, <2>2, <3>1, <3>2, Zenon DEF Pending, PendingOnce, PendingBefore
  <2>3. CASE m # k
    <3>1. pending'[m] = pending[m]
      BY <1>2, <2>3, Zenon
    <3> QED
      BY <2>1, <2>3, <3>1, Zenon DEF Pending, PendingOnce, PendingBefore
  <2> QED
    BY <2>2, <2>3, Zenon
<1>8. ASSUME NEW m \in Loop, NEW c \in Conn
      PROVE  Holds(pending'[m], c) <=> Holds(pending[m], c) \/ (m = k /\ f[2] = c)
  <2>1. pending[m] \in Seq(Functor)
    BY <1>1, Zenon
  <2> QED
    BY <1>2, <2>1, HoldsAppend, Zenon
<1>9. \A m \in Loop : batch'[m].functors = batch[m].functors
  BY <1>2, <1>3, Zenon
<1> QED
  BY <1>2, <1>4, <1>5, <1>6, <1>7, <1>8, <1>9, Zenon DEF Ran

\* A functor that is run for one connection keeps what holds of another.
LEMMA RanForOther ==
  ASSUME NEW l \in Loop, NEW c \in Conn, NEW e \in Functor, e[2] = c, NEW k, NEW f \in Functor, f[2] = c,
         Ran(l, e, k, f), NEW d \in Conn, d # c,
         state'[d] = state[d], loopOf'[d] = loopOf[d], d \in channel' <=> d \in channel, Listed(d)' <=> Listed(d)
  PROVE  Untouched(d)
<1> DEFINE F == {Establish(d), Destroy(d), Remove(d)}
<1>1. F \subseteq Functor /\ f \notin F /\ e \notin F /\ Establish(d) # Destroy(d)
  BY FunctorNames, Zenon
<1>2. Establish(d) \in F /\ Destroy(d) \in F
  BY Zenon
<1> HIDE DEF F
<1>3. \A m \in Loop, g \in F : (Pending(m, g)' <=> Pending(m, g)) /\ (PendingOnce(m, g) => PendingOnce(m, g)')
  <2>1. \A g \in F : (Pending(l, g)' <=> Pending(l, g)) /\ (PendingOnce(l, g) => PendingOnce(l, g)')
    BY <1>1, Zenon DEF Ran
  <2>2. \A m \in Loop \ {l}, g \in F : (Pending(m, g)' <=> Pending(m, g)) /\ (PendingOnce(m, g) => PendingOnce(m, g)')
    BY <1>1 DEF Ran
  <2> QED
    BY <2>1, <2>2, Zenon
<1>4. \A m \in Loop : PendingBefore(m, Establish(d), Destroy(d)) => PendingBefore(m, Establish(d), Destroy(d))'
  <2>1. \A g, h \in Functor : PendingBefore(l, g, h) => PendingBefore(l, g, h)'
    BY Zenon DEF Ran
  <2>2. \A m \in Loop \ {l}, g, h \in Functor :
          PendingBefore(m, g, h) /\ g # h /\ g # f => PendingBefore(m, g, h)'
    BY Zenon DEF Ran
  <2> QED
    BY <1>1, <1>2, <2>1, <2>2, Zenon
<1>5. Alone(d)' <=> Alone(d)
  BY Zenon DEF Ran, Alone
<1> QED
  BY <1>3, <1>4, <1>5, Zenon DEF Untouched, F

\* What RunFunctor(l) does, whichever functor e of connection c is run.
RunsFor(l, e, c) ==
  /\ place[l] = "functors" /\ e[2] = c
  /\ UNCHANGED <<numThreads, phase, arrived, served, accepting, idleFd, nextLoop, nextConnId, owner, loopOf, place, quit>>

\* connectEstablished() is run for a connection that is kConnecting, once.
LEMMA RanEstablish ==
  ASSUME ServerInv, NEW l \in Loop, NEW c \in Conn, RunsFor(l, Establish(c), c),
         NEW k, k \notin Loop, Ran(l, Establish(c), k, Destroy(c)),
         state[c] = "kConnecting" =>
           state' = [state EXCEPT ![c] = "kConnected"] /\ channel' = channel \cup {c} /\ UNCHANGED failed,
         UNCHANGED connections
  PROVE  /\ state[c] = "kConnecting"
         /\ TodoInv(c)' /\ ConnInv(c)' /\ OpenInv(c)'
<1>1. TodoInv(c) /\ ConnInv(c) /\ OpenInv(c) /\ base \in Loop
  BY Constants, Zenon DEF ServerInv
<1>2. /\ Establish(c) \in Functor /\ Destroy(c) \in Functor /\ Remove(c) \in Functor
      /\ Establish(c) # Destroy(c) /\ Establish(c) # Remove(c) /\ Destroy(c) # Remove(c)
      /\ Establish(c)[2] = c
  BY FunctorNames, Zenon
<1>3. /\ \A m \in Loop, g \in {Destroy(c), Remove(c)} : Pending(m, g)' <=> Pending(m, g)
      /\ \A m \in Loop : Pending(m, Establish(c))' => Pending(m, Establish(c)) /\ m # l
      /\ Pending(l, Establish(c))
  <2>1. PendingOnce(l, Establish(c))
    BY <1>1, Zenon DEF TodoInv
  <2>2. \A m \in Loop \ {l} : /\ Pending(m, Destroy(c))' <=> Pending(m, Destroy(c))
                              /\ Pending(m, Remove(c))' <=> Pending(m, Remove(c))
                              /\ Pending(m, Establish(c))' <=> Pending(m, Establish(c))
    BY <1>2, Zenon DEF Ran
  <2>3. /\ Pending(l, Destroy(c))' <=> Pending(l, Destroy(c))
        /\ Pending(l, Remove(c))' <=> Pending(l, Remove(c))
        /\ Pending(l, Establish(c)) /\ ~Pending(l, Establish(c))'
    BY <1>2, <2>1, Zenon DEF Ran
  <2> QED
    BY <2>2, <2>3, Zenon
<1>4. l = loopOf[c] /\ l # base /\ state[c] = "kConnecting"
  BY <1>1, <1>3, Zenon DEF TodoInv
<1>5. /\ state'[c] = "kConnected" /\ state'[c] # None /\ loopOf'[c] = loopOf[c] /\ c \in channel'
      /\ place' = place /\ (Listed(c)' <=> Listed(c)) /\ state[c] # None
  BY <1>4, Constants, Zenon DEF ServerInv, ConnTypes, RunsFor, Listed
<1>6. /\ \A m \in Loop : ~Pending(m, Establish(c))' /\ ~Pending(m, Remove(c))'
      /\ \A m \in Loop : Pending(m, Destroy(c))' => m = l /\ ~Listed(c) /\ place[base] = "ended"
  BY <1>1, <1>3, <1>4, <1>5, Constants, Zenon DEF TodoInv
<1>7. \A m \in Loop : ~Pending(m, Establish(c))' => PendingOnce(m, Establish(c))'
  BY Zenon DEF Pending, PendingOnce, Has, Once
<1>8. \A m \in Loop : ~Pending(m, Remove(c))' => PendingOnce(m, Remove(c))'
  BY Zenon DEF Pending, PendingOnce, Has, Once
<1>9. \A m \in Loop : ~Pending(m, Establish(c))' => PendingBefore(m, Establish(c), Destroy(c))'
  BY Zenon DEF Pending, PendingBefore, Has, Before
<1>10. TodoInv(c)'
  BY <1>4, <1>5, <1>6, <1>7, <1>8, <1>9, Zenon DEF TodoInv
<1>11. Listed(c) \/ Pending(loopOf[c], Destroy(c))' \/ place[loopOf[c]] = "ended"
  BY <1>1, <1>3, <1>4, Zenon DEF ConnInv, RunsFor
<1>12. ConnInv(c)'
  <2>1. ~(c >= nextConnId') /\ (place[base] # "ended" => Listed(c))
    BY <1>1, <1>4, <1>5, Zenon DEF ConnInv, RunsFor
  <2>2. loopOf' = loopOf
    BY Zenon DEF RunsFor
  <2> QED
    BY <1>5, <1>11, <2>1, <2>2, Zenon DEF ConnInv
<1>13. OpenInv(c)'
  <2>1. ~Alone(c)
    BY <1>2, <1>3, PendingAlive, Zenon DEF ServerInv
  <2>2. Open(c)' /\ phase' = phase /\ owner' = owner /\ phase # "over"
    <3>1. place[l] # "ended" /\ l \in 0 .. numThreads
      BY <1>4, Zenon DEF RunsFor, ServerInv, ConnTypes
    <3> QED
      BY <1>1, <2>1, <3>1, Zenon DEF OpenInv, RunsFor, Open, ServerInv, LoopInv
  <2> QED
    BY <1>1, <2>2, Zenon DEF OpenInv
<1> QED
  BY <1>4, <1>10, <1>12, <1>13, Zenon

\* connectDestroyed() takes the Channel of its connection out of the poller.
LEMMA RanDestroy ==
  ASSUME ServerInv, NEW l \in Loop, NEW c \in Conn, RunsFor(l, Destroy(c), c),
         NEW k, k \notin Loop, Ran(l, Destroy(c), k, Destroy(c)),
         state' = [state EXCEPT ![c] = "kDisconnected"], channel' = channel \ {c}, UNCHANGED connections
  PROVE  TodoInv(c)' /\ ConnInv(c)' /\ OpenInv(c)'
<1>1. TodoInv(c) /\ ConnInv(c) /\ OpenInv(c) /\ base \in Loop
  BY Constants, Zenon DEF ServerInv
<1>2. /\ Establish(c) \in Functor /\ Destroy(c) \in Functor /\ Remove(c) \in Functor
      /\ Establish(c) # Destroy(c) /\ Establish(c) # Remove(c) /\ Destroy(c) # Remove(c)
      /\ Destroy(c)[2] = c
  BY FunctorNames, Zenon
<1>3. /\ \A m \in Loop, g \in {Establish(c), Destroy(c), Remove(c)} : Pending(m, g)' => Pending(m, g)
      /\ \A m \in Loop : PendingOnce(m, Remove(c)) => PendingOnce(m, Remove(c))'
      /\ Pending(l, Destroy(c))
      /\ PendingBefore(l, Establish(c), Destroy(c)) => ~Pending(l, Establish(c))
  <2>1. \A m \in Loop \ {l}, g \in {Establish(c), Destroy(c), Remove(c)} : Pending(m, g)' => Pending(m, g)
    BY <1>2 DEF Ran
  <2>2. \A g \in {Establish(c), Destroy(c), Remove(c)} : Pending(l, g)' => Pending(l, g)
    BY <1>2, Zenon DEF Ran
  <2>3. PendingOnce(l, Remove(c)) => PendingOnce(l, Remove(c))'
    BY <1>2, Zenon DEF Ran
  <2>4. \A m \in Loop \ {l} : PendingOnce(m, Remove(c)) => PendingOnce(m, Remove(c))'
    BY <1>2, Zenon DEF Ran
  <2>5. Pending(l, Destroy(c)) /\ (PendingBefore(l, Establish(c), Destroy(c)) => ~Pending(l, Establish(c)))
    BY <1>2, Zenon DEF Ran
  <2> QED
    BY <2>1, <2>2, <2>3, <2>4, <2>5, Zenon
<1>4. l = loopOf[c] /\ state[c] # None /\ ~Listed(c) /\ \A m \in Loop : ~Pending(m, Establish(c))'
  BY <1>1, <1>3, Zenon DEF TodoInv
<1>5. /\ state'[c] = "kDisconnected" /\ state'[c] # None /\ loopOf' = loopOf /\ c \notin channel'
      /\ place' = place /\ (Listed(c)' <=> Listed(c))
  BY Constants, Zenon DEF ServerInv, ConnTypes, RunsFor, Listed
<1>6. \A m \in Loop : ~Pending(m, Establish(c))' =>
                        PendingOnce(m, Establish(c))' /\ PendingBefore(m, Establish(c), Destroy(c))'
  BY Zenon DEF Pending, PendingOnce, PendingBefore, Has, Once, Before
<1>7. TodoInv(c)'
  BY <1>1, <1>3, <1>4, <1>5, <1>6, Zenon DEF TodoInv
<1>8. ConnInv(c)'
  <2>1. ~(c >= nextConnId')
    BY <1>1, <1>4, Zenon DEF ConnInv, RunsFor
  <2> QED
    BY <1>5, <2>1, Zenon DEF ConnInv
<1>9. OpenInv(c)'
  <2>1. ~Alone(c)
    BY <1>2, <1>3, PendingAlive, Zenon DEF ServerInv
  <2>2. Open(c)' /\ phase' = phase /\ owner' = owner /\ phase # "over"
    <3>1. place[l] # "ended" /\ l \in 0 .. numThreads
      BY <1>4, Zenon DEF RunsFor, ServerInv, ConnTypes
    <3> QED
      BY <1>1, <2>1, <3>1, Zenon DEF OpenInv, RunsFor, Open, ServerInv, LoopInv
  <2> QED
    BY <1>1, <2>2, Zenon DEF OpenInv
<1> QED
  BY <1>7, <1>8, <1>9, Zenon

\* removeConnectionInLoop() finds its connection, and queues connectDestroyed() for it.
LEMMA RanRemove ==
  ASSUME DistinctNames, ServerInv, NEW c \in Conn, NEW k \in Loop, k = loopOf[c],
         RunsFor(base, Remove(c), c), k # base => Ran(base, Remove(c), k, Destroy(c)),
         Pending(base, Remove(c)), connections' = {e \in connections : e[1] # ConnName(c)}, UNCHANGED <<state, channel>>
  PROVE  /\ Listed(c) /\ k # base
         /\ TodoInv(c)' /\ ConnInv(c)' /\ OpenInv(c)'
<1>1. TodoInv(c) /\ ConnInv(c) /\ OpenInv(c) /\ base \in Loop /\ base \in 0 .. numThreads
  BY Constants DEF ServerInv, LoopTypes
<1>2. /\ Establish(c) \in Functor /\ Destroy(c) \in Functor /\ Remove(c) \in Functor
      /\ Establish(c) # Destroy(c) /\ Establish(c) # Remove(c) /\ Destroy(c) # Remove(c)
      /\ Remove(c)[2] = c
  BY FunctorNames, Zenon
<1>3. k # base /\ state[c] = "kDisconnected" /\ Listed(c) /\ place[base] = "functors"
  BY <1>1, Zenon DEF TodoInv, RunsFor
<1>4. /\ \A m \in Loop : ~Pending(m, Establish(c)) /\ ~Pending(m, Destroy(c))
      /\ \A m \in Loop : Pending(m, Remove(c)) => m = base
  BY <1>1, <1>3, Zenon DEF TodoInv
<1>5. Ran(base, Remove(c), k, Destroy(c))
  BY <1>3, Zenon
<1>6. /\ \A m \in Loop : ~Pending(m, Establish(c))' /\ ~Pending(m, Remove(c))'
      /\ \A m \in Loop : Pending(m, Destroy(c))' <=> m = k
  <2>1. ~Pending(base, Establish(c))' /\ ~Pending(base, Destroy(c))'
    BY <1>1, <1>2, <1>4, <1>5, Zenon DEF Ran
  <2>2. ~Pending(base, Remove(c))'
    BY <1>1, <1>2, <1>5, Zenon DEF Ran, TodoInv
  <2>3. \A m \in Loop \ {base} : /\ ~Pending(m, Establish(c))' /\ ~Pending(m, Remove(c))'
                                 /\ Pending(m, Destroy(c))' <=> m = k
    BY <1>2, <1>4, <1>5, Zenon DEF Ran
  <2> QED
    BY <1>1, <1>3, <2>1, <2>2, <2>3, Zenon
<1>7. state' = state /\ loopOf' = loopOf /\ place' = place /\ ~Listed(c)' /\ state[c] # None /\ channel' = channel
  BY <1>3, Erased, Constants, Zenon DEF ServerInv, RunsFor
<1>8. \A m \in Loop : /\ ~Pending(m, Establish(c))' =>
                           PendingOnce(m, Establish(c))' /\ PendingBefore(m, Establish(c), Destroy(c))'
                      /\ ~Pending(m, Remove(c))' => PendingOnce(m, Remove(c))'
  BY Zenon DEF Pending, PendingOnce, PendingBefore, Has, Once, Before
<1>9. TodoInv(c)'
  BY <1>3, <1>6, <1>7, <1>8, Zenon DEF TodoInv
<1>10. ConnInv(c)'
  <2>1. ~(c >= nextConnId')
    BY <1>1, <1>7, Zenon DEF ConnInv, RunsFor
  <2>2. Pending(loopOf[c], Destroy(c))'
    BY <1>6, <1>7, Zenon
  <2> QED
    BY <1>3, <1>7, <2>1, <2>2, Zenon DEF ConnInv
<1>11. OpenInv(c)'
  <2>1. ~Alone(c)
    BY <1>3, Zenon DEF Alone
  <2>2. Open(c)' /\ phase' = phase /\ owner' = owner /\ phase # "over"
    BY <1>1, <1>3, <2>1, Zenon DEF OpenInv, RunsFor, Open, ServerInv, LoopInv
  <2> QED
    BY <1>1, <2>2, Zenon DEF OpenInv
<1> QED
  BY <1>3, <1>9, <1>10, <1>11, Zenon

\* The rest of the invariant, and the connections other than c.
LEMMA RanKeeps ==
  ASSUME DistinctNames, ServerInv, NEW l \in Loop, NEW c \in Conn, NEW e \in Functor, RunsFor(l, e, c),
         NEW k, k \notin Loop \/ (l = base /\ k = loopOf[c]), k # l, Ran(l, e, k, Destroy(c)),
         NEW s \in {"kConnected", "kDisconnected"},
         state' = state \/ state' = [state EXCEPT ![c] = s],
         channel' \in {channel, channel \cup {c}, channel \ {c}},
         UNCHANGED connections \/ connections' = {x \in connections : x[1] # ConnName(c)}, UNCHANGED failed,
         TodoInv(c)', ConnInv(c)', OpenInv(c)'
  PROVE  ServerInv'
<1>1. /\ place[l] = "functors" /\ e[2] = c
      /\ UNCHANGED <<numThreads, phase, arrived, served, accepting, idleFd, nextLoop, nextConnId, owner,
                     loopOf, place, quit>>
  BY Zenon DEF RunsFor
<1>2. base \in Loop /\ base \in 0 .. numThreads /\ loopOf[c] \in 0 .. numThreads /\ l \in 0 .. numThreads
  <2>1. base \in Loop /\ base \in 0 .. numThreads
    BY Constants DEF ServerInv, LoopTypes
  <2>2. loopOf[c] \in 0 .. numThreads
    BY Zenon DEF ServerInv, ConnTypes
  <2>3. l \in 0 .. numThreads
    BY <1>1, Zenon DEF ServerInv, LoopInv
  <2> QED
    BY <2>1, <2>2, <2>3, Zenon
<1>3. /\ connections' \subseteq {<<ConnName(d), d>> : d \in Conn} /\ connections' \subseteq connections
      /\ \A d \in Conn \ {c} : Listed(d)' <=> Listed(d)
  <2>1. CASE UNCHANGED connections
    BY <2>1, Zenon DEF ServerInv, ConnTypes, Listed
  <2>2. CASE connections' = {x \in connections : x[1] # ConnName(c)}
    BY <2>2, Erased, Zenon DEF ServerInv
  <2> QED
    BY <2>1, <2>2, Zenon
<1>4. LoopTypes'
  BY <1>1, Zenon DEF ServerInv, LoopTypes, Ran
<1>5. ConnTypes'
  <2>1. state' \in [Conn -> {None, "kConnecting", "kConnected", "kDisconnected"}] /\ channel' \subseteq Conn
    BY Zenon DEF ServerInv, ConnTypes
  <2> QED
    BY <1>1, <1>3, <2>1, Zenon DEF ServerInv, ConnTypes
<1>6. phase' = phase /\ phase \notin {"new", "destroyed", "over"} /\ EndedStay
  BY <1>1, <1>2, Zenon DEF ServerInv, LoopInv, EndedStay
<1>7. FdInv'
  BY <1>1, <1>6, Zenon DEF ServerInv, FdInv
<1>8. LoopInv'
  <2>1. \A m \in Loop : (m # l => batch'[m] = batch[m]) /\ (m # k => pending'[m] = pending[m])
    BY Zenon DEF Ran
  <2>2. connections = {} => connections' = {}
    BY <1>3, Zenon
  <2>3. k \in Loop => /\ l = base /\ k # base /\ k \in 0 .. numThreads
                     /\ quit \subseteq {base} /\ \A m \in Loop \ {base} : place[m] # "ended"
    BY <1>1, <1>2, Zenon DEF ServerInv, LoopInv
  <2>4. \A m \in Loop \ (0 .. numThreads) : place'[m] = "off" /\ pending'[m] = <<>>
    BY <1>1, <2>1, <2>3, Zenon DEF ServerInv, LoopInv
  <2>5. \A m \in Loop : place'[m] # "functors" => batch'[m] = [functors |-> <<>>, run |-> 0]
    BY <1>1, <2>1, Zenon DEF ServerInv, LoopInv
  <2>6. \A m \in Loop \ {base} : place'[m] = "ended" => m \in quit' /\ pending'[m] = <<>>
    BY <1>1, <2>1, <2>3, Zenon DEF ServerInv, LoopInv
  <2>7. \A m \in quit' \ {base} : place'[base] = "ended" /\ connections' = {}
    BY <1>1, <2>2, Zenon DEF ServerInv, LoopInv
  <2> QED
    BY <1>1, <1>6, <2>4, <2>5, <2>6, <2>7, Zenon DEF ServerInv, LoopInv
<1>9. ASSUME NEW d \in Conn, d # c PROVE TodoInv(d)' /\ ConnInv(d)' /\ OpenInv(d)'
  <2>1. /\ state'[d] = state[d] /\ loopOf'[d] = loopOf[d] /\ (d \in channel' <=> d \in channel)
        /\ Listed(d)' <=> Listed(d)
    BY <1>1, <1>3, <1>9, Zenon DEF ServerInv, ConnTypes
  <2>2. Untouched(d)
    BY <1>1, <1>9, <2>1, RanForOther, FunctorNames, Zenon
  <2>3. OpenInv(d)' /\ (Open(d)' => Open(d))
    BY <1>1, <1>6, <2>2, OpenSame, Zenon
  <2> QED
    BY <1>1, <1>6, <2>2, <2>3, OthersKept, Zenon
<1> QED
  BY <1>4, <1>5, <1>7, <1>8, <1>9, Zenon DEF ServerInv

LEMMA RunFunctorKeeps == ASSUME DistinctNames, ServerInv, NEW l \in Loop, RunFunctor(l) PROVE ServerInv'
<1> DEFINE b == batch[l]
<1>1. batch \in [Loop -> Batch] /\ b \in Batch /\ pending \in [Loop -> Seq(Functor)] /\ b.run < Len(b.functors)
  BY Zenon DEF ServerInv, LoopTypes, RunFunctor
<1>2. b.functors[b.run + 1] \in Functor /\ Pending(l, b.functors[b.run + 1])
  BY <1>1, RunFirst, Zenon DEF Pending
<1> PICK e \in Functor : e = b.functors[b.run + 1]
  BY <1>2, Zenon
<1>3. PICK c \in Conn : e[2] = c /\ e \in {Establish(c), Destroy(c), Remove(c)}
  BY DEF Functor, Establish, Destroy, Remove
<1>4. /\ e[1] = "connectEstablished" <=> e = Establish(c)
      /\ e[1] = "connectDestroyed" <=> e = Destroy(c)
      /\ e[1] = "removeConnectionInLoop" <=> e = Remove(c)
  BY <1>3 DEF Establish, Destroy, Remove
<1>5. RunsFor(l, e, c) /\ batch' = [batch EXCEPT ![l].run = @ + 1]
  BY <1>3, Zenon DEF RunFunctor, RunsFor, acceptVars
<1>6. TodoInv(c) /\ base \in Loop /\ Destroy(c) \in Functor /\ Destroy(c)[2] = c /\ loopOf[c] \in Loop
      /\ loopOf[c] \in 0 .. numThreads /\ base \in 0 .. numThreads /\ -1 \notin Loop
  BY FunctorNames, Constants DEF ServerInv, LoopTypes, ConnTypes, Loop
<1>7. e = Remove(c) => l = base /\ loopOf[c] # base /\ Listed(c)
  BY <1>2, <1>5, <1>6, Zenon DEF TodoInv, RunsFor
<1>8. PICK k : /\ k = IF e = Remove(c) THEN loopOf[c] ELSE -1
               /\ k # l
               /\ pending' = [m \in Loop |-> IF m = k THEN Append(pending[m], Destroy(c)) ELSE pending[m]]
  <2>1. CASE e = Remove(c)
    <3>1. pending' = [pending EXCEPT ![loopOf[c]] = Append(@, Destroy(c))]
      BY <1>3, <1>4, <2>1, Zenon DEF RunFunctor, RemoveConnectionInLoop, Destroy
    <3> HIDE DEF b
    <3> QED
      BY <1>1, <1>6, <1>7, <2>1, <3>1, Zenon
  <2>2. CASE e # Remove(c)
    <3>1. pending' = pending
      BY <1>3, <1>4, <2>2, Zenon DEF RunFunctor
    <3> HIDE DEF b
    <3> QED
      BY <1>1, <1>6, <2>2, <3>1
  <2> QED
    BY <2>1, <2>2, Zenon
<1>9. Ran(l, e, k, Destroy(c))
  BY <1>1, <1>5, <1>6, <1>8, RanFunctor, Zenon DEF ServerInv
<1>10. CASE e = Establish(c)
  <2>1. k \notin Loop /\ UNCHANGED connections
    BY <1>3, <1>4, <1>6, <1>8, <1>10, FunctorNames, Zenon DEF RunFunctor
  <2>2. state[c] = "kConnecting" =>
          state' = [state EXCEPT ![c] = "kConnected"] /\ channel' = channel \cup {c} /\ UNCHANGED failed
    BY <1>3, <1>4, <1>10, FunctorNames, Zenon DEF RunFunctor
  <2>3. state[c] = "kConnecting" /\ TodoInv(c)' /\ ConnInv(c)' /\ OpenInv(c)'
    BY <1>5, <1>9, <1>10, <2>1, <2>2, RanEstablish, Zenon
  <2> QED
    BY <1>3, <1>5, <1>6, <1>9, <2>1, <2>2, <2>3, RanKeeps, Zenon
<1>11. CASE e = Destroy(c)
  <2>1. k \notin Loop /\ UNCHANGED <<connections, failed>>
    BY <1>3, <1>4, <1>6, <1>8, <1>11, FunctorNames, Zenon DEF RunFunctor
  <2>2. state' = [state EXCEPT ![c] = "kDisconnected"] /\ channel' = channel \ {c}
    BY <1>3, <1>4, <1>11, FunctorNames, Zenon DEF RunFunctor
  <2>3. TodoInv(c)' /\ ConnInv(c)' /\ OpenInv(c)'
    BY <1>5, <1>9, <1>11, <2>1, <2>2, RanDestroy, Zenon
  <2> QED
    BY <1>3, <1>5, <1>6, <1>9, <2>1, <2>2, <2>3, RanKeeps, Zenon
<1>12. CASE e = Remove(c)
  <2>1. /\ k = loopOf[c] /\ k \in Loop /\ l = base
        /\ connections' = {x \in connections : x[1] # ConnName(c)}
        /\ UNCHANGED <<state, channel>>
    BY <1>3, <1>4, <1>6, <1>7, <1>8, <1>12, Zenon DEF RunFunctor, RemoveConnectionInLoop
  <2>2. failed' = failed
    <3>1. \E x \in connections : x[1] = ConnName(c)
      BY <1>7, <1>12, Zenon DEF Listed
    <3> QED
      BY <1>3, <1>4, <1>12, <3>1, Zenon DEF RunFunctor, RemoveConnectionInLoop
  <2>3. TodoInv(c)' /\ ConnInv(c)' /\ OpenInv(c)'
    BY <1>2, <1>5, <1>9, <1>12, <2>1, RanRemove, Zenon
  <2> QED
    BY <1>3, <1>5, <1>6, <1>8, <1>9, <2>1, <2>2, <2>3, RanKeeps, Zenon
<1> QED
  BY <1>3, <1>10, <1>11, <1>12, Zenon
-----------------------------------------------------------------------------
(* The steps that open a descriptor *)

INSTANCE WellFoundedInduction

\* open() and accept() give the lowest free descriptor.
LEMMA LowestIsFree ==
  ASSUME FdInv, Free(owner) # {}
  PROVE  Lowest(Free(owner)) \in Fd /\ owner[Lowest(Free(owner))] = Nothing
<1> DEFINE R == OpToRel(<, Nat)
<1>1. Free(owner) \subseteq Nat /\ Free(owner) \subseteq Fd
  BY Constants DEF Free, Fd
<1>2. PICK m \in Free(owner) : \A n \in Free(owner) : <<n, m>> \notin R
  BY <1>1, NatLessThanWellFounded, WFMin, Zenon
<1>3. ASSUME NEW n \in Free(owner) PROVE m <= n
  <2>1. n \in Nat /\ m \in Nat /\ ~(n < m)
    BY <1>1, <1>2, Zenon DEF OpToRel
  <2> QED
    BY <2>1
<1>4. Lowest(Free(owner)) \in Free(owner)
  BY <1>3, Zenon DEF Lowest
<1> QED
  BY <1>4, Zenon DEF Free

LEMMA OpenOtherKeeps == ASSUME ServerInv, OpenOther PROVE ServerInv'
<1> USE DEF OpenOther, acceptVars, loopVars
<1> DEFINE fd == Lowest(Free(owner))
<1>1. LoopTypes' /\ ConnTypes' /\ LoopInv'
  <2>1. UNCHANGED <<numThreads, connections, connVars, nextLoop, nextConnId, place, pending, batch, quit>>
    BY Zenon
  <2>2. UNCHANGED <<arrived, served>> /\ (phase' = phase \/ phase' = "aborted")
    BY Zenon
  <2> QED
    BY <2>1, <2>2, CountsKept, LoopsKept, Zenon
<1>2. fd \in Fd /\ owner[fd] = Nothing
  BY LowestIsFree, Zenon DEF ServerInv
<1>3. owner' = [owner EXCEPT ![fd] = For("other")]
  BY Zenon
<1> HIDE DEF fd
<1>4. FdInv'
  BY <1>2, <1>3, OwnersDiffer, Zenon DEF ServerInv, FdInv
<1>5. \A f \in Fd, c \in Conn : owner'[f] = ForConn(c) <=> owner[f] = ForConn(c)
  BY <1>2, <1>3, OwnersDiffer, Zenon DEF ServerInv, FdInv
<1> QED
  BY <1>1, <1>4, <1>5, ConnsKept, Zenon DEF ServerInv, EndedStay

LEMMA RefuseKeeps == ASSUME ServerInv, Refuse PROVE ServerInv'
<1> USE DEF Refuse, acceptVars, loopVars
<1> DEFINE fd == Lowest(Free(owner))
<1>1. accepting = "refuse" /\ served \in Nat /\ arrived \in Nat /\ served < arrived
  BY Zenon DEF ServerInv, FdInv, ConnTypes
<1>2. served' \in Nat /\ served <= served' /\ served' <= arrived' /\ arrived' = arrived
  BY <1>1
<1>3. LoopTypes' /\ ConnTypes' /\ LoopInv'
  BY <1>2, LoopsKept, Zenon DEF ServerInv, ConnTypes
<1>4. place[base] = "poll" /\ phase \notin {"destroyed", "over"}
  BY BaseRuns, Zenon
<1>5. CASE Free(owner) # {} /\ idleFd' = fd /\ owner' = [owner EXCEPT ![fd] = For("refused")]
  <2>1. fd \in Fd /\ owner[fd] = Nothing
    BY <1>5, LowestIsFree, Zenon DEF ServerInv
  <2> HIDE DEF fd
  <2>2. FdInv'
    BY <1>4, <1>5, <2>1, OwnersDiffer, Zenon DEF ServerInv, FdInv
  <2>3. \A f \in Fd, c \in Conn : owner'[f] = ForConn(c) <=> owner[f] = ForConn(c)
    BY <1>5, <2>1, OwnersDiffer, Zenon DEF ServerInv, FdInv
  <2> QED
    BY <1>3, <2>2, <2>3, ConnsKept, Zenon DEF ServerInv, EndedStay
<1>6. CASE idleFd' = -1 /\ UNCHANGED owner
  <2>1. FdInv'
    BY <1>4, <1>6, Zenon DEF ServerInv, FdInv
  <2> QED
    BY <1>3, <1>6, <2>1, ConnsKept, Zenon DEF ServerInv, EndedStay
<1> QED
  BY <1>5, <1>6, Zenon

LEMMA ReopenKeeps == ASSUME ServerInv, Reopen PROVE ServerInv'
<1> USE DEF Reopen, acceptVars, loopVars
<1> DEFINE fd == Lowest(Free(owner))
<1>1. LoopTypes' /\ ConnTypes' /\ LoopInv'
  <2>1. UNCHANGED <<numThreads, connections, connVars, nextLoop, nextConnId, place, pending, batch, quit>>
    BY Zenon
  <2>2. UNCHANGED <<arrived, served>> /\ (phase' = phase \/ phase' = "aborted")
    BY Zenon
  <2> QED
    BY <2>1, <2>2, CountsKept, LoopsKept, Zenon
<1>2. place[base] = "poll" /\ phase \notin {"destroyed", "over"}
  BY BaseRuns, Zenon
<1>3. CASE Free(owner) # {}
  <2>1. fd \in Fd /\ owner[fd] = Nothing
    BY <1>3, LowestIsFree, Zenon DEF ServerInv
  <2>2. idleFd' = fd /\ owner' = [owner EXCEPT ![fd] = For("idle")]
    BY <1>3, Zenon
  <2> HIDE DEF fd
  <2>3. FdInv'
    BY <1>2, <2>1, <2>2, OwnersDiffer, Zenon DEF ServerInv, FdInv
  <2>4. \A f \in Fd, c \in Conn : owner'[f] = ForConn(c) <=> owner[f] = ForConn(c)
    BY <2>1, <2>2, OwnersDiffer, Zenon DEF ServerInv, FdInv
  <2> QED
    BY <1>1, <2>3, <2>4, ConnsKept, Zenon DEF ServerInv, EndedStay
<1>4. CASE Free(owner) = {}
  <2>1. FdInv'
    BY <1>2, <1>4, Zenon DEF ServerInv, FdInv
  <2> QED
    BY <1>1, <1>4, <2>1, ConnsKept, Zenon DEF ServerInv, EndedStay
<1> QED
  BY <1>3, <1>4, Zenon

\* newConnection() makes a connection that is in connections_ and has a descriptor.
LEMMA AcceptKeeps == ASSUME DistinctNames, ServerInv, Accept PROVE ServerInv'
<1>1. /\ place[base] = "poll" /\ accepting = "idle" /\ arrived > served /\ Free(owner) # {}
      /\ served' = served + 1
      /\ UNCHANGED <<numThreads, phase, arrived, accepting, idleFd, place, batch, quit, failed>>
  BY Zenon DEF Accept, Readable
<1>a. nextConnId \in Conn
  BY <1>1, Constants DEF ServerInv, ConnTypes, Conn
<1>b. GetNextLoop \in 0 .. numThreads /\ (numThreads > 0 => NextAfter < numThreads) /\ NextAfter \in Nat
  <2>1. numThreads \in Nat /\ nextLoop \in Nat /\ (numThreads > 0 => nextLoop < numThreads) /\ base = 0
    BY Constants, Zenon DEF ServerInv, ConnTypes, LoopTypes
  <2> QED
    BY <2>1 DEF GetNextLoop, NextAfter
<1>c. Lowest(Free(owner)) \in Fd /\ owner[Lowest(Free(owner))] = Nothing
  BY <1>1, LowestIsFree, Zenon DEF ServerInv
<1> PICK c \in Conn : c = nextConnId
  BY <1>a, Zenon
<1> PICK l \in 0 .. numThreads : l = GetNextLoop
  BY <1>b, Zenon
<1> PICK fd \in Fd : fd = Lowest(Free(owner))
  BY <1>c, Zenon
<1> DEFINE f == Establish(c)
<1>2. /\ owner' = [owner EXCEPT ![fd] = ForConn(c)]
      /\ nextLoop' = NextAfter /\ nextConnId' = nextConnId + 1
      /\ connections' = {e \in connections : e[1] # ConnName(c)} \cup {<<ConnName(c), c>>}
      /\ loopOf' = [loopOf EXCEPT ![c] = l]
      /\ state' = [state EXCEPT ![c] = IF l = base THEN "kConnected" ELSE "kConnecting"]
      /\ channel' = IF l = base THEN channel \cup {c} ELSE channel
      /\ pending' = IF l = base THEN pending ELSE [pending EXCEPT ![l] = Append(@, f)]
  BY Zenon DEF Accept, NewConnection, Establish
<1>3. fd \in Fd /\ owner[fd] = Nothing
  BY <1>c, Zenon
<1>4. c \in Conn /\ c \in Nat /\ ~(c >= nextConnId') /\ \A d \in Conn : d # c => (d >= nextConnId' <=> d >= nextConnId)
  BY <1>2, <1>a DEF Conn
<1>5. numThreads \in Nat /\ l \in Loop /\ base \in Loop /\ base \in 0 .. numThreads
  BY Constants DEF ServerInv, LoopTypes
<1>6. state[c] = None /\ Alone(c) /\ ~Open(c) /\ c \notin channel /\ TodoInv(c)
  <2>1. c >= nextConnId
    BY <1>4
  <2> QED
    BY <1>4, <2>1, Zenon DEF ServerInv, ConnInv
<1>7. \A d \in Conn : Listed(d)' <=> Listed(d) \/ d = c
  BY <1>2, <1>4, Zenon DEF Listed, DistinctNames
<1>8. f \in Functor /\ f[2] = c
  BY <1>4, FunctorNames, Zenon
<1> HIDE DEF f
<1>9. pending' = pending \/ pending' = [pending EXCEPT ![l] = Append(@, f)]
  BY <1>2, Zenon
<1>10. pending' \in [Loop -> Seq(Functor)]
  BY <1>1, <1>5, <1>8, <1>9, PendingAppended, Zenon DEF ServerInv, LoopTypes, Enqueued
<1>11. LoopTypes'
  BY <1>1, <1>10, Zenon DEF ServerInv, LoopTypes
<1>12. ConnTypes'
  <2>1. /\ nextConnId' \in Nat \ {0} /\ nextConnId' <= served' + 1 /\ served' <= arrived' /\ arrived' <= MaxPeers
        /\ served' \in Nat /\ arrived' \in Nat
    BY <1>1, <1>2, Constants DEF ServerInv, ConnTypes
  <2>2. connections' \subseteq {<<ConnName(d), d>> : d \in Conn}
    BY <1>2, <1>4, Zenon DEF ServerInv, ConnTypes
  <2>3. /\ state' \in [Conn -> {None, "kConnecting", "kConnected", "kDisconnected"}]
        /\ channel' \subseteq Conn /\ loopOf' \in [Conn -> 0 .. numThreads]
    BY <1>2, <1>4, <1>5, Zenon DEF ServerInv, ConnTypes
  <2> QED
    BY <1>1, <1>2, <1>b, <2>1, <2>2, <2>3, Zenon DEF ConnTypes
<1>13. phase' = phase /\ phase \notin {"new", "destroyed", "over"} /\ EndedStay
  BY <1>1, <1>5, BaseRuns, Zenon DEF ServerInv, LoopInv, EndedStay
<1>14. FdInv'
  BY <1>1, <1>2, <1>3, <1>4, <1>13, OwnersDiffer, Zenon DEF ServerInv, FdInv
<1>15. LoopInv'
  <2>1. quit \subseteq {base} /\ \A m \in Loop \ {base} : place[m] # "ended"
    BY <1>1, Zenon DEF ServerInv, LoopInv
  <2>2. pending \in [Loop -> Seq(Functor)] /\ \A m \in Loop \ {l} : pending'[m] = pending[m]
    BY <1>9, Zenon DEF ServerInv, LoopTypes
  <2> QED
    BY <1>1, <1>5, <1>13, <2>1, <2>2, Zenon DEF ServerInv, LoopInv
<1>16. ASSUME NEW d \in Conn, d # c PROVE TodoInv(d)' /\ ConnInv(d)' /\ OpenInv(d)'
  <2>1. /\ state'[d] = state[d] /\ loopOf'[d] = loopOf[d] /\ (d \in channel' <=> d \in channel)
        /\ Listed(d)' <=> Listed(d)
    BY <1>2, <1>7, <1>16, Zenon DEF ServerInv, ConnTypes
  <2>2. Untouched(d)
    BY <1>1, <1>4, <1>5, <1>8, <1>9, <1>16, <2>1, QueuedForOther, Zenon DEF ServerInv
  <2>3. \A g \in Fd : owner'[g] = ForConn(d) <=> owner[g] = ForConn(d)
    BY <1>2, <1>3, <1>4, <1>16, OwnersDiffer, Zenon DEF ServerInv, FdInv
  <2>4. OpenInv(d)' /\ (Open(d)' => Open(d))
    BY <1>13, <2>2, <2>3, OpenSame, Zenon
  <2> QED
    BY <1>4, <1>13, <1>16, <2>2, <2>4, OthersKept, Zenon
<1>17. TodoInv(c)'
  <2>1. \A m \in Loop : ~Pending(m, Establish(c)) /\ ~Pending(m, Destroy(c)) /\ ~Pending(m, Remove(c))
    BY <1>4, <1>6, NothingPending, Zenon DEF ServerInv
  <2>2. CASE l = base
    <3>1. \A m, g, h : /\ Pending(m, g)' <=> Pending(m, g)
                       /\ PendingOnce(m, g)' <=> PendingOnce(m, g)
                       /\ PendingBefore(m, g, h)' <=> PendingBefore(m, g, h)
      BY <1>1, <1>2, <2>2, Zenon DEF Pending, PendingOnce, PendingBefore
    <3> QED
      BY <1>6, <2>1, <3>1, Zenon DEF TodoInv
  <2>3. CASE l # base
    <3>1. pending' = [pending EXCEPT ![l] = Append(@, f)]
      BY <1>2, <2>3, Zenon
    <3>2. \A g, h \in {Establish(c), Destroy(c), Remove(c)}, m \in Loop :
            /\ Pending(m, g)' <=> Pending(m, g) \/ (m = l /\ g = f)
            /\ PendingOnce(m, g) => PendingOnce(m, g)'
            /\ PendingBefore(m, g, h) /\ g # h => PendingBefore(m, g, h)'
      <4>1. Enqueued(l, f)
        BY <1>1, <1>5, <1>8, <3>1, PendingAppended, Zenon DEF ServerInv
      <4>2. Establish(c) \in Functor /\ Destroy(c) \in Functor /\ Remove(c) \in Functor
        BY <1>4, FunctorNames, Zenon
      <4> QED
        BY <2>1, <4>1, <4>2 DEF Enqueued
    <3>3. state'[c] = "kConnecting" /\ loopOf'[c] = l
      BY <1>2, <1>4, <2>3, Zenon DEF ServerInv, ConnTypes
    <3> QED
      BY <1>4, <1>6, <2>1, <2>3, <3>2, <3>3, FunctorNames, Zenon DEF TodoInv, f
  <2> QED
    BY <2>2, <2>3, Zenon
<1>18. ConnInv(c)'
  <2>1. Listed(c)' /\ state'[c] \in {"kConnecting", "kConnected"} /\ ~(c >= nextConnId')
    BY <1>2, <1>4, <1>7, Zenon DEF ServerInv, ConnTypes
  <2> QED
    BY <2>1, Constants, Zenon DEF ConnInv
<1>19. OpenInv(c)'
  <2>1. \A g \in Fd : owner'[g] = ForConn(c) <=> g = fd
    BY <1>2, <1>3, <1>6, Zenon DEF ServerInv, FdInv, Open
  <2> QED
    BY <1>3, <1>13, <2>1, Zenon DEF OpenInv, Open
<1> QED
  BY <1>1, <1>11, <1>12, <1>14, <1>15, <1>16, <1>17, <1>18, <1>19, Zenon DEF ServerInv
-----------------------------------------------------------------------------
(* The theorems *)

\* Every step keeps the invariant.
LEMMA ServerNext == ASSUME DistinctNames, ServerInv, [Next]_vars PROVE ServerInv'
<1>1. ASSUME NEW l \in Loop, LoopStep(l) PROVE ServerInv'
  BY <1>1, TakeFunctorsKeeps, RunFunctorKeeps, EndBatchKeeps, Zenon DEF LoopStep
<1>2. ASSUME HandleRead PROVE ServerInv'
  BY <1>2, AcceptKeeps, AcceptFullKeeps, RefuseKeeps, ReopenKeeps, Zenon DEF HandleRead
<1>3. ASSUME UNCHANGED vars PROVE ServerInv'
  <2>1. UNCHANGED <<numThreads, phase, arrived, served, accepting, idleFd, nextLoop, nextConnId, owner,
                    connections, state, channel, loopOf, place, pending, batch, quit, failed>>
    BY <1>3, Zenon DEF vars, acceptVars, connVars, loopVars
  <2>2. LoopTypes' /\ ConnTypes' /\ FdInv' /\ LoopInv' /\ failed' = None
    BY <2>1 DEF ServerInv, LoopTypes, ConnTypes, FdInv, LoopInv
  <2>3. ASSUME NEW c \in Conn PROVE TodoInv(c)' /\ ConnInv(c)' /\ OpenInv(c)'
    <3>1. TodoInv(c)'
      BY <2>1, Zenon DEF ServerInv, TodoInv, Pending, PendingOnce, PendingBefore, Listed
    <3>2. ConnInv(c)'
      BY <2>1, Zenon DEF ServerInv, ConnInv, Pending, Listed, Alone, Open
    <3>3. OpenInv(c)'
      BY <2>1, Zenon DEF ServerInv, OpenInv, Listed, Alone, Open
    <3> QED
      BY <3>1, <3>2, <3>3, Zenon
  <2> QED
    BY <2>2, <2>3, Zenon DEF ServerInv
<1>4. ASSUME NEW e \in connections, DestroyConnection(e) PROVE ServerInv'
  BY <1>4, DestroyConnectionKeeps, Zenon
<1>5. ASSUME NEW fd \in Fd, CloseOther(fd) PROVE ServerInv'
  BY <1>5, CloseOtherKeeps, Zenon
<1>6. ASSUME NEW c \in Conn, HandleClose(c) PROVE ServerInv'
  BY <1>6, HandleCloseKeeps, Zenon
<1>7. ASSUME NEW l \in Loop, QuitThread(l) PROVE ServerInv'
  BY <1>7, QuitKeeps, Zenon
<1>8. ASSUME Start \/ Arrive \/ OpenOther \/ AcceptFails \/ AcceptAborts \/ Quit \/ DestroyAcceptor \/ DestroyBase
      PROVE  ServerInv'
  BY <1>8, StartKeeps, ArriveKeeps, OpenOtherKeeps, AcceptFailsKeeps, QuitKeeps, DestroyAcceptorKeeps, DestroyBaseKeeps, Zenon
<1> QED
  BY <1>1, <1>2, <1>3, <1>4, <1>5, <1>6, <1>7, <1>8, Zenon DEF Next

\* The invariant holds always, if the names of the connections differ.
LEMMA ServerCorrect == NumbersFit => (Spec => []ServerInv)
<1>1. Init => ServerInv
  BY ServerInit, Zenon
<1>2. NumbersFit /\ ServerInv /\ [Next]_vars => ServerInv'
  BY ServerNext, NamesDiffer, Zenon
<1>3. CASE NumbersFit
  <2>1. ServerInv /\ [Next]_vars => ServerInv'
    BY <1>2, <1>3, Zenon
  <2> QED
    BY <1>1, <2>1, PTL DEF Spec
<1> QED
  BY <1>3, Zenon

\* The invariant says what DescriptorsOwned does.
LEMMA OwnedInv == ServerInv => DescriptorsOwned
<1> SUFFICES ASSUME ServerInv PROVE DescriptorsOwned
  BY Zenon
<1>1. ASSUME NEW c \in Conn, c \in Referred(connections, pending, batch)
      PROVE  \E f \in Fd : {g \in Fd : owner[g] = ForConn(c)} = {f}
  <2>1. ~Alone(c)
    <3>1. /\ connections \in SUBSET {<<ConnName(d), d>> : d \in Conn}
          /\ pending \in [Loop -> Seq(Functor)] /\ batch \in [Loop -> Batch]
      BY Zenon DEF ServerInv, ConnTypes, LoopTypes
    <3>2. ~Unheld(c, connections, pending, batch)
      BY <1>1, <3>1, ReferredHeld, Zenon
    <3> QED
      BY <3>2, Zenon DEF Alone, Unheld, Listed
  <2>2. PICK g \in Fd : owner[g] = ForConn(c)
    BY <2>1, Zenon DEF ServerInv, OpenInv, Open
  <2>3. {h \in Fd : owner[h] = ForConn(c)} = {g}
    BY <2>2, Zenon DEF ServerInv, OpenInv
  <2> QED
    BY <2>3, Zenon
<1>2. \A c \in channel : (\E f \in Fd : owner[f] = ForConn(c)) \/ place[loopOf[c]] = "ended"
  BY Zenon DEF ServerInv, ConnTypes, OpenInv, Open
<1>3. phase = "over" => \A f \in Fd : owner[f] \in {Nothing, For("other")}
  <2> SUFFICES ASSUME phase = "over", NEW f \in Fd PROVE owner[f] \in {Nothing, For("other")}
    BY Zenon
  <2>1. owner[f] \in Owner /\ owner[f] \notin {For("idle"), For("refused")}
    BY Zenon DEF ServerInv, FdInv
  <2>2. \A c \in Conn : owner[f] # ForConn(c)
    BY Zenon DEF ServerInv, OpenInv, Open
  <2> QED
    BY <2>1, <2>2, Zenon DEF Owner
<1>4. /\ accepting = "idle" /\ phase \notin {"destroyed", "over"} => idleFd = -1 \/ owner[idleFd] = For("idle")
      /\ \A f \in Fd : owner[f] \in {For("idle"), For("refused")} => f = idleFd
  BY Zenon DEF ServerInv, FdInv
<1>5. Referred(connections, pending, batch) \subseteq Conn
  BY Zenon DEF Referred
<1> QED
  BY <1>1, <1>2, <1>3, <1>4, <1>5, Zenon DEF DescriptorsOwned

\* Acceptor::handleRead(), TcpServer::newConnection() and the destructors: for
\* any number of threads, peers and descriptors, each descriptor is closed by
\* whoever opened it, each connection that is referred to has one, no Channel
\* outlives its descriptor in a loop that runs, and none is left open at the end.
THEOREM DescriptorsStayOwned == NumbersFit => (Spec => []DescriptorsOwned)
<1>1. CASE NumbersFit
  <2>1. Spec => []ServerInv
    BY <1>1, ServerCorrect, Zenon
  <2> QED
    BY <2>1, OwnedInv, PTL
<1> QED
  BY <1>1, Zenon

\* TcpServer::removeConnectionInLoop() and TcpConnection::connectEstablished():
\* their asserts hold in every order in which the peers, the loops of the pool
\* and the destructor of the server come, as long as the names differ.
THEOREM ServerAssertsHold == NumbersFit => (Spec => []NoAssertFails)
<1>1. CASE NumbersFit
  <2>1. Spec => []ServerInv
    BY <1>1, ServerCorrect, Zenon
  <2>2. ServerInv => NoAssertFails
    BY Zenon DEF ServerInv, NoAssertFails
  <2> QED
    BY <2>1, <2>2, PTL
<1> QED
  BY <1>1, Zenon
================================================================================
