--------------------------- MODULE TcpClientProofs --------------------------
(***************************************************************************)
(* Proofs about a TcpClient with its Connector, for any delays of the      *)
(* back-off and any number of calls of stop() and disconnect(), wherever   *)
(* they fall: its asserts, and its sockets and attempts.                   *)
(***************************************************************************)
EXTENDS Integers, TcpClient, SequenceTheorems, TLAPS

\* The use of a client for which its asserts hold: one connect(), and no call
\* of connect() or stop() out of the handler of a channel.
ConnectOnce ==
  /\ TcpClientAssumption
  /\ MaxConnects <= 1 /\ "handler" \notin CallFrom

Called == {"startInLoop", "stopInLoop", "resetChannel"}

ClientType ==
  [wanted : BOOLEAN, connection : BOOLEAN, step : {"none", "restart", "start"}, connect : BOOLEAN,
   state : {"kDisconnected", "kConnecting", "kConnected"},
   channel : {"null", "armed", "removed"},
   active : BOOLEAN, due : BOOLEAN, closing : BOOLEAN, delay : Nat, timers : Nat,
   fresh : BOOLEAN, sockets : Int, pending : Seq(Called), gaveUp : BOOLEAN, failed : {None}]

\* A functor is in a queue, and in it at most once.
Has(q, x) == \E i \in 1..Len(q) : q[i] = x
Once(q, x) == \A i, j \in 1..Len(q) : q[i] = x /\ q[j] = x => i = j

LEMMA HasAppend ==
  ASSUME NEW q \in Seq(Called), NEW x \in Called, NEW y \in Called
  PROVE  /\ Append(q, y) \in Seq(Called)
         /\ Has(Append(q, y), x) <=> Has(q, x) \/ x = y
         /\ Once(q, x) /\ (x = y => ~Has(q, x)) => Once(Append(q, y), x)
<1>1. /\ Append(q, y) \in Seq(Called) /\ Len(q) \in Nat /\ Len(Append(q, y)) = Len(q) + 1
      /\ \A i \in 1..Len(q) : Append(q, y)[i] = q[i]
      /\ Append(q, y)[Len(q) + 1] = y
  BY AppendProperties, LenProperties
<1> DEFINE a == Append(q, y)
<1> HIDE DEF a
<1>2. \A i \in 1..Len(a) : (i = Len(q) + 1 /\ a[i] = y) \/ (i \in 1..Len(q) /\ a[i] = q[i])
  BY <1>1 DEF a
<1> QED
  BY <1>1, <1>2 DEF a, Has, Once

LEMMA HasTail ==
  ASSUME NEW q \in Seq(Called), q # <<>>, NEW x \in Called
  PROVE  /\ Tail(q) \in Seq(Called) /\ Head(q) \in Called /\ Has(q, Head(q))
         /\ Has(Tail(q), x) => Has(q, x)
         /\ Has(q, x) => Head(q) = x \/ Has(Tail(q), x)
         /\ Once(q, x) => Once(Tail(q), x) /\ (Head(q) = x => ~Has(Tail(q), x))
<1> DEFINE t == Tail(q)
<1>1. /\ t \in Seq(Called) /\ Head(q) \in Called /\ Head(q) = q[1]
      /\ Len(q) \in Nat \ {0} /\ Len(t) = Len(q) - 1
      /\ \A i \in 1..Len(t) : t[i] = q[i + 1]
  BY HeadTailProperties, EmptySeq
<1> HIDE DEF t
<1>2. \A i \in 1..Len(t) : i + 1 \in 1..Len(q) /\ i + 1 # 1 /\ q[i + 1] = t[i]
  BY <1>1
<1>3. 1 \in 1..Len(q)
  BY <1>1
<1>4. ASSUME NEW i \in 1..Len(q), i # 1
      PROVE  i - 1 \in 1..Len(t) /\ t[i - 1] = q[i]
  <2>1. i - 1 \in 1..Len(t) /\ (i - 1) + 1 = i
    BY <1>1, <1>4
  <2> QED
    BY <1>1, <2>1, Zenon
<1>5. Has(q, Head(q))
  BY <1>1, <1>3, Zenon DEF Has
<1>6. Has(t, x) => Has(q, x)
  BY <1>2, Zenon DEF Has
<1>7. Has(q, x) => Head(q) = x \/ Has(t, x)
  BY <1>1, <1>4, Zenon DEF Has
<1>8. ASSUME Once(q, x) PROVE Once(t, x)
  <2> SUFFICES ASSUME NEW i \in 1..Len(t), NEW j \in 1..Len(t), t[i] = x, t[j] = x
               PROVE  i = j
    BY Zenon DEF Once
  <2>1. i + 1 = j + 1
    BY <1>2, <1>8, Zenon DEF Once
  <2> QED
    BY <1>1, <2>1
<1>9. Once(q, x) /\ Head(q) = x => ~Has(t, x)
  BY <1>1, <1>2, <1>3, Zenon DEF Once, Has
<1> QED
  BY <1>1, <1>5, <1>6, <1>7, <1>8, <1>9, Zenon DEF t

\* p is the client o with another state of its connector.
Becomes(p, o, state, channel, timers, sockets, pending, connection) ==
  /\ p \in ClientType
  /\ p.wanted = o.wanted /\ p.connect = o.connect /\ p.step = o.step
  /\ p.active = o.active /\ p.due = o.due /\ p.closing = o.closing
  /\ p.state = state /\ p.channel = channel /\ p.timers = timers /\ p.sockets = sockets
  /\ p.pending = pending /\ p.connection = connection

LEMMA DelayType ==
  ASSUME ConnectOnce, NEW d \in Nat
  PROVE  Smaller(2 * d, kMaxRetryDelayMs) \in Nat /\ kInitRetryDelayMs \in Nat
BY DEF ConnectOnce, TcpClientAssumption, Smaller

LEMMA RetryResult ==
  ASSUME ConnectOnce, NEW o \in ClientType
  PROVE  /\ Becomes(retry(o), o, "kDisconnected", o.channel,
                    IF o.connect THEN o.timers + 1 ELSE o.timers, o.sockets - 1, o.pending,
                    o.connection)
         /\ retry(o).gaveUp = o.gaveUp /\ (o.connect => retry(o).fresh)
<1> DEFINE d == Smaller(2 * o.delay, kMaxRetryDelayMs)
           s == o.sockets - 1
           t == o.timers + 1
<1>1. d \in Nat /\ s \in Int /\ t \in Nat
  BY DelayType DEF ClientType
<1>2. CASE o.connect
  <2> DEFINE p == [o EXCEPT !.sockets = s, !.state = "kDisconnected", !.timers = t,
                            !.fresh = TRUE, !.delay = d]
  <2>1. retry(o) = p
    BY <1>2, Zenon DEF retry
  <2> HIDE DEF d, s, t
  <2>2. Becomes(p, o, "kDisconnected", o.channel, t, s, o.pending, o.connection)
        /\ p.gaveUp = o.gaveUp /\ p.fresh
    BY <1>1, Zenon DEF Becomes, ClientType
  <2> HIDE DEF p
  <2> QED
    BY <1>2, <2>1, <2>2, Zenon DEF s, t
<1>3. CASE ~o.connect
  <2> DEFINE p == [o EXCEPT !.sockets = s, !.state = "kDisconnected"]
  <2>1. retry(o) = p
    BY <1>3, Zenon DEF retry
  <2> HIDE DEF s
  <2>2. Becomes(p, o, "kDisconnected", o.channel, o.timers, s, o.pending, o.connection)
        /\ p.gaveUp = o.gaveUp
    BY <1>1, Zenon DEF Becomes, ClientType
  <2> HIDE DEF p
  <2> QED
    BY <1>3, <2>1, <2>2, Zenon DEF s
<1> QED
  BY <1>2, <1>3, Zenon

\* startInLoop() of a connector that is at rest.
LEMMA StartResults ==
  ASSUME ConnectOnce, NEW o \in ClientType, o.state = "kDisconnected", o.channel = "null",
         o.timers = 0, o.sockets = 0, NEW p \in startInLoop(o)
  PROVE  \/ ~o.connect /\ p = o
         \/ o.connect /\ p.gaveUp = o.gaveUp
            /\ Becomes(p, o, "kConnecting", "armed", 0, 1, o.pending, o.connection)
         \/ o.connect /\ p.gaveUp = o.gaveUp
            /\ Becomes(p, o, "kDisconnected", "null", 1, 0, o.pending, o.connection)
         \/ o.connect /\ p.gaveUp
            /\ Becomes(p, o, "kDisconnected", "null", 0, 0, o.pending, o.connection)
<1>1. CASE ~o.connect
  BY <1>1, Zenon DEF startInLoop
<1>2. CASE o.connect
  <2> DEFINE open == [o EXCEPT !.sockets = @ + 1]
             started == [open EXCEPT !.state = "kConnecting", !.channel = "armed"]
             rest == open.sockets - 1
             given == [open EXCEPT !.sockets = rest, !.gaveUp = TRUE]
  <2>1. p \in {connecting(open), retry(open), given}
    BY <1>2, Zenon DEF startInLoop, connect
  <2>2. Becomes(open, o, o.state, o.channel, o.timers, 1, o.pending, o.connection)
        /\ open.gaveUp = o.gaveUp
    BY DEF Becomes, ClientType
  <2>3. connecting(open) = started
    BY Zenon DEF connecting, ClientType
  <2> HIDE DEF open
  <2>4. open \in ClientType
    BY <2>2, Zenon DEF Becomes
  <2>r. rest \in Int /\ rest = 0
    BY <2>2 DEF Becomes
  <2> HIDE DEF rest
  <2>5. Becomes(started, open, "kConnecting", "armed", open.timers, open.sockets, open.pending, open.connection)
        /\ started.gaveUp = open.gaveUp
    BY <2>4, Zenon DEF Becomes, ClientType
  <2>6. Becomes(given, open, open.state, open.channel, open.timers, rest, open.pending, open.connection)
        /\ given.gaveUp = TRUE
    BY <2>4, <2>r, Zenon DEF Becomes, ClientType
  <2> HIDE DEF started, given
  <2>7. Becomes(retry(open), open, "kDisconnected", open.channel,
                IF open.connect THEN open.timers + 1 ELSE open.timers, open.sockets - 1, open.pending,
                open.connection)
        /\ retry(open).gaveUp = open.gaveUp
    BY <2>4, RetryResult, Zenon
  <2>8. CASE p = started
    BY <1>2, <2>2, <2>5, <2>8, Zenon DEF Becomes
  <2>9. CASE p = given
    BY <1>2, <2>2, <2>6, <2>9, <2>r, Zenon DEF Becomes
  <2>10. CASE p = retry(open)
    <3>1. open.connect = o.connect /\ open.timers = 0 /\ open.sockets = 1 /\ open.channel = "null"
      BY <2>2, Zenon DEF Becomes
    <3>2. Becomes(p, open, "kDisconnected", "null", 1, 0, open.pending, open.connection)
      BY <1>2, <2>7, <2>10, <3>1
    <3>3. Becomes(p, o, "kDisconnected", "null", 1, 0, o.pending, o.connection)
      BY <2>2, <3>2, Zenon DEF Becomes
    <3> QED
      BY <1>2, <2>2, <2>7, <2>10, <3>3, Zenon
  <2> QED
    BY <2>1, <2>3, <2>8, <2>9, <2>10, Zenon
<1> QED
  BY <1>1, <1>2, Zenon

\* The channel is removed and resetChannel() is queued.
LEMMA RemoveResult ==
  ASSUME NEW o \in ClientType, phase # "events" \/ ~o.active
  PROVE  /\ Becomes(removeAndResetChannel(o), o, o.state, "removed", o.timers, o.sockets,
                    Append(o.pending, "resetChannel"), o.connection)
         /\ removeAndResetChannel(o).gaveUp = o.gaveUp
<1> DEFINE p == [o EXCEPT !.channel = "removed", !.pending = Append(@, "resetChannel")]
<1>1. removeAndResetChannel(o) = p
  BY Zenon DEF removeAndResetChannel
<1>2. o.pending \in Seq(Called) /\ "resetChannel" \in Called
  BY Zenon DEF ClientType, Called
<1>3. Append(o.pending, "resetChannel") \in Seq(Called)
  BY <1>2, AppendProperties, Zenon
<1>4. Becomes(p, o, o.state, "removed", o.timers, o.sockets, Append(o.pending, "resetChannel"), o.connection)
      /\ p.gaveUp = o.gaveUp
  BY <1>3, Zenon DEF Becomes, ClientType
<1> HIDE DEF p
<1> QED
  BY <1>1, <1>4, Zenon

\* stopInLoop(), with connect_ off or set again.
LEMMA StopResult ==
  ASSUME ConnectOnce, NEW o \in ClientType, phase # "events"
  PROVE  /\ o.state # "kConnecting" => stopInLoop(o) = o
         /\ o.state = "kConnecting" =>
              /\ Becomes(stopInLoop(o), o, "kDisconnected", "removed",
                         IF o.connect THEN o.timers + 1 ELSE o.timers, o.sockets - 1,
                         Append(o.pending, "resetChannel"), o.connection)
              /\ stopInLoop(o).gaveUp = o.gaveUp /\ (o.connect => stopInLoop(o).fresh)
<1>1. CASE o.state # "kConnecting"
  BY <1>1, Zenon DEF stopInLoop
<1>2. CASE o.state = "kConnecting"
  <2> DEFINE q == [o EXCEPT !.state = "kDisconnected"]
             r == removeAndResetChannel(q)
  <2>1. stopInLoop(o) = IF r.failed # None THEN r ELSE retry(r)
    BY <1>2, Zenon DEF stopInLoop
  <2>2. Becomes(q, o, "kDisconnected", o.channel, o.timers, o.sockets, o.pending, o.connection)
        /\ q.gaveUp = o.gaveUp
    BY Zenon DEF Becomes, ClientType
  <2> HIDE DEF q
  <2>3. q \in ClientType
    BY <2>2, Zenon DEF Becomes
  <2>4. Becomes(r, q, q.state, "removed", q.timers, q.sockets, Append(q.pending, "resetChannel"), q.connection)
        /\ r.gaveUp = q.gaveUp
    BY <2>3, RemoveResult, Zenon
  <2> HIDE DEF r
  <2>5. r \in ClientType
    BY <2>4, Zenon DEF Becomes
  <2>6. stopInLoop(o) = retry(r)
    BY <2>1, <2>5, Zenon DEF ClientType
  <2>7. Becomes(retry(r), r, "kDisconnected", r.channel,
                IF r.connect THEN r.timers + 1 ELSE r.timers, r.sockets - 1, r.pending, r.connection)
        /\ retry(r).gaveUp = r.gaveUp /\ (r.connect => retry(r).fresh)
    BY <2>5, RetryResult, Zenon
  <2>8. Becomes(retry(r), o, "kDisconnected", "removed",
                IF o.connect THEN o.timers + 1 ELSE o.timers, o.sockets - 1,
                Append(o.pending, "resetChannel"), o.connection)
        /\ retry(r).gaveUp = o.gaveUp /\ (o.connect => retry(r).fresh)
    BY <2>2, <2>4, <2>7, Zenon DEF Becomes
  <2> QED
    BY <1>2, <2>6, <2>8, Zenon
<1> QED
  BY <1>1, <1>2, Zenon

\* What handleWrite() and handleError() make of an attempt.
LEMMA FailedResult ==
  ASSUME ConnectOnce, NEW o \in ClientType, ~o.active
  PROVE  /\ Becomes(retry(removeAndResetChannel(o)), o, "kDisconnected", "removed",
                    IF o.connect THEN o.timers + 1 ELSE o.timers, o.sockets - 1,
                    Append(o.pending, "resetChannel"), o.connection)
         /\ retry(removeAndResetChannel(o)).gaveUp = o.gaveUp
<1> DEFINE r == removeAndResetChannel(o)
<1>1. Becomes(r, o, o.state, "removed", o.timers, o.sockets, Append(o.pending, "resetChannel"), o.connection)
      /\ r.gaveUp = o.gaveUp
  BY RemoveResult, Zenon
<1> HIDE DEF r
<1>2. r \in ClientType
  BY <1>1, Zenon DEF Becomes
<1>3. Becomes(retry(r), r, "kDisconnected", r.channel,
              IF r.connect THEN r.timers + 1 ELSE r.timers, r.sockets - 1, r.pending, r.connection)
      /\ retry(r).gaveUp = r.gaveUp
  BY <1>2, RetryResult, Zenon
<1>4. Becomes(retry(r), o, "kDisconnected", "removed",
              IF o.connect THEN o.timers + 1 ELSE o.timers, o.sockets - 1,
              Append(o.pending, "resetChannel"), o.connection)
      /\ retry(r).gaveUp = o.gaveUp
  BY <1>1, <1>3, Zenon DEF Becomes
<1> QED
  BY <1>4, Zenon DEF r

LEMMA ConnectedResult ==
  ASSUME NEW o \in ClientType, ~o.active, ~o.connection
  PROVE  /\ Becomes(handleWriteConnected(o), o, "kConnected", "removed", o.timers,
                    o.sockets - 1, Append(o.pending, "resetChannel"), o.connect)
         /\ handleWriteConnected(o).gaveUp = o.gaveUp
<1> DEFINE r == removeAndResetChannel(o)
           up == [r EXCEPT !.state = "kConnected"]
           rest == up.sockets - 1
           new == [up EXCEPT !.sockets = rest, !.connection = TRUE]
           off == [up EXCEPT !.sockets = rest]
<1>1. Becomes(r, o, o.state, "removed", o.timers, o.sockets, Append(o.pending, "resetChannel"), o.connection)
      /\ r.gaveUp = o.gaveUp
  BY RemoveResult, Zenon
<1>2. handleWriteConnected(o) = IF o.connect THEN new ELSE off
  BY Zenon DEF handleWriteConnected, newConnection
<1> HIDE DEF r
<1>3. Becomes(up, r, "kConnected", r.channel, r.timers, r.sockets, r.pending, r.connection)
      /\ up.gaveUp = r.gaveUp
  BY <1>1, Zenon DEF Becomes, ClientType
<1> HIDE DEF up
<1>4. up \in ClientType
  BY <1>3, Zenon DEF Becomes
<1>r. rest \in Int /\ rest = o.sockets - 1
  BY <1>1, <1>3 DEF Becomes, ClientType
<1> HIDE DEF rest
<1>5. Becomes(new, up, up.state, up.channel, up.timers, rest, up.pending, TRUE)
      /\ new.gaveUp = up.gaveUp
  BY <1>4, <1>r, Zenon DEF Becomes, ClientType
<1>6. Becomes(off, up, up.state, up.channel, up.timers, rest, up.pending, up.connection)
      /\ off.gaveUp = up.gaveUp
  BY <1>4, <1>r, Zenon DEF Becomes, ClientType
<1> HIDE DEF new, off
<1>7. o.connect \in BOOLEAN /\ o.connection = FALSE
  BY Zenon DEF ClientType
<1>8. CASE o.connect
  <2>1. handleWriteConnected(o) = new /\ o.connect = TRUE
    BY <1>2, <1>7, <1>8, Zenon
  <2>2. Becomes(new, o, "kConnected", "removed", o.timers, rest, r.pending, TRUE)
        /\ new.gaveUp = o.gaveUp /\ r.pending = Append(o.pending, "resetChannel")
    BY <1>1, <1>3, <1>5, Zenon DEF Becomes
  <2> QED
    BY <1>r, <2>1, <2>2, Zenon
<1>9. CASE ~o.connect
  <2>1. handleWriteConnected(o) = off /\ o.connect = FALSE
    BY <1>2, <1>7, <1>9, Zenon
  <2>2. Becomes(off, o, "kConnected", "removed", o.timers, rest, r.pending, FALSE)
        /\ off.gaveUp = o.gaveUp /\ r.pending = Append(o.pending, "resetChannel")
    BY <1>1, <1>3, <1>6, <1>7, Zenon DEF Becomes
  <2> QED
    BY <1>r, <2>1, <2>2, Zenon
<1> QED
  BY <1>8, <1>9, Zenon

\* The inductive invariant.  An attempt is at one place at a time: a queued
\* startInLoop(), a retry timer, a connecting socket, a connection or a restart().
\* A channel is removed exactly while its resetChannel() is queued, and that functor
\* runs before anything can start the next attempt: in the iteration that removed it,
\* or in the next one, where the poll() returns at once, before a new retry timer is due.
ClientInv ==
  /\ c \in ClientType /\ batch \in Seq(Called)
  /\ phase \in {"poll", "events", "functors"} /\ connects \in {0, 1}
  /\ call \in {"none", "start", "stop", "startInLoop", "stopInLoop"}
  /\ connects = 0 => call = "none"
  /\ connects = 0 \/ call = "start" => ~c.connect
  /\ connects = 0 \/ call \in {"start", "startInLoop"} =>
       /\ ~c.connection /\ c.state = "kDisconnected" /\ c.channel = "null" /\ c.timers = 0
       /\ c.step = "none" /\ ~Has(c.pending, "startInLoop") /\ ~Has(batch, "startInLoop")
  /\ Has(c.pending, "startInLoop") \/ Has(batch, "startInLoop") =>
       /\ c.state = "kDisconnected" /\ c.channel = "null" /\ c.timers = 0 /\ ~c.connection
       /\ c.step = "none"
  /\ Once(c.pending, "startInLoop") /\ Once(batch, "startInLoop")
  /\ ~(Has(c.pending, "startInLoop") /\ Has(batch, "startInLoop"))
  /\ Once(c.pending, "resetChannel") /\ Once(batch, "resetChannel")
  /\ ~(Has(c.pending, "resetChannel") /\ Has(batch, "resetChannel"))
  /\ c.timers \in {0, 1} /\ (c.timers > 0 => c.state = "kDisconnected")
  /\ c.channel = "armed" <=> c.state = "kConnecting"
  /\ c.channel = "removed" <=> Has(c.pending, "resetChannel") \/ Has(batch, "resetChannel")
  /\ c.connection => c.state = "kConnected"
  /\ phase # "functors" => batch = <<>>
  /\ phase # "events" => ~c.active /\ ~c.due /\ ~c.closing
  /\ Has(c.pending, "resetChannel") /\ phase # "events" =>
       c.state = "kDisconnected" /\ (c.timers = 0 \/ c.fresh)
  /\ c.active => c.channel = "armed"
  /\ c.due => c.timers > 0 /\ c.channel = "null"
  /\ c.closing => c.connection /\ c.channel = "null"
  /\ c.step # "none" =>
       /\ phase = "events" /\ c.channel = "null" /\ c.timers = 0 /\ ~c.connection
       /\ c.state = IF c.step = "restart" THEN "kConnected" ELSE "kDisconnected"
  /\ c.sockets = IF c.state = "kConnecting" THEN 1 ELSE 0
  /\ (c.connect /\ c.state = "kDisconnected" /\ ~c.gaveUp) =>
       \/ c.timers > 0 \/ call = "startInLoop" \/ c.step = "start"
       \/ Has(c.pending, "startInLoop") \/ Has(batch, "startInLoop")

LEMMA EmptyHasNone ==
  ASSUME NEW x
  PROVE  <<>> \in Seq(Called) /\ ~Has(<<>>, x) /\ Once(<<>>, x)
BY EmptySeq DEF Has, Once

LEMMA ClientInit == ConnectOnce /\ Init => ClientInv
<1> SUFFICES ASSUME ConnectOnce, Init PROVE ClientInv
  BY Zenon
<1>1. kInitRetryDelayMs \in Nat
  BY Zenon DEF ConnectOnce, TcpClientAssumption
<1>2. c \in ClientType
  BY <1>1, EmptyHasNone DEF Init, ClientType
<1> QED
  BY <1>2, EmptyHasNone, Zenon DEF Init, ClientInv

\* p is the client o after a poll().
Polled(p, o, ready, expired, closed) ==
  /\ p \in ClientType /\ p.active = ready /\ p.due = expired /\ p.closing = closed
  /\ p.wanted = o.wanted /\ p.connection = o.connection /\ p.connect = o.connect /\ p.step = o.step
  /\ p.state = o.state /\ p.channel = o.channel /\ p.timers = o.timers
  /\ p.sockets = o.sockets /\ p.pending = o.pending /\ p.gaveUp = o.gaveUp

LEMMA PollResult ==
  ASSUME NEW o \in ClientType,
         NEW ready \in BOOLEAN, NEW expired \in BOOLEAN, NEW closed \in BOOLEAN
  PROVE  Polled([o EXCEPT !.active = ready, !.due = expired, !.closing = closed, !.fresh = FALSE],
                o, ready, expired, closed)
<1> DEFINE p == [o EXCEPT !.active = ready, !.due = expired, !.closing = closed, !.fresh = FALSE]
<1>1. p \in ClientType
  BY Zenon DEF ClientType
<1>2. p.active = ready /\ p.due = expired /\ p.closing = closed
  BY Zenon DEF ClientType
<1>3. /\ p.wanted = o.wanted /\ p.connection = o.connection /\ p.connect = o.connect /\ p.step = o.step
      /\ p.state = o.state /\ p.channel = o.channel /\ p.timers = o.timers
      /\ p.sockets = o.sockets /\ p.pending = o.pending /\ p.gaveUp = o.gaveUp
  BY Zenon DEF ClientType
<1> QED
  BY <1>1, <1>2, <1>3, Zenon DEF Polled

LEMMA ClientPoll ==
  ASSUME ConnectOnce, ClientInv, Poll
  PROVE  ClientInv'
<1>0. c \in ClientType
  BY Zenon DEF ClientInv
<1>1. PICK ready \in {FALSE, c.channel = "armed"}, closed \in {FALSE, c.connection},
           expired \in {FALSE, c.timers > 0 /\ ~(c.fresh /\ c.pending # <<>>)} :
        c' = [c EXCEPT !.active = ready, !.due = expired, !.closing = closed, !.fresh = FALSE]
  BY Zenon DEF Poll
<1>2. /\ ready \in BOOLEAN /\ closed \in BOOLEAN /\ expired \in BOOLEAN
      /\ ready => c.channel = "armed"
      /\ closed => c.connection
      /\ expired => c.timers > 0 /\ ~(c.fresh /\ c.pending # <<>>)
  BY <1>0, Zenon DEF ClientType
<1>3. Polled(c', c, ready, expired, closed)
  BY <1>0, <1>1, <1>2, PollResult, Zenon
<1>4. phase = "poll" /\ phase' = "events" /\ UNCHANGED <<batch, call, connects>>
  BY Zenon DEF Poll, userVars
<1>5. (expired \/ closed) => c.channel = "null"
  <2>1. c.timers > 0 => c.timers # 0
    BY <1>0 DEF ClientType
  <2>2. ~Has(batch, "resetChannel") /\ ~Has(<<>>, "resetChannel") /\ c.channel \in {"null", "armed", "removed"}
    BY <1>0, <1>4, EmptyHasNone, Zenon DEF ClientInv, ClientType
  <2> QED
    BY <1>2, <1>4, <2>1, <2>2, Zenon DEF ClientInv
<1> QED
  BY <1>2, <1>3, <1>4, <1>5, Zenon DEF ClientInv, Polled

\* The queue after removeAndResetChannel().
LEMMA ResetQueued ==
  ASSUME ClientInv, c.channel = "armed", NEW q, q = Append(c.pending, "resetChannel")
  PROVE  /\ q \in Seq(Called) /\ Has(q, "resetChannel") /\ Once(q, "resetChannel")
         /\ ~Has(batch, "resetChannel") /\ ~Has(q, "startInLoop") /\ Once(q, "startInLoop")
<1>0. c \in ClientType /\ c.pending \in Seq(Called)
  BY Zenon DEF ClientInv, ClientType
<1>1. ~Has(c.pending, "resetChannel") /\ ~Has(batch, "resetChannel") /\ ~Has(c.pending, "startInLoop")
      /\ Once(c.pending, "startInLoop") /\ Once(c.pending, "resetChannel")
  BY Zenon DEF ClientInv
<1> QED
  BY <1>0, <1>1, HasAppend, Zenon DEF Called

\* The channel of the connector is handled.
LEMMA ClientHandles ==
  ASSUME ConnectOnce, ClientInv, HandleOut \/ HandleErr
  PROVE  ClientInv'
<1> DEFINE o == [c EXCEPT !.active = FALSE]
           app == Append(c.pending, "resetChannel")
<1>0. /\ c \in ClientType /\ c.active /\ phase = "events" /\ c.step = "none"
      /\ UNCHANGED <<phase, batch, call, connects>>
  BY Zenon DEF HandleOut, HandleErr, ClientInv, userVars
<1>1. /\ o \in ClientType /\ o.active = FALSE /\ o.gaveUp = c.gaveUp /\ o.step = c.step
      /\ o.wanted = c.wanted /\ o.connect = c.connect /\ o.due = c.due /\ o.closing = c.closing
      /\ o.state = c.state /\ o.channel = c.channel /\ o.timers = c.timers
      /\ o.sockets = c.sockets /\ o.pending = c.pending /\ o.connection = c.connection
  BY <1>0, Zenon DEF ClientType
<1>2. /\ c.state = "kConnecting" /\ c.timers = 0 /\ c.sockets = 1 /\ ~c.connection
      /\ ~c.due /\ ~c.closing /\ c.channel = "armed" /\ connects = 1
      /\ call \notin {"start", "startInLoop"}
  BY <1>0 DEF ClientInv, ClientType
<1>3. \/ c' \in handleWrite(o)
      \/ c' \in {handleError(o)} \cup handleWrite(handleError(o))
  BY Zenon DEF HandleOut, HandleErr
<1> HIDE DEF o
<1> DEFINE failed == retry(removeAndResetChannel(o))
           done == handleWriteConnected(o)
<1>4. /\ Becomes(failed, o, "kDisconnected", "removed",
                 IF o.connect THEN o.timers + 1 ELSE o.timers, o.sockets - 1,
                 Append(o.pending, "resetChannel"), o.connection)
      /\ failed.gaveUp = o.gaveUp
  BY <1>1, FailedResult, Zenon
<1>5. /\ Becomes(done, o, "kConnected", "removed", o.timers, o.sockets - 1,
                 Append(o.pending, "resetChannel"), o.connect)
      /\ done.gaveUp = o.gaveUp
  BY <1>1, <1>2, ConnectedResult, Zenon
<1>6. handleWrite(o) = {done, failed} /\ handleError(o) = failed
  BY <1>1, <1>2, Zenon DEF handleWrite, handleError, handleWriteFailed
<1>7. failed.state = "kDisconnected"
  BY <1>4, Zenon DEF Becomes
<1>8. handleWrite(failed) = {failed}
  BY <1>7, Zenon DEF handleWrite
<1>9. c' \in {done, failed}
  BY <1>3, <1>6, <1>8, Zenon
<1> HIDE DEF done, failed
<1>10. /\ c' \in ClientType /\ c'.active = FALSE /\ ~c'.due /\ ~c'.closing
       /\ c'.wanted = c.wanted /\ c'.connect = c.connect /\ c'.channel = "removed"
       /\ c'.sockets = 0 /\ c'.pending = app /\ c'.gaveUp = c.gaveUp /\ c'.step = "none"
       /\ \/ c'.state = "kConnected" /\ c'.timers = 0
          \/ /\ c'.state = "kDisconnected" /\ ~c'.connection
             /\ c'.timers = IF c.connect THEN 1 ELSE 0
  <2>1. CASE c' = done
    BY <1>0, <1>1, <1>2, <1>5, <2>1 DEF Becomes
  <2>2. CASE c' = failed
    BY <1>0, <1>1, <1>2, <1>4, <2>2 DEF Becomes
  <2> QED
    BY <1>9, <2>1, <2>2, Zenon
<1>11. /\ Has(app, "resetChannel") /\ Once(app, "resetChannel")
       /\ ~Has(batch, "resetChannel") /\ ~Has(app, "startInLoop") /\ Once(app, "startInLoop")
  BY <1>2, ResetQueued, Zenon
<1> HIDE DEF app
<1> QED
  BY <1>0, <1>2, <1>10, <1>11 DEF ClientInv

\* The retry timer expires, or restart() calls startInLoop().
LEMMA ClientStarts ==
  ASSUME ConnectOnce, ClientInv, HandleTimer \/ RestartStarts
  PROVE  ClientInv'
<1>0. c \in ClientType /\ phase = "events" /\ UNCHANGED <<phase, batch, call, connects>>
  BY Zenon DEF HandleTimer, RestartStarts, ClientInv, userVars
<1>a. ASSUME NEW o \in ClientType, c' \in startInLoop(o), c.channel = "null", connects = 1,
             o.state = "kDisconnected", o.channel = "null", o.timers = 0, o.sockets = 0,
             ~o.connection, ~o.active, ~o.due, ~o.closing, o.pending = c.pending, o.step = "none",
             ~Has(c.pending, "startInLoop"), call \notin {"start", "startInLoop"}
      PROVE  ClientInv'
  <2>1. \/ ~o.connect /\ c' = o
        \/ o.connect /\ c'.gaveUp = o.gaveUp
           /\ Becomes(c', o, "kConnecting", "armed", 0, 1, o.pending, o.connection)
        \/ o.connect /\ c'.gaveUp = o.gaveUp
           /\ Becomes(c', o, "kDisconnected", "null", 1, 0, o.pending, o.connection)
        \/ o.connect /\ c'.gaveUp
           /\ Becomes(c', o, "kDisconnected", "null", 0, 0, o.pending, o.connection)
    BY <1>a, StartResults, Zenon
  <2>2. /\ c' \in ClientType /\ ~c'.active /\ ~c'.due /\ ~c'.closing /\ ~c'.connection
        /\ c'.step = "none" /\ c'.connect = o.connect /\ c'.pending = c.pending
        /\ \/ c'.state = "kConnecting" /\ c'.channel = "armed" /\ c'.timers = 0 /\ c'.sockets = 1
           \/ c'.state = "kDisconnected" /\ c'.channel = "null" /\ c'.timers = 1 /\ c'.sockets = 0
           \/ /\ c'.state = "kDisconnected" /\ c'.channel = "null" /\ c'.timers = 0 /\ c'.sockets = 0
              /\ o.connect => c'.gaveUp
    BY <1>a, <2>1, Zenon DEF Becomes
  <2>3. ~Has(c.pending, "resetChannel") /\ ~Has(batch, "resetChannel") /\ batch = <<>>
    BY <1>0, <1>a, Zenon DEF ClientInv
  <2> QED
    BY <1>0, <1>a, <2>2, <2>3, EmptyHasNone DEF ClientInv
<1>1. CASE HandleTimer
  <2> DEFINE t == c.timers - 1
             o == [c EXCEPT !.timers = t, !.due = FALSE]
  <2>1. c.due /\ c.step = "none" /\ c' \in startInLoop(o)
    BY <1>1, Zenon DEF HandleTimer
  <2>2. /\ c.timers = 1 /\ c.channel = "null" /\ c.state = "kDisconnected" /\ ~c.connection
        /\ ~c.active /\ ~c.closing /\ c.sockets = 0 /\ connects = 1
        /\ ~Has(c.pending, "startInLoop") /\ call \notin {"start", "startInLoop"}
    BY <1>0, <2>1 DEF ClientInv
  <2>3. t \in Nat /\ t = 0
    BY <2>2
  <2> HIDE DEF t
  <2>4. /\ o \in ClientType /\ o.active = c.active /\ o.connect = c.connect /\ o.due = FALSE
        /\ o.closing = c.closing /\ o.state = c.state /\ o.step = c.step
        /\ o.channel = c.channel /\ o.timers = t /\ o.sockets = c.sockets
        /\ o.pending = c.pending /\ o.connection = c.connection
    BY <1>0, <2>3, Zenon DEF ClientType
  <2> HIDE DEF o
  <2> QED
    BY <1>a, <2>1, <2>2, <2>3, <2>4, Zenon
<1>2. CASE RestartStarts
  <2> DEFINE o == [c EXCEPT !.step = "none"]
  <2>1. c.step = "start" /\ c' \in startInLoop(o)
    BY <1>2, Zenon DEF RestartStarts
  <2>2. /\ c.timers = 0 /\ c.channel = "null" /\ c.state = "kDisconnected" /\ ~c.connection
        /\ ~c.active /\ ~c.due /\ ~c.closing /\ c.sockets = 0 /\ connects = 1
        /\ ~Has(c.pending, "startInLoop") /\ call \notin {"start", "startInLoop"}
    BY <1>0, <2>1 DEF ClientInv
  <2>3. /\ o \in ClientType /\ o.active = c.active /\ o.connect = c.connect /\ o.due = c.due
        /\ o.closing = c.closing /\ o.state = c.state /\ o.step = "none"
        /\ o.channel = c.channel /\ o.timers = c.timers /\ o.sockets = c.sockets
        /\ o.pending = c.pending /\ o.connection = c.connection
    BY <1>0, Zenon DEF ClientType
  <2> HIDE DEF o
  <2> QED
    BY <1>a, <2>1, <2>2, <2>3, Zenon
<1> QED
  BY <1>1, <1>2, Zenon

\* The connection is closed, and restart() sets connect_.
LEMMA ClientCloses ==
  ASSUME ConnectOnce, ClientInv, ConnectionCloses \/ Restart
  PROVE  ClientInv'
<1>0. c \in ClientType /\ phase = "events" /\ UNCHANGED <<phase, batch, call, connects>>
  BY Zenon DEF ConnectionCloses, Restart, ClientInv, userVars
<1>1. CASE ConnectionCloses
  <2> DEFINE n == [c EXCEPT !.closing = FALSE]
             step == IF Retry /\ n.wanted THEN "restart" ELSE "none"
  <2>1. c.closing /\ c' = [n EXCEPT !.connection = FALSE, !.step = step]
    BY <1>1, Zenon DEF ConnectionCloses, removeConnection
  <2>2. /\ n \in ClientType /\ n.active = c.active /\ n.due = c.due /\ n.closing = FALSE
        /\ n.connect = c.connect /\ n.state = c.state /\ n.channel = c.channel
        /\ n.timers = c.timers /\ n.sockets = c.sockets /\ n.pending = c.pending /\ n.gaveUp = c.gaveUp
    BY <1>0, Zenon DEF ClientType
  <2>3. step \in {"none", "restart"}
    BY Zenon
  <2> HIDE DEF n, step
  <2>4. /\ c' \in ClientType /\ c'.active = n.active /\ c'.due = n.due /\ c'.closing = n.closing
        /\ c'.connect = n.connect /\ c'.state = n.state /\ c'.channel = n.channel
        /\ c'.timers = n.timers /\ c'.sockets = n.sockets /\ c'.pending = n.pending
        /\ c'.gaveUp = n.gaveUp /\ c'.connection = FALSE /\ c'.step = step
    BY <2>1, <2>2, <2>3, Zenon DEF ClientType
  <2>5. /\ c.connection /\ c.channel = "null" /\ c.state = "kConnected" /\ c.timers = 0
        /\ ~Has(c.pending, "startInLoop") /\ connects = 1 /\ call \notin {"start", "startInLoop"}
    BY <1>0, <2>1 DEF ClientInv
  <2> QED
    BY <1>0, <2>2, <2>3, <2>4, <2>5, Zenon DEF ClientInv
<1>2. CASE Restart
  <2>1. /\ c.step = "restart" /\ kInitRetryDelayMs \in Nat
        /\ c' = [c EXCEPT !.state = "kDisconnected", !.delay = kInitRetryDelayMs, !.connect = TRUE,
                          !.step = "start"]
    BY <1>2, Zenon DEF Restart, restart, ConnectOnce, TcpClientAssumption
  <2>2. /\ c' \in ClientType /\ c'.active = c.active /\ c'.due = c.due /\ c'.closing = c.closing
        /\ c'.connect = TRUE /\ c'.state = "kDisconnected" /\ c'.channel = c.channel
        /\ c'.timers = c.timers /\ c'.sockets = c.sockets /\ c'.pending = c.pending
        /\ c'.connection = c.connection /\ c'.step = "start"
    BY <1>0, <2>1, Zenon DEF ClientType
  <2>3. /\ c.channel = "null" /\ c.state = "kConnected" /\ c.timers = 0 /\ ~c.connection
        /\ ~Has(c.pending, "startInLoop") /\ ~Has(batch, "startInLoop")
        /\ connects = 1 /\ call \notin {"start", "startInLoop"}
    BY <1>0, <2>1 DEF ClientInv
  <2> QED
    BY <1>0, <2>2, <2>3, Zenon DEF ClientInv
<1> QED
  BY <1>1, <1>2, Zenon

LEMMA ClientEventsDone ==
  ASSUME ConnectOnce, ClientInv, EventsDone
  PROVE  ClientInv'
<1>0. /\ c \in ClientType /\ phase = "events" /\ phase' = "functors" /\ batch = <<>>
      /\ ~c.active /\ ~c.due /\ ~c.closing /\ batch' = c.pending /\ c.pending \in Seq(Called)
      /\ UNCHANGED <<call, connects>> /\ c.step = "none"
  BY Zenon DEF EventsDone, ClientInv, ClientType, userVars
<1>1. c' = [c EXCEPT !.pending = <<>>] /\ <<>> \in Seq(Called)
  BY EmptySeq, Zenon DEF EventsDone
<1>2. /\ c' \in ClientType /\ c'.active = c.active /\ c'.due = c.due /\ c'.closing = c.closing
      /\ c'.wanted = c.wanted /\ c'.connection = c.connection /\ c'.connect = c.connect
      /\ c'.state = c.state /\ c'.channel = c.channel /\ c'.timers = c.timers
      /\ c'.sockets = c.sockets /\ c'.pending = <<>> /\ c'.gaveUp = c.gaveUp /\ c'.step = c.step
  BY <1>0, <1>1, Zenon DEF ClientType
<1>3. \A x \in Called : ~Has(<<>>, x) /\ Once(<<>>, x)
  BY EmptyHasNone, Zenon
<1> QED
  BY <1>0, <1>2, <1>3, Zenon DEF ClientInv, Called

\* What stopInLoop() makes of o, which is c but for connect_, when it is connecting:
\* the attempt ends, and with connect_ set again the next one is scheduled.
Stops(o) ==
  /\ c' \in ClientType /\ ~c'.active /\ ~c'.due /\ ~c'.closing /\ ~c'.connection /\ c'.step = "none"
  /\ c'.connect = o.connect /\ c'.state = "kDisconnected" /\ c'.channel = "removed"
  /\ c'.sockets = 0 /\ c'.timers \in {0, 1} /\ (c'.timers > 0 => c'.fresh)
  /\ (c'.timers = 0 \/ c'.fresh) /\ (c'.connect => c'.timers > 0)
  /\ Has(c'.pending, "resetChannel") /\ Once(c'.pending, "resetChannel")
  /\ ~Has(c'.pending, "startInLoop") /\ Once(c'.pending, "startInLoop")
  /\ ~Has(batch, "resetChannel") /\ ~Has(batch, "startInLoop")
  /\ connects = 1 /\ call \notin {"start", "startInLoop"}

LEMMA ClientStops ==
  ASSUME ConnectOnce, ClientInv, phase = "functors", c.state = "kConnecting",
         NEW o \in ClientType, o.connect \in {c.connect, FALSE}, o.state = c.state, o.timers = c.timers,
         o.sockets = c.sockets, o.pending = c.pending, o.connection = c.connection,
         o.active = c.active, o.due = c.due, o.closing = c.closing, o.step = c.step,
         c' = stopInLoop(o)
  PROVE  Stops(o)
<1> DEFINE app == Append(c.pending, "resetChannel")
<1>1. /\ Becomes(c', o, "kDisconnected", "removed",
                 IF o.connect THEN o.timers + 1 ELSE o.timers, o.sockets - 1, app, o.connection)
      /\ o.connect => c'.fresh
  BY StopResult, Zenon
<1>2. /\ c.timers = 0 /\ c.sockets = 1 /\ ~c.connection /\ c.channel = "armed" /\ c.step = "none"
      /\ ~c.active /\ ~c.due /\ ~c.closing /\ ~Has(batch, "startInLoop")
      /\ connects = 1 /\ call \notin {"start", "startInLoop"}
  BY DEF ClientInv
<1>3. /\ Has(app, "resetChannel") /\ Once(app, "resetChannel")
      /\ ~Has(batch, "resetChannel") /\ ~Has(app, "startInLoop") /\ Once(app, "startInLoop")
  BY <1>2, ResetQueued, Zenon
<1> HIDE DEF app
<1>4. /\ c' \in ClientType /\ ~c'.active /\ ~c'.due /\ ~c'.closing /\ ~c'.connection /\ c'.step = "none"
      /\ c'.connect = o.connect /\ c'.state = "kDisconnected" /\ c'.channel = "removed" /\ c'.pending = app
  BY <1>1, <1>2, Zenon DEF Becomes
<1>5. c'.sockets = 0 /\ c'.timers = IF o.connect THEN 1 ELSE 0
  BY <1>1, <1>2 DEF Becomes
<1>6. c'.timers \in {0, 1} /\ (c'.timers > 0 <=> o.connect) /\ (c'.timers = 0 <=> ~o.connect)
  BY <1>5
<1> QED
  BY <1>1, <1>2, <1>3, <1>4, <1>5, <1>6, Zenon DEF Stops

LEMMA ClientRunFunctor ==
  ASSUME ConnectOnce, ClientInv, RunFunctor
  PROVE  ClientInv'
<1>0. /\ c \in ClientType /\ c.pending \in Seq(Called) /\ batch \in Seq(Called) /\ batch # <<>>
      /\ phase = "functors" /\ batch' = Tail(batch) /\ UNCHANGED <<phase, call, connects>>
      /\ ~c.active /\ ~c.due /\ ~c.closing /\ c.step = "none"
  BY Zenon DEF RunFunctor, ClientInv, ClientType, userVars
<1>1. /\ batch' \in Seq(Called) /\ Head(batch) \in Called /\ Has(batch, Head(batch))
      /\ \A x \in Called : /\ Has(batch', x) => Has(batch, x)
                           /\ Has(batch, x) => Head(batch) = x \/ Has(batch', x)
                           /\ Once(batch, x) => Once(batch', x) /\ (Head(batch) = x => ~Has(batch', x))
  BY <1>0, HasTail
<1>2. CASE Head(batch) = "startInLoop"
  <2>1. c' \in startInLoop(c)
    BY <1>2, Zenon DEF RunFunctor
  <2>2. /\ c.state = "kDisconnected" /\ c.channel = "null" /\ c.timers = 0 /\ ~c.connection
        /\ c.sockets = 0 /\ connects = 1 /\ ~Has(c.pending, "startInLoop") /\ ~Has(batch', "startInLoop")
        /\ ~Has(c.pending, "resetChannel") /\ ~Has(batch', "resetChannel")
        /\ call \notin {"start", "startInLoop"}
    BY <1>1, <1>2, Zenon DEF ClientInv, Called
  <2>3. \/ ~c.connect /\ c' = c
        \/ c.connect /\ c'.gaveUp = c.gaveUp
           /\ Becomes(c', c, "kConnecting", "armed", 0, 1, c.pending, c.connection)
        \/ c.connect /\ c'.gaveUp = c.gaveUp
           /\ Becomes(c', c, "kDisconnected", "null", 1, 0, c.pending, c.connection)
        \/ c.connect /\ c'.gaveUp
           /\ Becomes(c', c, "kDisconnected", "null", 0, 0, c.pending, c.connection)
    BY <1>0, <2>1, <2>2, StartResults, Zenon
  <2>4. /\ c' \in ClientType /\ ~c'.active /\ ~c'.due /\ ~c'.closing /\ ~c'.connection
        /\ c'.step = "none" /\ c'.connect = c.connect /\ c'.pending = c.pending
        /\ \/ c'.state = "kConnecting" /\ c'.channel = "armed" /\ c'.timers = 0 /\ c'.sockets = 1
           \/ c'.state = "kDisconnected" /\ c'.channel = "null" /\ c'.timers = 1 /\ c'.sockets = 0
           \/ /\ c'.state = "kDisconnected" /\ c'.channel = "null" /\ c'.timers = 0 /\ c'.sockets = 0
              /\ c.connect => c'.gaveUp
    BY <1>0, <2>2, <2>3, Zenon DEF Becomes
  <2> QED
    BY <1>0, <1>1, <2>2, <2>4 DEF ClientInv, Called
<1>3. CASE Head(batch) = "stopInLoop"
  <2>1. c' = stopInLoop(c)
    BY <1>3, Zenon DEF RunFunctor
  <2>2. \A x \in Called : x # "stopInLoop" => (Has(batch', x) <=> Has(batch, x))
    BY <1>1, <1>3, Zenon
  <2>3. CASE c.state # "kConnecting"
    <3>1. c' = c
      BY <1>0, <2>1, <2>3, StopResult, Zenon
    <3> QED
      BY <1>0, <1>1, <2>2, <3>1, Zenon DEF ClientInv, Called
  <2>4. CASE c.state = "kConnecting"
    <3>1. Stops(c)
      BY <1>0, <2>1, <2>4, ClientStops, Zenon
    <3>2. Has(batch', "startInLoop") <=> Has(batch, "startInLoop")
      BY <2>2, Zenon DEF Called
    <3>3. Has(batch', "resetChannel") <=> Has(batch, "resetChannel")
      BY <2>2, Zenon DEF Called
    <3>4. Once(batch', "startInLoop") /\ Once(batch', "resetChannel")
      BY <1>1, Zenon DEF ClientInv, Called
    <3> QED
      BY <1>0, <1>1, <3>1, <3>2, <3>3, <3>4 DEF ClientInv, Stops
  <2> QED
    BY <2>3, <2>4, Zenon
<1>4. CASE Head(batch) = "resetChannel"
  <2>1. c' = [c EXCEPT !.channel = "null"]
    BY <1>4, Zenon DEF RunFunctor
  <2>2. /\ c' \in ClientType /\ c'.active = c.active /\ c'.due = c.due /\ c'.closing = c.closing
        /\ c'.wanted = c.wanted /\ c'.connection = c.connection /\ c'.connect = c.connect
        /\ c'.state = c.state /\ c'.channel = "null" /\ c'.timers = c.timers
        /\ c'.sockets = c.sockets /\ c'.pending = c.pending /\ c'.gaveUp = c.gaveUp
        /\ c'.step = c.step
    BY <1>0, <2>1, Zenon DEF ClientType
  <2>3. c.channel = "removed" /\ ~Has(c.pending, "resetChannel") /\ ~Has(batch', "resetChannel")
    BY <1>1, <1>4, Zenon DEF ClientInv, Called
  <2>4. \A x \in Called : x # "resetChannel" => (Has(batch', x) <=> Has(batch, x))
    BY <1>1, <1>4, Zenon
  <2> QED
    BY <1>0, <1>1, <2>2, <2>3, <2>4, Zenon DEF ClientInv, Called
<1> QED
  BY <1>1, <1>2, <1>3, <1>4, Zenon DEF Called

\* p is o but for the two flags that connect(), stop() and disconnect() set.
Same(p, o) ==
  /\ p \in ClientType /\ p.active = o.active /\ p.due = o.due /\ p.closing = o.closing
  /\ p.connection = o.connection /\ p.state = o.state /\ p.channel = o.channel
  /\ p.timers = o.timers /\ p.sockets = o.sockets /\ p.pending = o.pending
  /\ p.gaveUp = o.gaveUp /\ p.step = o.step /\ p.fresh = o.fresh

LEMMA FlagsSet ==
  ASSUME NEW o \in ClientType, NEW w \in BOOLEAN, NEW t \in BOOLEAN
  PROVE  /\ Same([o EXCEPT !.wanted = w, !.connect = t], o)
         /\ [o EXCEPT !.wanted = w, !.connect = t].connect = t
         /\ Same([o EXCEPT !.connect = t], o) /\ [o EXCEPT !.connect = t].connect = t
         /\ Same([o EXCEPT !.wanted = w], o) /\ [o EXCEPT !.wanted = w].connect = o.connect
BY Zenon DEF Same, ClientType

\* The first call of connect().
LEMMA ClientConnect ==
  ASSUME ConnectOnce, ClientInv, Connect
  PROVE  ClientInv'
<1>0. c \in ClientType /\ connects = 0 /\ connects' = 1 /\ UNCHANGED <<phase, batch>>
  BY DEF Connect, ConnectOnce, TcpClientAssumption, ClientInv
<1>1. /\ ~c.connection /\ c.state = "kDisconnected" /\ c.channel = "null" /\ c.timers = 0
      /\ c.sockets = 0 /\ c.step = "none" /\ ~c.connect /\ call = "none"
      /\ ~Has(c.pending, "startInLoop") /\ ~Has(batch, "startInLoop")
      /\ ~Has(c.pending, "resetChannel") /\ ~Has(batch, "resetChannel")
  BY <1>0, Zenon DEF ClientInv
<1>2. CASE OnLoopThread
  <2> DEFINE o == [c EXCEPT !.wanted = TRUE, !.connect = TRUE]
  <2>1. Same(o, c) /\ o.connect = TRUE
    BY <1>0, FlagsSet, Zenon
  <2>2. \/ c' \in startInLoop(o) /\ call' = "none"
        \/ c' = [c EXCEPT !.wanted = TRUE] /\ call' = "start"
    BY <1>1, Zenon DEF Connect
  <2>3. phase = "functors"
    BY <1>2, Zenon DEF OnLoopThread, ConnectOnce
  <2> HIDE DEF o
  <2>4. CASE c' \in startInLoop(o) /\ call' = "none"
    <3>1. \/ ~o.connect /\ c' = o
          \/ o.connect /\ c'.gaveUp = o.gaveUp
             /\ Becomes(c', o, "kConnecting", "armed", 0, 1, o.pending, o.connection)
          \/ o.connect /\ c'.gaveUp = o.gaveUp
             /\ Becomes(c', o, "kDisconnected", "null", 1, 0, o.pending, o.connection)
          \/ o.connect /\ c'.gaveUp
             /\ Becomes(c', o, "kDisconnected", "null", 0, 0, o.pending, o.connection)
      BY <1>1, <2>1, <2>4, StartResults, Zenon DEF Same
    <3>2. ~c.active /\ ~c.due /\ ~c.closing
      BY <2>3, Zenon DEF ClientInv
    <3>3. /\ c' \in ClientType /\ ~c'.active /\ ~c'.due /\ ~c'.closing /\ ~c'.connection
          /\ c'.step = "none" /\ c'.pending = c.pending
          /\ \/ c'.state = "kConnecting" /\ c'.channel = "armed" /\ c'.timers = 0 /\ c'.sockets = 1
             \/ c'.state = "kDisconnected" /\ c'.channel = "null" /\ c'.timers = 1 /\ c'.sockets = 0
             \/ /\ c'.state = "kDisconnected" /\ c'.channel = "null" /\ c'.timers = 0 /\ c'.sockets = 0
                /\ c'.gaveUp
      BY <1>1, <2>1, <3>1, <3>2, Zenon DEF Becomes, Same
    <3> QED
      BY <1>0, <1>1, <2>3, <2>4, <3>3 DEF ClientInv
  <2>5. CASE c' = [c EXCEPT !.wanted = TRUE] /\ call' = "start"
    <3>1. Same(c', c) /\ c'.connect = c.connect
      BY <1>0, <2>5, FlagsSet, Zenon
    <3> QED
      BY <1>0, <1>1, <2>5, <3>1 DEF ClientInv, Same
  <2> QED
    BY <2>2, <2>4, <2>5, Zenon
<1>3. CASE ~OnLoopThread
  <2>1. c' = [c EXCEPT !.wanted = TRUE] /\ call' = "start"
    BY <1>3, Zenon DEF Connect
  <2>2. Same(c', c) /\ c'.connect = c.connect
    BY <1>0, <2>1, FlagsSet, Zenon
  <2> QED
    BY <1>0, <1>1, <2>1, <2>2 DEF ClientInv, Same
<1> QED
  BY <1>2, <1>3, Zenon

LEMMA ClientStop ==
  ASSUME ConnectOnce, ClientInv, Stop
  PROVE  ClientInv'
<1> DEFINE o == [c EXCEPT !.wanted = FALSE, !.connect = FALSE]
<1>0. c \in ClientType /\ connects = 1 /\ UNCHANGED <<phase, batch, connects>>
  BY DEF Stop, ClientInv
<1>1. Same(o, c) /\ o.connect = FALSE
  BY <1>0, FlagsSet, Zenon
<1>2. \/ phase = "functors" /\ c' = stopInLoop(o) /\ call' = call
      \/ c' = [c EXCEPT !.wanted = FALSE] /\ call = "none" /\ call' = "stop"
  BY Zenon DEF Stop, OnLoopThread, OnOtherThread, ConnectOnce
<1> HIDE DEF o
<1>3. CASE phase = "functors" /\ c' = stopInLoop(o) /\ call' = call /\ c.state # "kConnecting"
  <2>1. c' = o
    BY <1>1, <1>3, StopResult, Zenon DEF Same
  <2> QED
    BY <1>0, <1>1, <1>3, <2>1, Zenon DEF ClientInv, Same
<1>4. CASE phase = "functors" /\ c' = stopInLoop(o) /\ call' = call /\ c.state = "kConnecting"
  <2>1. Stops(o)
    BY <1>1, <1>4, ClientStops, Zenon DEF Same
  <2>2. Once(batch, "startInLoop") /\ Once(batch, "resetChannel") /\ batch \in Seq(Called)
    BY Zenon DEF ClientInv
  <2> QED
    BY <1>0, <1>4, <2>1, <2>2 DEF ClientInv, Stops
<1>5. CASE c' = [c EXCEPT !.wanted = FALSE] /\ call = "none" /\ call' = "stop"
  <2>1. Same(c', c) /\ c'.connect = c.connect
    BY <1>0, <1>5, FlagsSet, Zenon
  <2> QED
    BY <1>0, <1>5, <2>1 DEF ClientInv, Same
<1> QED
  BY <1>2, <1>3, <1>4, <1>5, Zenon

\* connect_ is set or cleared, and the functor queued, on the other thread.
LEMMA ClientCall ==
  ASSUME ConnectOnce, ClientInv, CallStep
  PROVE  ClientInv'
<1>0. c \in ClientType /\ c.pending \in Seq(Called) /\ UNCHANGED <<phase, batch, connects>>
  BY Zenon DEF CallStep, SetConnect, QueueFunctor, ClientInv, ClientType
<1>1. CASE SetConnect
  <2>1. c' = [c EXCEPT !.connect = (call = "start")] /\ call \in {"start", "stop"}
        /\ call' = IF call = "start" THEN "startInLoop" ELSE "stopInLoop"
    BY <1>1, Zenon DEF SetConnect
  <2>2. CASE call = "start"
    <3>1. c' = [c EXCEPT !.connect = TRUE] /\ call' = "startInLoop"
      BY <2>1, <2>2, Zenon
    <3>2. Same(c', c)
      BY <1>0, <3>1, FlagsSet, Zenon
    <3> QED
      BY <1>0, <2>2, <3>1, <3>2, Zenon DEF ClientInv, Same
  <2>3. CASE call = "stop"
    <3>0. (call = "start") = FALSE
      BY <2>3
    <3>1. c' = [c EXCEPT !.connect = FALSE] /\ call' = "stopInLoop"
      BY <2>1, <2>3, <3>0, Zenon
    <3>2. Same(c', c) /\ c'.connect = FALSE
      BY <1>0, <3>1, FlagsSet, Zenon
    <3> QED
      BY <1>0, <2>3, <3>1, <3>2, Zenon DEF ClientInv, Same
  <2> QED
    BY <2>1, <2>2, <2>3, Zenon
<1>2. CASE QueueFunctor
  <2> DEFINE app == Append(c.pending, call)
  <2>1. c' = [c EXCEPT !.pending = app] /\ call \in {"startInLoop", "stopInLoop"} /\ call' = "none"
    BY <1>2, Zenon DEF QueueFunctor
  <2>2. /\ app \in Seq(Called)
        /\ Has(app, "startInLoop") <=> Has(c.pending, "startInLoop") \/ call = "startInLoop"
        /\ Has(app, "resetChannel") <=> Has(c.pending, "resetChannel")
        /\ Once(app, "startInLoop") /\ Once(app, "resetChannel")
    <3>1. Once(c.pending, "startInLoop") /\ Once(c.pending, "resetChannel")
          /\ (call = "startInLoop" => ~Has(c.pending, "startInLoop"))
      BY Zenon DEF ClientInv
    <3>2. CASE call = "startInLoop"
      BY <1>0, <3>1, <3>2, HasAppend, Zenon DEF Called
    <3>3. CASE call = "stopInLoop"
      BY <1>0, <3>1, <3>3, HasAppend, Zenon DEF Called
    <3> QED
      BY <2>1, <3>2, <3>3, Zenon
  <2> HIDE DEF app
  <2>3. /\ c' \in ClientType /\ c'.active = c.active /\ c'.due = c.due /\ c'.closing = c.closing
        /\ c'.connection = c.connection /\ c'.connect = c.connect /\ c'.state = c.state
        /\ c'.channel = c.channel /\ c'.timers = c.timers /\ c'.sockets = c.sockets
        /\ c'.gaveUp = c.gaveUp /\ c'.step = c.step /\ c'.fresh = c.fresh /\ c'.pending = app
    BY <1>0, <2>1, <2>2, Zenon DEF ClientType
  <2> QED
    BY <1>0, <2>1, <2>2, <2>3, Zenon DEF ClientInv
<1> QED
  BY <1>1, <1>2, Zenon DEF CallStep

LEMMA ClientRest ==
  ASSUME ConnectOnce, ClientInv, FunctorsDone \/ Disconnect \/ UNCHANGED vars
  PROVE  ClientInv'
<1>1. CASE FunctorsDone
  <2>1. /\ phase = "functors" /\ phase' = "poll" /\ batch = <<>>
        /\ UNCHANGED <<c, batch, call, connects>>
    BY <1>1, Zenon DEF FunctorsDone, userVars
  <2> QED
    BY <2>1, Zenon DEF ClientInv
<1>2. CASE Disconnect
  <2>0. c \in ClientType /\ UNCHANGED <<phase, batch, call, connects>>
    BY <1>2, Zenon DEF ClientInv, Disconnect, userVars
  <2>1. Same(c', c) /\ c'.connect = c.connect
    BY <1>2, <2>0, FlagsSet, Zenon DEF Disconnect
  <2> QED
    BY <2>0, <2>1, Zenon DEF ClientInv, Same
<1>3. CASE UNCHANGED vars
  BY <1>3, Zenon DEF vars, userVars, ClientInv
<1> QED
  BY <1>1, <1>2, <1>3, Zenon

LEMMA ClientStep == ConnectOnce /\ ClientInv /\ [Next]_vars => ClientInv'
BY ClientPoll, ClientHandles, ClientStarts, ClientCloses, ClientEventsDone, ClientRunFunctor,
   ClientConnect, ClientStop, ClientCall, ClientRest, Zenon
   DEF Next, LoopStep

LEMMA ClientCorrect ==
  ASSUME ConnectOnce
  PROVE  Spec => []ClientInv
<1>1. Init => ClientInv
  BY ClientInit, Zenon
<1>2. ClientInv /\ [Next]_vars => ClientInv'
  BY ClientStep, Zenon
<1> QED
  BY <1>1, <1>2, PTL DEF Spec

\* With one connect(), and neither connect() nor stop() called out of a handler,
\* no assert of Connector and no assert of EventLoop::removeChannel() fails,
\* however often and whenever stop() and disconnect() are called
\* (NoAssertFails of TcpClient).
THEOREM ClientAssertsHold ==
  ASSUME ConnectOnce
  PROVE  Spec => []NoAssertFails
<1>1. ClientInv => NoAssertFails
  BY Zenon DEF ClientInv, ClientType, NoAssertFails
<1> QED
  BY <1>1, ClientCorrect, PTL

\* Under the same use the connector has one socket open while it connects and
\* none otherwise, and a wanted connection is attempted, scheduled, queued or
\* about to be attempted until connect(2) fails for good (AttemptsAccounted of TcpClient).
THEOREM ClientAttemptsAccounted ==
  ASSUME ConnectOnce
  PROVE  Spec => []AttemptsAccounted
<1>1. ClientInv => AttemptsAccounted
  BY Zenon DEF ClientInv, Has, AttemptsAccounted
<1> QED
  BY <1>1, ClientCorrect, PTL
=============================================================================
