------------------------- MODULE TcpConnectionProofs ------------------------
(***************************************************************************)
(* Proofs about a TcpConnection, for any set of threads, any number and    *)
(* length of messages and whoever shuts it down: the order of its output,  *)
(* when its write side is closed, and which asserts it can fail.           *)
(***************************************************************************)
EXTENDS TcpConnection, SequenceTheorems, TLAPS

-----------------------------------------------------------------------------
(* Types *)

Cell == Sender \X Nat \X Nat

ConnState == {"kConnecting", "kConnected", "kDisconnecting", "kDisconnected"}

\* Where an assert or a call through a pointer to the server can fail.
Place == {"handleClose", "connectEstablished", "remove", "closeCallback", "removeConnectionInLoop"}

Conn ==
  [state : ConnState, reading : BOOLEAN, writing : BOOLEAN, registered : BOOLEAN,
   output : Seq(Cell), wire : Seq(Cell), fin : BOOLEAN, reset : BOOLEAN,
   accepted : Seq(Cell), failed : {None} \cup Place]

Functor ==
  {<<"connectEstablished">>, <<"connectDestroyed">>, <<"shutdownInLoop">>}
  \cup ({"sendInLoop"} \X Seq(Cell))

-----------------------------------------------------------------------------
(* The output of a connection *)

\* What every method keeps.  Data is buffered exactly while POLLOUT is asked
\* for, as long as the connection is open; after shutdownWrite() nothing is
\* buffered; and nothing has happened before connectEstablished().
ConnInv(o) ==
  /\ o \in Conn
  /\ o.wire \o o.output = o.accepted
  /\ o.reading => (o.writing <=> o.output # <<>>)
  /\ o.reading /\ o.fin => ~o.writing
  /\ o.state = "kConnecting" => ~o.reading /\ ~o.writing /\ o.output = <<>>

\* A sequence is its first n elements and the rest.
LEMMA Split ==
  ASSUME NEW S, NEW s \in Seq(S), NEW n \in 0..Len(s)
  PROVE  /\ SubSeq(s, 1, n) \in Seq(S) /\ From(s, n + 1) \in Seq(S)
         /\ SubSeq(s, 1, n) \o From(s, n + 1) = s
         /\ (From(s, n + 1) = <<>>) <=> (n = Len(s))
<1> DEFINE a == SubSeq(s, 1, n)
           b == From(s, n + 1)
<1>1. Len(s) \in Nat /\ n \in Nat
  OBVIOUS
<1>2. /\ a \in Seq(S) /\ Len(a) = n
      /\ \A i \in 1..n : a[i] = s[i]
  BY <1>1, SubSeqProperties
<1>3. /\ b \in Seq(S) /\ Len(b) = Len(s) - n
      /\ \A i \in 1..(Len(s) - n) : b[i] = s[n + i]
  BY <1>1, SubSeqProperties DEF From
<1> HIDE DEF a, b
<1>4. a \o b \in Seq(S) /\ Len(a \o b) = Len(s)
  BY <1>1, <1>2, <1>3
<1>5. ASSUME NEW i \in 1..Len(s)
      PROVE  (a \o b)[i] = s[i]
  <2>1. CASE i <= n
    <3>1. i \in 1..n
      BY <1>1, <2>1
    <3>2. (a \o b)[i] = a[i]
      BY <1>1, <1>2, <1>3, <3>1
    <3> QED
      BY <1>2, <3>1, <3>2, Zenon
  <2>2. CASE ~(i <= n)
    <3>1. i - n \in 1..(Len(s) - n)
      BY <1>1, <2>2
    <3>2. (a \o b)[i] = b[i - n]
      BY <1>1, <1>2, <1>3, <2>2, <3>1
    <3>3. b[i - n] = s[n + (i - n)]
      BY <1>3, <3>1, Zenon
    <3> QED
      BY <1>1, <3>2, <3>3
  <2> QED
    BY <2>1, <2>2, Zenon
<1>6. a \o b = s
  BY <1>4, <1>5, SeqEqual, Zenon
<1>7. (b = <<>>) <=> (n = Len(s))
  BY <1>1, <1>3, EmptySeq
<1> QED
  BY <1>2, <1>3, <1>6, <1>7, Zenon DEF a, b

\* The order is kept when the first part of some data is written and the rest is
\* buffered, if there is no first part or nothing was buffered.
Reordered(wire, output, first, rest) ==
  (wire \o first) \o (output \o rest) = (wire \o output) \o (first \o rest)

LEMMA OrderKept ==
  ASSUME NEW wire \in Seq(Cell), NEW output \in Seq(Cell),
         NEW first \in Seq(Cell), NEW rest \in Seq(Cell)
  PROVE  first = <<>> \/ output = <<>> => Reordered(wire, output, first, rest)
<1>1. (wire \o output) \o rest = wire \o (output \o rest)
  BY ConcatAssociative
<1>2. (wire \o first) \o rest = wire \o (first \o rest)
  BY ConcatAssociative
<1>3. wire \o <<>> = wire /\ <<>> \o rest = rest
  BY ConcatEmptySeq, Zenon
<1>4. first = <<>> => (wire \o first) \o (output \o rest) = (wire \o output) \o (first \o rest)
  BY <1>1, <1>3, Zenon
<1>5. output = <<>> => (wire \o first) \o (output \o rest) = (wire \o output) \o (first \o rest)
  BY <1>2, <1>3, Zenon
<1> QED
  BY <1>4, <1>5, Zenon DEF Reordered

\* The connection p is o after n cells of the data were written.
Wrote(p, o, data, n) ==
  /\ p \in Conn
  /\ p.wire = o.wire \o SubSeq(data, 1, n)
  /\ p.output = o.output \o From(data, n + 1)
  /\ p.accepted = o.accepted \o data
  /\ p.writing <=> (o.writing \/ n # Len(data))
  /\ p.state = o.state /\ p.reading = o.reading /\ p.fin = o.fin
  /\ p.failed = o.failed

LEMMA WriteSomeFields ==
  ASSUME NEW o \in Conn, NEW data \in Seq(Cell), NEW n \in 0..Len(data)
  PROVE  Wrote(WriteSome(o, data, n), o, data, n)
<1> DEFINE first == SubSeq(data, 1, n)
           rest == From(data, n + 1)
           p == WriteSome(o, data, n)
           q == [o EXCEPT !.wire = @ \o first, !.accepted = @ \o data]
<1>1. /\ first \in Seq(Cell) /\ rest \in Seq(Cell)
      /\ (rest = <<>>) <=> (n = Len(data))
  BY Split, Zenon
<1>2. p = IF rest = <<>> THEN q
          ELSE [q EXCEPT !.output = @ \o rest, !.writing = TRUE, !.registered = TRUE]
  BY Zenon DEF WriteSome, Buffered
<1> HIDE DEF first, rest, p
<1>3. /\ o.wire \in Seq(Cell) /\ o.accepted \in Seq(Cell) /\ o.output \in Seq(Cell)
      /\ o.writing \in BOOLEAN
  BY Zenon DEF Conn
<1>4. o.wire \o first \in Seq(Cell) /\ o.accepted \o data \in Seq(Cell)
  BY <1>1, <1>3, ConcatProperties, Zenon
<1>5. /\ q \in Conn
      /\ q.wire = o.wire \o first /\ q.accepted = o.accepted \o data
      /\ q.output = o.output /\ q.writing = o.writing
      /\ q.state = o.state /\ q.reading = o.reading /\ q.fin = o.fin /\ q.failed = o.failed
  BY <1>4, Zenon DEF Conn
<1> HIDE DEF q
<1>6. CASE rest = <<>>
  <2>1. p = q
    BY <1>2, <1>6, Zenon
  <2>2. o.output = o.output \o rest
    BY <1>3, <1>6, ConcatEmptySeq, Zenon
  <2>3. (p.writing <=> (o.writing \/ n # Len(data)))
    BY <1>1, <1>3, <1>5, <1>6, <2>1, Zenon
  <2> QED
    BY <1>5, <2>1, <2>2, <2>3, Zenon DEF first, rest, p, Wrote
<1>7. CASE rest # <<>>
  <2>1. p = [q EXCEPT !.output = @ \o rest, !.writing = TRUE, !.registered = TRUE]
    BY <1>2, <1>7, Zenon
  <2>2. o.output \o rest \in Seq(Cell)
    BY <1>1, <1>3, ConcatProperties, Zenon
  <2>3. /\ p \in Conn
        /\ p.wire = q.wire /\ p.accepted = q.accepted
        /\ p.output = q.output \o rest /\ p.writing = TRUE
        /\ p.state = q.state /\ p.reading = q.reading /\ p.fin = q.fin /\ p.failed = q.failed
    BY <1>5, <2>1, <2>2, Zenon DEF Conn
  <2>4. (p.writing <=> (o.writing \/ n # Len(data)))
    BY <1>1, <1>7, <2>3, Zenon
  <2> QED
    BY <1>5, <2>3, <2>4, Zenon DEF first, rest, p, Wrote
<1> QED
  BY <1>6, <1>7, Zenon

\* Writing keeps the order if older data is not overtaken.
LEMMA WriteSomeOK ==
  ASSUME NEW o, ConnInv(o), o.state # "kConnecting", ~(o.reading /\ o.fin),
         NEW data \in Seq(Cell), NEW n \in 0..Len(data),
         n = 0 \/ o.output = <<>>
  PROVE  ConnInv(WriteSome(o, data, n))
<1> DEFINE first == SubSeq(data, 1, n)
           rest == From(data, n + 1)
<1>0. PICK p : p = WriteSome(o, data, n)
  BY Zenon
<1>1. /\ first \in Seq(Cell) /\ rest \in Seq(Cell) /\ first \o rest = data
      /\ (rest = <<>>) <=> (n = Len(data))
  BY Split, Zenon
<1>2. o \in Conn
  BY Zenon DEF ConnInv
<1>3. /\ p \in Conn
      /\ p.wire = o.wire \o first
      /\ p.output = o.output \o rest
      /\ p.accepted = o.accepted \o data
      /\ (p.writing <=> (o.writing \/ n # Len(data)))
      /\ p.state = o.state /\ p.reading = o.reading /\ p.fin = o.fin
  <2>1. Wrote(p, o, data, n)
    BY <1>0, <1>2, WriteSomeFields, Zenon
  <2> QED
    BY <2>1, Zenon DEF Wrote
<1>4. n = 0 => first = <<>>
  BY <1>1, EmptySeq, SubSeqProperties, LenProperties
<1> HIDE DEF first, rest
<1>5. /\ o.wire \in Seq(Cell) /\ o.output \in Seq(Cell) /\ o.accepted \in Seq(Cell)
      /\ o.writing \in BOOLEAN /\ o.reading \in BOOLEAN /\ o.fin \in BOOLEAN
  BY <1>2, Zenon DEF Conn
<1>6. p.wire \o p.output = p.accepted
  <2>1. o.wire \o o.output = o.accepted
    BY Zenon DEF ConnInv
  <2>2. first = <<>> \/ o.output = <<>>
    BY <1>4, Zenon
  <2>3. Reordered(o.wire, o.output, first, rest)
    BY <1>1, <1>5, <2>2, OrderKept, Zenon
  <2> QED
    BY <1>1, <1>3, <2>1, <2>3, Zenon DEF Reordered
<1>7. p.reading => (p.writing <=> p.output # <<>>)
  <2>1. o.reading => (o.writing <=> o.output # <<>>)
    BY Zenon DEF ConnInv
  <2>2. (o.output \o rest = <<>>) <=> (o.output = <<>> /\ rest = <<>>)
    BY <1>1, <1>5
  <2> QED
    BY <1>1, <1>3, <2>1, <2>2, Zenon
<1>8. p.reading /\ p.fin => ~p.writing
  BY <1>3, Zenon
<1>9. p.state # "kConnecting"
  BY <1>3, Zenon
<1> QED
  BY <1>0, <1>3, <1>6, <1>7, <1>8, <1>9, Zenon DEF ConnInv

\* p is o as far as the state, the events read and the asserts are concerned.
Kept(p, o) == p.state = o.state /\ p.reading = o.reading /\ p.failed = o.failed

LEMMA SendInLoopOK ==
  ASSUME NEW o, ConnInv(o), o.state # "kConnecting",
         NEW data \in Seq(Cell), NEW p \in sendInLoop(o, data)
  PROVE  /\ ConnInv(p) /\ Kept(p, o)
         /\ o.state = "kDisconnected" => p = o
<1>0. o \in Conn /\ 0 \in 0..Len(data)
  BY LenProperties DEF ConnInv
<1>1. CASE p = o
  BY <1>1, Zenon DEF Kept
<1>2. ASSUME NEW n \in 0..Len(data), p = WriteSome(o, data, n),
             ~(o.reading /\ o.fin), n = 0 \/ o.output = <<>>
      PROVE  ConnInv(p) /\ Kept(p, o)
  <2>1. ConnInv(p)
    BY <1>2, WriteSomeOK, Zenon
  <2>2. Wrote(p, o, data, n)
    BY <1>0, <1>2, WriteSomeFields, Zenon
  <2> QED
    BY <2>1, <2>2, Zenon DEF Wrote, Kept
<1>3. CASE o.state # "kDisconnected" /\ (o.writing \/ o.output # <<>>)
  <2>1. p = WriteSome(o, data, 0)
    BY <1>3, Zenon DEF sendInLoop
  <2>2. ~(o.reading /\ o.fin)
    BY <1>3, Zenon DEF ConnInv
  <2> QED
    BY <1>0, <1>2, <1>3, <2>1, <2>2, Zenon
<1>4. CASE o.state # "kDisconnected" /\ ~(o.writing \/ o.output # <<>>)
  <2>1. CASE p # o
    <3>1. /\ ~o.fin
          /\ \E n \in 0..Len(data) : p = WriteSome(o, data, n)
      BY <1>0, <1>4, <2>1, Zenon DEF sendInLoop, Written, Broken
    <3>2. o.output = <<>>
      BY <1>4, Zenon
    <3> QED
      BY <1>2, <1>4, <3>1, <3>2, Zenon
  <2> QED
    BY <1>1, <1>4, <2>1, Zenon
<1>5. CASE o.state = "kDisconnected"
  BY <1>1, <1>5, Zenon DEF sendInLoop
<1> QED
  BY <1>3, <1>4, <1>5, Zenon

LEMMA ShutdownInLoopOK ==
  ASSUME NEW o, ConnInv(o)
  PROVE  ConnInv(shutdownInLoop(o)) /\ Kept(shutdownInLoop(o), o)
<1>1. CASE o.writing
  BY <1>1, Zenon DEF shutdownInLoop, Kept
<1>2. CASE ~o.writing
  <2> DEFINE p == [o EXCEPT !.fin = TRUE]
  <2>1. p = shutdownInLoop(o)
    BY <1>2, Zenon DEF shutdownInLoop
  <2>2. /\ p \in Conn /\ p.wire = o.wire /\ p.output = o.output /\ p.accepted = o.accepted
        /\ p.reading = o.reading /\ p.writing = o.writing /\ p.state = o.state
        /\ p.failed = o.failed
    BY Zenon DEF ConnInv, Conn
  <2> HIDE DEF p
  <2> QED
    BY <1>2, <2>1, <2>2, Zenon DEF ConnInv, Kept
<1> QED
  BY <1>1, <1>2, Zenon

\* Part of the output is written.
LEMMA DrainOK ==
  ASSUME NEW o, ConnInv(o), o.writing, NEW n \in 0..Len(o.output)
  PROVE  /\ ConnInv(Drain(o, n)) /\ Kept(Drain(o, n), o)
         /\ Drain(o, n).writing <=> n < Len(o.output)
<1> DEFINE first == SubSeq(o.output, 1, n)
           rest == From(o.output, n + 1)
           more == n < Len(o.output)
           p == [o EXCEPT !.wire = @ \o first, !.output = rest, !.writing = more]
<1>1. p = Drain(o, n)
  BY Zenon DEF Drain
<1>2. /\ o \in Conn /\ o.wire \in Seq(Cell) /\ o.output \in Seq(Cell)
      /\ Len(o.output) \in Nat /\ n \in Nat
  BY LenProperties DEF ConnInv, Conn
<1>3. /\ first \in Seq(Cell) /\ rest \in Seq(Cell) /\ first \o rest = o.output
      /\ (rest = <<>>) <=> (n = Len(o.output))
  BY <1>2, Split, Zenon
<1>m. more \in BOOLEAN /\ (more <=> n < Len(o.output))
  OBVIOUS
<1> HIDE DEF first, rest, more
<1>4. o.wire \o first \in Seq(Cell)
  BY <1>2, <1>3, ConcatProperties, Zenon
<1>5. /\ p \in Conn /\ p.wire = o.wire \o first /\ p.output = rest
      /\ p.accepted = o.accepted /\ p.writing = more
      /\ p.reading = o.reading /\ p.state = o.state /\ p.fin = o.fin /\ p.failed = o.failed
  BY <1>2, <1>3, <1>m, <1>4, Zenon DEF Conn
<1> HIDE DEF p
<1>6. (o.wire \o first) \o rest = o.wire \o (first \o rest)
  <2>1. Reordered(o.wire, <<>>, first, rest)
    BY <1>2, <1>3, OrderKept, EmptySeq, Zenon
  <2>2. <<>> \o rest = rest /\ o.wire \o <<>> = o.wire
    BY <1>2, <1>3, ConcatEmptySeq, Zenon
  <2> QED
    BY <2>1, <2>2, Zenon DEF Reordered
<1>7. p.wire \o p.output = p.accepted
  <2>1. o.wire \o o.output = o.accepted
    BY Zenon DEF ConnInv
  <2> QED
    BY <1>3, <1>5, <1>6, <2>1, Zenon
<1>8. p.reading => (p.writing <=> p.output # <<>>)
  BY <1>2, <1>3, <1>m, <1>5
<1>9. (p.reading /\ p.fin => ~p.writing) /\ p.state # "kConnecting"
  BY <1>5, Zenon DEF ConnInv
<1> QED
  BY <1>1, <1>m, <1>5, <1>7, <1>8, <1>9, Zenon DEF ConnInv, Kept

LEMMA HandleWriteOK ==
  ASSUME NEW o, ConnInv(o), o.writing, NEW p \in handleWrite(o)
  PROVE  ConnInv(p) /\ Kept(p, o)
<1>1. CASE p = o
  BY <1>1, Zenon DEF Kept
<1>2. CASE p # o
  <2>1. PICK n \in Written(o, o.output) :
          p = IF n = Len(o.output) /\ o.state = "kDisconnecting"
              THEN shutdownInLoop(Drain(o, n)) ELSE Drain(o, n)
    BY <1>2, Zenon DEF handleWrite
  <2>2. n \in 0..Len(o.output)
    BY <2>1, Zenon DEF Written
  <2>3. ConnInv(Drain(o, n)) /\ Kept(Drain(o, n), o)
    BY <2>2, DrainOK, Zenon
  <2>4. ConnInv(shutdownInLoop(Drain(o, n))) /\ Kept(shutdownInLoop(Drain(o, n)), Drain(o, n))
    BY <2>3, ShutdownInLoopOK, Zenon
  <2> QED
    BY <2>1, <2>3, <2>4, Zenon DEF Kept
<1> QED
  BY <1>1, <1>2, Zenon

LEMMA HandleCloseOK ==
  ASSUME NEW o, ConnInv(o)
  PROVE  /\ ConnInv(handleClose(o))
         /\ o.state # "kConnecting" => handleClose(o).state # "kConnecting"
<1>0. o \in Conn
  BY Zenon DEF ConnInv
<1>1. CASE o.state \notin {"kConnected", "kDisconnecting"}
  <2> DEFINE p == [o EXCEPT !.failed = "handleClose"]
  <2>1. p = handleClose(o)
    BY <1>1, Zenon DEF handleClose, Fail
  <2>2. /\ p \in Conn /\ p.wire = o.wire /\ p.output = o.output /\ p.accepted = o.accepted
        /\ p.reading = o.reading /\ p.writing = o.writing /\ p.state = o.state /\ p.fin = o.fin
    BY <1>0, Zenon DEF Conn, Place
  <2> HIDE DEF p
  <2> QED
    BY <2>1, <2>2, Zenon DEF ConnInv
<1>2. CASE o.state \in {"kConnected", "kDisconnecting"}
  <2> DEFINE p == [o EXCEPT !.state = "kDisconnected", !.reading = FALSE, !.writing = FALSE]
  <2>1. p = handleClose(o)
    BY <1>2, Zenon DEF handleClose
  <2>2. /\ p \in Conn /\ p.wire = o.wire /\ p.output = o.output /\ p.accepted = o.accepted
        /\ p.reading = FALSE /\ p.state = "kDisconnected"
    BY <1>0, Zenon DEF Conn, ConnState
  <2> HIDE DEF p
  <2> QED
    BY <2>1, <2>2, Zenon DEF ConnInv
<1> QED
  BY <1>1, <1>2, Zenon

\* A failed assert changes nothing else.
LEMMA FailOK ==
  ASSUME NEW o, ConnInv(o), NEW place \in Place
  PROVE  ConnInv(Fail(o, place)) /\ Fail(o, place).state = o.state
<1> DEFINE p == [o EXCEPT !.failed = place]
<1>1. p = Fail(o, place)
  BY Zenon DEF Fail
<1>2. /\ p \in Conn /\ p.wire = o.wire /\ p.output = o.output /\ p.accepted = o.accepted
      /\ p.reading = o.reading /\ p.writing = o.writing /\ p.state = o.state /\ p.fin = o.fin
  BY Zenon DEF ConnInv, Conn
<1> HIDE DEF p
<1> QED
  BY <1>1, <1>2, Zenon DEF ConnInv

LEMMA EstablishedOK ==
  ASSUME NEW o, ConnInv(o)
  PROVE  ConnInv(connectEstablished(o)) /\ connectEstablished(o).state # "kConnecting"
<1>1. CASE o.state # "kConnecting"
  BY <1>1, FailOK, Zenon DEF connectEstablished, Place
<1>2. CASE o.state = "kConnecting"
  <2> DEFINE p == [o EXCEPT !.state = "kConnected", !.reading = TRUE, !.registered = TRUE]
  <2>1. p = connectEstablished(o)
    BY <1>2, Zenon DEF connectEstablished
  <2>2. /\ p \in Conn /\ p.wire = o.wire /\ p.output = o.output /\ p.accepted = o.accepted
        /\ p.reading = TRUE /\ p.writing = o.writing /\ p.state = "kConnected" /\ p.fin = o.fin
    BY Zenon DEF ConnInv, Conn, ConnState
  <2>3. o.output = <<>> /\ ~o.writing
    BY <1>2, Zenon DEF ConnInv
  <2> HIDE DEF p
  <2> QED
    BY <2>1, <2>2, <2>3, Zenon DEF ConnInv
<1> QED
  BY <1>1, <1>2, Zenon

LEMMA DestroyedOK ==
  ASSUME NEW o, ConnInv(o)
  PROVE  /\ ConnInv(connectDestroyed(o))
         /\ o.state # "kConnecting" => connectDestroyed(o).state # "kConnecting"
<1> DEFINE off == IF o.state = "kConnected"
                  THEN [o EXCEPT !.state = "kDisconnected", !.reading = FALSE, !.writing = FALSE]
                  ELSE o
           p == [off EXCEPT !.registered = FALSE]
<1>1. connectDestroyed(o) = IF off.reading \/ off.writing THEN Fail(off, "remove") ELSE p
  BY Zenon DEF connectDestroyed
<1>2. ConnInv(off) /\ (o.state # "kConnecting" => off.state # "kConnecting")
  <2>1. CASE o.state = "kConnected"
    <3>1. off = [o EXCEPT !.state = "kDisconnected", !.reading = FALSE, !.writing = FALSE]
      BY <2>1, Zenon
    <3> HIDE DEF off
    <3>2. /\ off \in Conn /\ off.wire = o.wire /\ off.output = o.output
          /\ off.accepted = o.accepted /\ off.reading = FALSE /\ off.state = "kDisconnected"
      BY <3>1, Zenon DEF ConnInv, Conn, ConnState
    <3> QED
      BY <3>2, Zenon DEF ConnInv
  <2>2. CASE o.state # "kConnected"
    BY <2>2, Zenon
  <2> QED
    BY <2>1, <2>2, Zenon
<1> HIDE DEF off
<1>3. /\ p \in Conn /\ p.wire = off.wire /\ p.output = off.output /\ p.accepted = off.accepted
      /\ p.reading = off.reading /\ p.writing = off.writing /\ p.state = off.state
      /\ p.fin = off.fin
  BY <1>2, Zenon DEF ConnInv, Conn
<1> HIDE DEF p
<1>4. ConnInv(p) /\ (o.state # "kConnecting" => p.state # "kConnecting")
  BY <1>2, <1>3, Zenon DEF ConnInv
<1>5. ConnInv(Fail(off, "remove")) /\ Fail(off, "remove").state = off.state
  BY <1>2, FailOK, Zenon DEF Place
<1> QED
  BY <1>1, <1>2, <1>4, <1>5, Zenon
-----------------------------------------------------------------------------
(* The output of a connection is in order and complete before the FIN *)

\* The inductive invariant.  connectEstablished() is the first functor that
\* runs, so that nothing is sent before it.
OutputInv ==
  /\ ConnInv(k)
  /\ ioLoop \in Seq(Functor)
  /\ count \in [Sender -> Nat]
  /\ k.state = "kConnecting" => ioLoop # <<>> /\ Head(ioLoop) = <<"connectEstablished">>

LEMMA MessageType ==
  ASSUME NEW s \in Sender, count \in [Sender -> Nat]
  PROVE  Message(s) \in Seq(Cell)
<1>1. MsgLen \in Nat
  BY TcpConnectionAssumption, Zenon
<1>2. \A i \in 1..MsgLen : <<s, count[s] + 1, i>> \in Cell
  BY <1>1 DEF Cell
<1> QED
  BY <1>1, <1>2 DEF Message

\* A functor runs when connectEstablished() has, or is it.
LEMMA FunctorOK ==
  ASSUME OutputInv, NEW f \in Functor,
         k.state = "kConnecting" => f = <<"connectEstablished">>,
         NEW p, p \in CASE f[1] = "connectEstablished" -> {connectEstablished(k)}
                        [] f[1] = "connectDestroyed"   -> {connectDestroyed(k)}
                        [] f[1] = "shutdownInLoop"     -> {shutdownInLoop(k)}
                        [] f[1] = "sendInLoop"         -> sendInLoop(k, f[2])
  PROVE  ConnInv(p) /\ p.state # "kConnecting"
<1>0. ConnInv(k)
  BY Zenon DEF OutputInv
<1>1. CASE f = <<"connectEstablished">>
  BY <1>0, <1>1, EstablishedOK, Zenon
<1>2. CASE f = <<"connectDestroyed">> /\ k.state # "kConnecting"
  BY <1>0, <1>2, DestroyedOK, Zenon
<1>3. CASE f = <<"shutdownInLoop">> /\ k.state # "kConnecting"
  BY <1>0, <1>3, ShutdownInLoopOK, Zenon DEF Kept
<1>4. CASE f \in {"sendInLoop"} \X Seq(Cell) /\ k.state # "kConnecting"
  <2>1. f[1] = "sendInLoop" /\ f[2] \in Seq(Cell)
    BY <1>4, Zenon
  <2>2. p \in sendInLoop(k, f[2])
    BY <2>1, Zenon
  <2> QED
    BY <1>0, <1>4, <2>1, <2>2, SendInLoopOK, Zenon DEF Kept
<1>5. f # <<"connectEstablished">> => k.state # "kConnecting"
  BY Zenon
<1> QED
  BY <1>1, <1>2, <1>3, <1>4, <1>5, Zenon DEF Functor

LEMMA OutputInit == Init => OutputInv
<1> SUFFICES ASSUME Init PROVE OutputInv
  BY Zenon
<1>1. <<>> \in Seq(Cell) /\ <<>> \o <<>> = <<>>
  BY EmptySeq, ConcatEmptySeq, Zenon
<1>2. k \in Conn
  BY <1>1, Zenon DEF Init, Conn, ConnState
<1>3. ConnInv(k)
  BY <1>1, <1>2, Zenon DEF Init, ConnInv
<1>4. /\ ioLoop \in Seq(Functor) /\ ioLoop # <<>>
      /\ Head(ioLoop) = <<"connectEstablished">>
  BY DEF Init, Functor
<1>5. count \in [Sender -> Nat]
  BY Zenon DEF Init
<1> QED
  BY <1>3, <1>4, <1>5, Zenon DEF OutputInv

LEMMA OutputStep == OutputInv /\ [Next]_vars => OutputInv'
<1> SUFFICES ASSUME OutputInv, [Next]_vars PROVE OutputInv'
  BY Zenon
<1>0. /\ ConnInv(k) /\ k \in Conn /\ ioLoop \in Seq(Functor) /\ count \in [Sender -> Nat]
      /\ k.state = "kConnecting" => ioLoop # <<>> /\ Head(ioLoop) = <<"connectEstablished">>
  BY Zenon DEF OutputInv, ConnInv
<1>a. ASSUME NEW f \in Functor, ioLoop' = Append(ioLoop, f)
      PROVE  /\ ioLoop' \in Seq(Functor)
             /\ ioLoop # <<>> => ioLoop' # <<>> /\ Head(ioLoop') = Head(ioLoop)
  BY <1>0, <1>a, AppendProperties, HeadTailAppend
<1>b. ASSUME ConnInv(k'), ioLoop' \in Seq(Functor), count' \in [Sender -> Nat],
             k'.state # "kConnecting"
      PROVE  OutputInv'
  BY <1>b, Zenon DEF OutputInv, ConnInv
<1>c. ASSUME UNCHANGED <<k, count>>, NEW f \in Functor, ioLoop' = Append(ioLoop, f)
      PROVE  OutputInv'
  BY <1>0, <1>a, <1>c, Zenon DEF OutputInv, ConnInv
<1>1. CASE RunFunctor
  <2> DEFINE f == Head(ioLoop)
  <2>1. f \in Functor /\ Tail(ioLoop) \in Seq(Functor)
    BY <1>0, <1>1, HeadTailProperties, Zenon DEF RunFunctor
  <2>2. ConnInv(k') /\ k'.state # "kConnecting"
    BY <1>0, <1>1, <2>1, FunctorOK, Zenon DEF RunFunctor
  <2> QED
    BY <1>0, <1>1, <1>b, <2>1, <2>2, Zenon DEF RunFunctor
<1>2. CASE HandleWrite
  <2>1. ConnInv(k') /\ Kept(k', k)
    BY <1>0, <1>2, HandleWriteOK, Zenon DEF HandleWrite
  <2>2. k.state # "kConnecting"
    BY <1>0, <1>2, Zenon DEF HandleWrite, ConnInv
  <2> QED
    BY <1>0, <1>2, <1>b, <2>1, <2>2, Zenon DEF HandleWrite, Kept
<1>3. CASE HandleMessage
  <2>0. k.state = "kConnected"
    BY <1>3, Zenon DEF HandleMessage
  <2>1. CASE k' \in sendInLoop(k, Message("loop"))
             /\ count' = [count EXCEPT !["loop"] = @ + 1]
    <3>1. Message("loop") \in Seq(Cell)
      BY <1>0, MessageType, Zenon DEF Sender
    <3>2. ConnInv(k') /\ Kept(k', k)
      BY <1>0, <2>0, <2>1, <3>1, SendInLoopOK, Zenon
    <3>3. count' \in [Sender -> Nat]
      BY <1>0, <2>1 DEF Sender
    <3> QED
      BY <1>0, <1>3, <1>b, <2>0, <3>2, <3>3, Zenon DEF HandleMessage, Kept
  <2>2. CASE k' = shutdownInLoop([k EXCEPT !.state = "kDisconnecting"]) /\ UNCHANGED count
    <3> DEFINE p == [k EXCEPT !.state = "kDisconnecting"]
    <3>1. /\ p \in Conn /\ p.wire = k.wire /\ p.output = k.output /\ p.accepted = k.accepted
          /\ p.reading = k.reading /\ p.writing = k.writing /\ p.fin = k.fin
          /\ p.state = "kDisconnecting"
      BY <1>0, Zenon DEF Conn, ConnState
    <3> HIDE DEF p
    <3>2. ConnInv(p)
      BY <1>0, <3>1, Zenon DEF ConnInv
    <3>3. ConnInv(k') /\ k'.state = "kDisconnecting"
      BY <2>2, <3>1, <3>2, ShutdownInLoopOK, Zenon DEF p, Kept
    <3> QED
      BY <1>0, <1>3, <1>b, <2>2, <3>3, Zenon DEF HandleMessage
  <2> QED
    BY <1>3, <2>1, <2>2, Zenon DEF HandleMessage
<1>4. CASE HandleClose
  <2>1. k.state # "kConnecting"
    BY <1>0, <1>4, Zenon DEF HandleClose, ConnInv
  <2>2. ConnInv(handleClose(k)) /\ handleClose(k).state # "kConnecting"
    BY <1>0, <2>1, HandleCloseOK, Zenon
  <2>3. ConnInv(k') /\ k'.state # "kConnecting"
    BY <1>4, <2>2, FailOK, Zenon DEF HandleClose, Place
  <2> QED
    BY <1>0, <1>4, <1>b, <2>3, Zenon DEF HandleClose
<1>5. CASE RemoveConnectionInLoop
  <2>1. CASE server /\ inMap
    <3>1. <<"connectDestroyed">> \in Functor
      BY Zenon DEF Functor
    <3> QED
      BY <1>5, <1>c, <2>1, <3>1, Zenon DEF RemoveConnectionInLoop
  <2>2. CASE ~(server /\ inMap)
    <3>1. ConnInv(k') /\ k'.state = k.state /\ UNCHANGED <<ioLoop, count>>
      BY <1>0, <1>5, <2>2, FailOK, Zenon DEF RemoveConnectionInLoop, Place
    <3> QED
      BY <1>0, <3>1, Zenon DEF OutputInv, ConnInv
  <2> QED
    BY <2>1, <2>2, Zenon
<1>6. CASE DestroyServer
  <2>1. CASE inMap
    <3>1. <<"connectDestroyed">> \in Functor
      BY Zenon DEF Functor
    <3> QED
      BY <1>6, <1>c, <2>1, <3>1, Zenon DEF DestroyServer
  <2>2. CASE ~inMap
    BY <1>0, <1>6, <2>2, Zenon DEF DestroyServer, OutputInv, ConnInv
  <2> QED
    BY <2>1, <2>2, Zenon
<1>7. CASE PeerReset
  <2> DEFINE p == [k EXCEPT !.reset = TRUE]
  <2>1. /\ p \in Conn /\ p.wire = k.wire /\ p.output = k.output /\ p.accepted = k.accepted
        /\ p.reading = k.reading /\ p.writing = k.writing /\ p.fin = k.fin /\ p.state = k.state
    BY <1>0, Zenon DEF Conn
  <2>2. k' = p /\ UNCHANGED <<ioLoop, count>>
    BY <1>7, Zenon DEF PeerReset
  <2> HIDE DEF p
  <2>3. ConnInv(p)
    BY <1>0, <2>1, Zenon DEF ConnInv
  <2> QED
    BY <1>0, <2>1, <2>2, <2>3, Zenon DEF OutputInv, ConnInv
<1>8. ASSUME NEW t \in Thread, Send(t) \/ Shutdown(t)
      PROVE  OutputInv'
  BY <1>0, <1>8, Zenon DEF Send, Shutdown, OutputInv, ConnInv
<1>9. ASSUME NEW t \in Thread, QueueSend(t)
      PROVE  OutputInv'
  <2>1. <<"sendInLoop", Message(t)>> \in Functor
    BY <1>0, MessageType, Zenon DEF Sender, Functor
  <2>2. count' \in [Sender -> Nat]
    BY <1>0, <1>9 DEF QueueSend, Sender
  <2>3. /\ ioLoop' \in Seq(Functor)
        /\ ioLoop # <<>> => ioLoop' # <<>> /\ Head(ioLoop') = Head(ioLoop)
    BY <1>9, <1>a, <2>1, Zenon DEF QueueSend
  <2>4. UNCHANGED k
    BY <1>9, Zenon DEF QueueSend
  <2> QED
    BY <1>0, <2>2, <2>3, <2>4, Zenon DEF OutputInv, ConnInv
<1>10. ASSUME NEW t \in Thread, QueueShutdown(t)
       PROVE  OutputInv'
  <2> DEFINE p == [k EXCEPT !.state = "kDisconnecting"]
  <2>1. /\ p \in Conn /\ p.wire = k.wire /\ p.output = k.output /\ p.accepted = k.accepted
        /\ p.reading = k.reading /\ p.writing = k.writing /\ p.fin = k.fin
        /\ p.state = "kDisconnecting"
    BY <1>0, Zenon DEF Conn, ConnState
  <2>2. k' = p /\ UNCHANGED count
    BY <1>10, Zenon DEF QueueShutdown
  <2> HIDE DEF p
  <2>3. ConnInv(p)
    BY <1>0, <2>1, Zenon DEF ConnInv
  <2>4. ioLoop' \in Seq(Functor)
    BY <1>10, <1>a, Zenon DEF QueueShutdown, Functor
  <2> QED
    BY <1>0, <1>b, <2>1, <2>2, <2>3, <2>4, Zenon
<1>11. CASE UNCHANGED vars
  BY <1>0, <1>11, Zenon DEF vars, OutputInv, ConnInv
<1> QED
  BY <1>1, <1>2, <1>3, <1>4, <1>5, <1>6, <1>7, <1>8, <1>9, <1>10, <1>11, Zenon DEF Next

\* What a TcpConnection wrote and what it holds in outputBuffer_ are what was
\* sent, in this order, however write() splits it (OutputInOrder).
THEOREM OutputOrdered == Spec => []OutputInOrder
<1>1. OutputInv => OutputInOrder
  BY Zenon DEF OutputInv, ConnInv, OutputInOrder
<1> QED
  BY <1>1, OutputInit, OutputStep, PTL DEF Spec

\* The write side of an open connection is closed only when the output buffer is
\* empty, whoever called shutdown() and whenever (FinAfterOutput).
THEOREM FinComesLast == Spec => []FinAfterOutput
<1>1. OutputInv => FinAfterOutput
  BY Zenon DEF OutputInv, ConnInv, Conn, FinAfterOutput
<1> QED
  BY <1>1, OutputInit, OutputStep, PTL DEF Spec
-----------------------------------------------------------------------------
(* The asserts of a connection that only its own loop shuts down *)

\* The functors connectEstablished() and connectDestroyed() are queued where
\* their asserts hold; a closed connection has no event enabled; and until it is
\* closed it is in connections_ and nothing of it is queued with the server.
CloseInv ==
  /\ OutputInv /\ server = TRUE /\ k.failed = None
  /\ threadPc \in [Thread -> {"idle", "send"}]
  /\ \A i \in 1..Len(ioLoop) : ioLoop[i] = <<"connectEstablished">> => i = 1 /\ k.state = "kConnecting"
  /\ \A i \in 1..Len(ioLoop) : ioLoop[i] = <<"connectDestroyed">> => k.state = "kDisconnected"
  /\ k.state = "kDisconnected" => ~k.reading /\ ~k.writing
  /\ k.state # "kDisconnected" => inMap /\ baseLoop = <<>>
  /\ baseLoop # <<>> => inMap /\ baseLoop = <<"removeConnectionInLoop">>

\* Another functor than the two is queued.
LEMMA QueueKeeps ==
  ASSUME OutputInv, CloseInv, NEW f \in Functor, f # <<"connectEstablished">>,
         f = <<"connectDestroyed">> => k.state = "kDisconnected",
         NEW q, q = Append(ioLoop, f)
  PROVE  /\ \A i \in 1..Len(q) : q[i] = <<"connectEstablished">> => i = 1 /\ k.state = "kConnecting"
         /\ \A i \in 1..Len(q) : q[i] = <<"connectDestroyed">> => k.state = "kDisconnected"
<1>1. /\ ioLoop \in Seq(Functor) /\ Len(ioLoop) \in Nat
      /\ Len(q) = Len(ioLoop) + 1 /\ q[Len(ioLoop) + 1] = f
      /\ \A i \in 1..Len(ioLoop) : q[i] = ioLoop[i]
  BY AppendProperties, LenProperties DEF OutputInv
<1>2. \A i \in 1..Len(ioLoop) : ioLoop[i] = <<"connectEstablished">> => i = 1 /\ k.state = "kConnecting"
  BY Zenon DEF CloseInv
<1>3. \A i \in 1..Len(ioLoop) : ioLoop[i] = <<"connectDestroyed">> => k.state = "kDisconnected"
  BY Zenon DEF CloseInv
<1>4. ASSUME NEW i \in 1..Len(q)
      PROVE  q[i] = f \/ (i \in 1..Len(ioLoop) /\ q[i] = ioLoop[i])
  BY <1>1
<1> QED
  BY <1>2, <1>3, <1>4, Zenon

LEMMA CloseStep ==
  ASSUME "thread" \notin ShutdownFrom, ~MayDestroy
  PROVE  OutputInv' /\ CloseInv /\ [Next]_vars => CloseInv'
<1> SUFFICES ASSUME OutputInv', CloseInv, [Next]_vars PROVE CloseInv'
  BY Zenon
<1> DEFINE Queued(q, s) ==
             /\ \A i \in 1..Len(q) : q[i] = <<"connectEstablished">> => i = 1 /\ s = "kConnecting"
             /\ \A i \in 1..Len(q) : q[i] = <<"connectDestroyed">> => s = "kDisconnected"
<1>0. /\ OutputInv /\ ConnInv(k) /\ k \in Conn /\ ioLoop \in Seq(Functor)
      /\ server = TRUE /\ k.failed = None
      /\ threadPc \in [Thread -> {"idle", "send"}]
      /\ Queued(ioLoop, k.state)
      /\ k.state = "kDisconnected" => ~k.reading /\ ~k.writing
      /\ k.state # "kDisconnected" => inMap /\ baseLoop = <<>>
      /\ baseLoop # <<>> => inMap /\ baseLoop = <<"removeConnectionInLoop">>
      /\ k.reading => k.state \in {"kConnected", "kDisconnecting"}
  BY Zenon DEF CloseInv, OutputInv, ConnInv, Conn, ConnState
<1>a. ASSUME UNCHANGED <<ioLoop, baseLoop, inMap, server, threadPc>>, Kept(k', k),
             k.state # "kDisconnected"
      PROVE  CloseInv'
  BY <1>0, <1>a, Zenon DEF CloseInv, Kept
<1>1. CASE RunFunctor
  <2> DEFINE f == Head(ioLoop)
  <2>1. /\ ioLoop # <<>> /\ ioLoop' = Tail(ioLoop) /\ f \in Functor /\ f = ioLoop[1]
        /\ Len(Tail(ioLoop)) = Len(ioLoop) - 1 /\ Len(ioLoop) \in Nat \ {0}
        /\ \A i \in 1..Len(Tail(ioLoop)) : Tail(ioLoop)[i] = ioLoop[i + 1]
        /\ UNCHANGED <<baseLoop, inMap, server, threadPc>>
    BY <1>0, <1>1, HeadTailProperties, EmptySeq DEF RunFunctor
  <2>2. \A i \in 1..Len(ioLoop') : ioLoop'[i] # <<"connectEstablished">>
    BY <1>0, <2>1
  <2>3. \A i \in 1..Len(ioLoop') : ioLoop'[i] = <<"connectDestroyed">> => k.state = "kDisconnected"
    BY <1>0, <2>1
  <2>4. f = <<"connectEstablished">> => k.state = "kConnecting"
    BY <1>0, <2>1
  <2>5. f = <<"connectDestroyed">> => k.state = "kDisconnected"
    BY <1>0, <2>1
  <2>6. k.state = "kConnecting" => f = <<"connectEstablished">>
    BY <1>0, Zenon DEF OutputInv
  <2> HIDE DEF f
  <2>7. CASE f = <<"connectEstablished">>
    <3>1. k' = [k EXCEPT !.state = "kConnected", !.reading = TRUE, !.registered = TRUE]
      BY <1>1, <2>4, <2>7 DEF RunFunctor, connectEstablished, f
    <3>2. k'.state = "kConnected" /\ k'.failed = None
      BY <1>0, <3>1, Zenon DEF Conn
    <3>3. \A i \in 1..Len(ioLoop') : ioLoop'[i] # <<"connectDestroyed">>
      BY <2>3, <2>4, <2>7, Zenon
    <3> QED
      BY <1>0, <2>1, <2>2, <2>4, <2>7, <3>2, <3>3, Zenon DEF CloseInv
  <2>8. CASE f = <<"connectDestroyed">>
    <3>1. k' = [k EXCEPT !.registered = FALSE]
      BY <1>0, <1>1, <2>5, <2>8 DEF RunFunctor, connectDestroyed, f
    <3>2. k'.state = k.state /\ k'.failed = None /\ k'.reading = k.reading /\ k'.writing = k.writing
      BY <1>0, <3>1, Zenon DEF Conn
    <3> QED
      BY <1>0, <2>1, <2>2, <2>3, <2>5, <2>8, <3>2, Zenon DEF CloseInv
  <2>9. CASE f = <<"shutdownInLoop">>
    <3>1. k' = shutdownInLoop(k)
      BY <1>1, <2>9 DEF RunFunctor, f
    <3>2. Kept(k', k)
      BY <1>0, <3>1, ShutdownInLoopOK, Zenon
    <3>3. k'.writing = k.writing
      BY <1>0, <3>1, Zenon DEF shutdownInLoop, Conn
    <3> QED
      BY <1>0, <2>1, <2>2, <2>3, <3>2, <3>3, Zenon DEF CloseInv, Kept
  <2>10. CASE f \in {"sendInLoop"} \X Seq(Cell)
    <3>1. k' \in sendInLoop(k, f[2]) /\ f[2] \in Seq(Cell)
      BY <1>1, <2>10, Zenon DEF RunFunctor, f
    <3>2. k.state # "kConnecting"
      BY <2>6, <2>10
    <3>3. Kept(k', k) /\ (k.state = "kDisconnected" => k' = k)
      BY <1>0, <3>1, <3>2, SendInLoopOK
    <3> QED
      BY <1>0, <2>1, <2>2, <2>3, <3>3, Zenon DEF CloseInv, Kept
  <2> QED
    BY <2>1, <2>7, <2>8, <2>9, <2>10, Zenon DEF Functor
<1>2. CASE HandleWrite
  <2>1. Kept(k', k)
    BY <1>0, <1>2, HandleWriteOK, Zenon DEF HandleWrite
  <2> QED
    BY <1>0, <1>2, <1>a, <2>1, Zenon DEF HandleWrite
<1>3. CASE HandleMessage
  <2>0. k.state = "kConnected"
    BY <1>3, Zenon DEF HandleMessage
  <2>1. CASE k' \in sendInLoop(k, Message("loop"))
    <3>1. Message("loop") \in Seq(Cell)
      BY <1>0, MessageType, Zenon DEF Sender, OutputInv
    <3>2. Kept(k', k)
      BY <1>0, <2>0, <2>1, <3>1, SendInLoopOK, Zenon
    <3> QED
      BY <1>3, <1>a, <2>0, <3>2, Zenon DEF HandleMessage
  <2>2. CASE k' = shutdownInLoop([k EXCEPT !.state = "kDisconnecting"])
    <3>1. k'.state = "kDisconnecting" /\ k'.failed = None
      BY <1>0, <2>2, Zenon DEF shutdownInLoop, Conn
    <3>2. Queued(ioLoop, "kDisconnecting")
      BY <1>0, <2>0, Zenon
    <3> QED
      BY <1>0, <1>3, <2>0, <3>1, <3>2, Zenon DEF HandleMessage, CloseInv
  <2> QED
    BY <1>3, <2>1, <2>2, Zenon DEF HandleMessage
<1>4. CASE HandleClose
  <2>1. k.state \in {"kConnected", "kDisconnecting"} /\ k.state # "kDisconnected"
    BY <1>0, <1>4, Zenon DEF HandleClose
  <2>2. k' = [k EXCEPT !.state = "kDisconnected", !.reading = FALSE, !.writing = FALSE]
    BY <1>0, <1>4, <2>1, Zenon DEF HandleClose, handleClose
  <2>3. k'.state = "kDisconnected" /\ ~k'.reading /\ ~k'.writing /\ k'.failed = None
    BY <1>0, <2>2, Zenon DEF Conn
  <2>4. baseLoop' = <<"removeConnectionInLoop">> /\ UNCHANGED <<ioLoop, inMap, server, threadPc>>
    <3>1. baseLoop = <<>> /\ baseLoop' = Append(baseLoop, "removeConnectionInLoop")
      BY <1>0, <1>4, <2>1, Zenon DEF HandleClose
    <3>2. Append(<<>>, "removeConnectionInLoop") = <<"removeConnectionInLoop">>
      OBVIOUS
    <3> QED
      BY <1>4, <3>1, <3>2, Zenon DEF HandleClose
  <2>5. Queued(ioLoop, "kDisconnected")
    BY <1>0, <2>1, Zenon
  <2> QED
    BY <1>0, <2>1, <2>3, <2>4, <2>5, Zenon DEF CloseInv
<1>5. CASE RemoveConnectionInLoop
  <2>1. inMap /\ baseLoop = <<"removeConnectionInLoop">> /\ k.state = "kDisconnected"
    BY <1>0, <1>5, Zenon DEF RemoveConnectionInLoop
  <2>2. /\ ioLoop' = Append(ioLoop, <<"connectDestroyed">>) /\ UNCHANGED <<k, server, threadPc>>
        /\ baseLoop' = <<>>
    BY <1>0, <1>5, <2>1 DEF RemoveConnectionInLoop
  <2>3. Queued(ioLoop', k.state)
    BY <1>0, <2>1, <2>2, QueueKeeps, Zenon DEF Functor
  <2> QED
    BY <1>0, <2>1, <2>2, <2>3, Zenon DEF CloseInv
<1>6. CASE DestroyServer
  BY <1>6, Zenon DEF DestroyServer
<1>7. CASE PeerReset
  <2>1. Kept(k', k) /\ k'.writing = k.writing
    BY <1>0, <1>7, Zenon DEF PeerReset, Kept, Conn
  <2> QED
    BY <1>0, <1>7, <2>1, Zenon DEF PeerReset, CloseInv, Kept
<1>8. ASSUME NEW t \in Thread, Send(t)
      PROVE  CloseInv'
  BY <1>0, <1>8, Zenon DEF Send, CloseInv
<1>9. ASSUME NEW t \in Thread, QueueSend(t)
      PROVE  CloseInv'
  <2> DEFINE f == <<"sendInLoop", Message(t)>>
  <2>1. f \in Functor /\ f # <<"connectEstablished">> /\ f # <<"connectDestroyed">>
    BY <1>0, MessageType, Zenon DEF Sender, Functor, OutputInv
  <2>2. ioLoop' = Append(ioLoop, f) /\ UNCHANGED <<k, baseLoop, inMap, server>>
    BY <1>9, Zenon DEF QueueSend
  <2>3. threadPc' \in [Thread -> {"idle", "send"}]
    BY <1>0, <1>9, Zenon DEF QueueSend
  <2> HIDE DEF f
  <2>4. Queued(ioLoop', k.state)
    BY <1>0, <2>1, <2>2, QueueKeeps, Zenon
  <2> QED
    BY <1>0, <2>2, <2>3, <2>4, Zenon DEF CloseInv
<1>10. ASSUME NEW t \in Thread, Shutdown(t) \/ QueueShutdown(t)
       PROVE  CloseInv'
  BY <1>0, <1>10, Zenon DEF Shutdown, QueueShutdown
<1>11. CASE UNCHANGED vars
  BY <1>0, <1>11, Zenon DEF vars, CloseInv
<1> QED
  BY <1>1, <1>2, <1>3, <1>4, <1>5, <1>6, <1>7, <1>8, <1>9, <1>10, <1>11, Zenon DEF Next

\* If shutdown() is only called on the loop of the connection and the TcpServer
\* outlives it, no assert of the connection fails: the channel that
\* connectDestroyed() removes has no event enabled (RemovesDisabledChannel).
\* A shutdown() of another thread, which the run tcpconnection_race allows, is
\* therefore what the failure it finds comes from.
THEOREM LoopShutdownSafe ==
  ASSUME "thread" \notin ShutdownFrom, ~MayDestroy
  PROVE  Spec => [](Alive /\ RemovesDisabledChannel)
<1>1. Init => CloseInv
  BY OutputInit DEF Init, CloseInv
<1>2. OutputInv' /\ CloseInv /\ [Next]_vars => CloseInv'
  BY CloseStep, Zenon
<1>3. CloseInv => Alive /\ RemovesDisabledChannel
  BY TcpConnectionAssumption, Zenon DEF CloseInv, Alive, RemovesDisabledChannel
<1> QED
  BY <1>1, <1>2, <1>3, OutputInit, OutputStep, PTL DEF Spec
=============================================================================
