------------------------------- MODULE Buffer -------------------------------
(***************************************************************************)
(* The buffer of a connection (port/Buffer.h, port/Buffer.cpp): a vector   *)
(* of bytes with a read index and a write index.  Retrieving moves the     *)
(* read index, appending the write index; when there is no room at the end *)
(* the content is moved to the front or the vector grows, and the bytes    *)
(* outside the content keep what they had.                                 *)
(*                                                                         *)
(* The vector is a function on 0..(size - 1).  A failed assert stores its  *)
(* place in "failed" and ends the program.                                 *)
(***************************************************************************)
EXTENDS Integers, Sequences

CONSTANTS
  kCheapPrepend, kInitialSize,
  Byte,       \* what is written
  Zero, EOL,  \* the byte of new memory, and '\n'
  MaxLen,     \* bound on the length of one call
  MaxSize,    \* bound on the size of the vector
  Starts,     \* offsets from which users search for a line end
  None

ASSUME BufferAssumption ==
  /\ kCheapPrepend \in Nat /\ kInitialSize \in Nat
  /\ MaxLen \in Nat /\ MaxSize \in Nat /\ Starts \subseteq Nat
  /\ Zero \in Byte /\ EOL \in Byte

VARIABLES
  mem, size,                \* buffer_
  readerIndex, writerIndex,
  failed                    \* the assert that failed

vars == <<mem, size, readerIndex, writerIndex, failed>>

Data == UNION {[1..n -> Byte \ {Zero}] : n \in 0..MaxLen}

BufferInit ==
  /\ size = kCheapPrepend + kInitialSize
  /\ mem = [i \in 0..(size - 1) |-> Zero]
  /\ readerIndex = kCheapPrepend /\ writerIndex = kCheapPrepend
  /\ failed = None

readableBytes == writerIndex - readerIndex
writableBytes == size - writerIndex

Fail(place) == failed' = place /\ UNCHANGED <<mem, size, readerIndex, writerIndex>>

\* data is copied to the position "at" of the n bytes of m.
Copied(m, n, at, data) ==
  [i \in 0..(n - 1) |-> IF i \in at..(at + Len(data) - 1) THEN data[i - at + 1] ELSE m[i]]

\* The vector m resized to n bytes.
Resized(m, n) == [i \in 0..(n - 1) |-> IF i < size THEN m[i] ELSE Zero]

\* The bytes of m from readerIndex up to w moved to kCheapPrepend.
Moved(m, w) ==
  [i \in 0..(size - 1) |->
     IF i \in kCheapPrepend..(kCheapPrepend + w - readerIndex - 1)
     THEN m[i - kCheapPrepend + readerIndex] ELSE m[i]]
-----------------------------------------------------------------------------
(* append() of data to the memory m with write index w. *)

AppendFits(m, w, data) ==
  /\ size - w >= Len(data)
  /\ mem' = Copied(m, size, w, data)
  /\ writerIndex' = w + Len(data)
  /\ UNCHANGED <<size, readerIndex, failed>>

\* makeSpace() resizes the vector.
AppendGrows(m, w, data) ==
  /\ size - w < Len(data) /\ size - w + readerIndex < Len(data) + kCheapPrepend
  /\ size' = w + Len(data)
  /\ mem' = Copied(Resized(m, w + Len(data)), w + Len(data), w, data)
  /\ writerIndex' = w + Len(data)
  /\ UNCHANGED <<readerIndex, failed>>

\* Mutant: the content is not copied.
AppendMovesIndexes(m, w, data) ==
  /\ size - w < Len(data) /\ size - w + readerIndex >= Len(data) + kCheapPrepend
  /\ mem' = Copied(m, size, kCheapPrepend + w - readerIndex, data)
  /\ readerIndex' = kCheapPrepend
  /\ writerIndex' = kCheapPrepend + w - readerIndex + Len(data)
  /\ UNCHANGED <<size, failed>>

\* makeSpace() moves the content to the front.
AppendMoves(m, w, data) ==
  /\ size - w < Len(data) /\ size - w + readerIndex >= Len(data) + kCheapPrepend
  /\ IF kCheapPrepend < readerIndex
     THEN /\ mem' = Copied(Moved(m, w), size, kCheapPrepend + w - readerIndex, data)
          /\ readerIndex' = kCheapPrepend
          /\ writerIndex' = kCheapPrepend + w - readerIndex + Len(data)
          /\ UNCHANGED <<size, failed>>
     ELSE Fail("makeSpace")

AppendTo(m, w, data) ==
  AppendFits(m, w, data) \/ AppendGrows(m, w, data) \/ AppendMoves(m, w, data)
-----------------------------------------------------------------------------
(* Operations *)

AppendData(data) == AppendTo(mem, writerIndex, data)

\* readFd(): readv() fills the room at the end and then extrabuf, and the part
\* in extrabuf is appended to the full vector.
ReadFd(data) ==
  \/ AppendFits(mem, writerIndex, data)
  \/ /\ writableBytes < Len(data)
     /\ AppendTo(Copied(mem, size, writerIndex, SubSeq(data, 1, writableBytes)), size,
                 SubSeq(data, writableBytes + 1, Len(data)))

\* retrieve(), and retrieveAll() when nothing is left.
Retrieved(n) ==
  /\ IF n < readableBytes
     THEN readerIndex' = readerIndex + n /\ UNCHANGED writerIndex
     ELSE readerIndex' = kCheapPrepend /\ writerIndex' = kCheapPrepend
  /\ UNCHANGED <<mem, size, failed>>

Retrieve(n) == n <= readableBytes /\ Retrieved(n)

\* prepend()
Prepend(data) ==
  /\ Len(data) <= readerIndex
  /\ readerIndex' = readerIndex - Len(data)
  /\ mem' = Copied(mem, size, readerIndex - Len(data), data)
  /\ UNCHANGED <<size, writerIndex, failed>>

\* shrink(): the content is appended to a new buffer with some room.
Shrink(reserve) ==
  LET need == readableBytes + reserve
      new  == kCheapPrepend + (IF kInitialSize < need THEN need ELSE kInitialSize)
  IN /\ size' = new
     /\ mem' = [i \in 0..(new - 1) |->
                  IF i \in kCheapPrepend..(kCheapPrepend + readableBytes - 1)
                  THEN mem[i - kCheapPrepend + readerIndex] ELSE Zero]
     /\ readerIndex' = kCheapPrepend /\ writerIndex' = kCheapPrepend + readableBytes
     /\ UNCHANGED failed

\* findEOL(start): memchr() looks at readableBytes() bytes from start on; a byte
\* after the vector is not an EOL here.
Found(start) ==
  {p \in start..(start + readableBytes - 1) :
     /\ p < size /\ mem[p] = EOL
     /\ \A q \in start..(p - 1) : mem[q] # EOL}

\* A user takes a line: findEOL(start) and retrieveUntil() of the byte after it.
RetrieveLine(offset) ==
  /\ offset <= readableBytes
  /\ \E p \in Found(readerIndex + offset) :
       IF p + 1 <= writerIndex THEN Retrieved(p + 1 - readerIndex) ELSE Fail("retrieveUntil")
-----------------------------------------------------------------------------
Room(n) == writerIndex + n <= MaxSize

BufferNext ==
  /\ failed = None
  /\ \/ \E data \in Data : Room(Len(data)) /\ (AppendData(data) \/ ReadFd(data))
     \/ \E data \in Data : Prepend(data)
     \/ \E n \in 0..MaxSize : Retrieve(n)
     \/ \E reserve \in 0..MaxLen : kCheapPrepend + readableBytes + reserve <= MaxSize /\ Shrink(reserve)
     \/ \E offset \in Starts : RetrieveLine(offset)

BufferSpec == BufferInit /\ [][BufferNext]_vars
-----------------------------------------------------------------------------
(* Properties *)

\* What is between the indexes is the queue of the bytes that were added and
\* not yet taken, through every move and every growth.
Content == [i \in 1..readableBytes |-> mem[readerIndex + i - 1]]
Queue == INSTANCE ByteQueue WITH content <- Content
IsByteQueue == Queue!Spec
=============================================================================
