---------------------------- MODULE AsyncLogging ----------------------------
(***************************************************************************)
(* AsyncLogging (utils/AsyncLogging.h, .cpp): the threads of the program   *)
(* append log lines to a current buffer under mutex_, and the logging      *)
(* thread takes the filled buffers away, writes them to the LogFile and    *)
(* recycles two of them.  The code never writes the lines it drops when    *)
(* more than 25 buffers have piled up, nor those still in the current      *)
(* buffer when stop() ends the thread.                                     *)
(*                                                                         *)
(* The lines are numbered in the order in which append() got the mutex.    *)
(***************************************************************************)
EXTENDS Naturals, Sequences

CONSTANTS
  MaxLines,    \* bound on the number of lines
  BufferLines, \* the lines that fit into a buffer
  DropAbove,   \* 25 in the code
  NoLine       \* no assert has failed

ASSUME AsyncLoggingAssumption ==
  /\ MaxLines \in Nat /\ BufferLines \in Nat \ {0}
  /\ DropAbove \in Nat /\ DropAbove >= 2

VARIABLES
  running,       \* running_
  mainPc,        \* the thread that calls start() and stop()
  funcPc,        \* threadFunc()
  currentBuffer, \* currentBuffer_, its lines
  nextBuffer,    \* whether nextBuffer_ is there; it is empty
  buffers,       \* buffers_, the filled buffers
  new1, new2,    \* whether newBuffer1 and newBuffer2 are there; they are empty
  toWrite,       \* buffersToWrite
  lines,         \* the number of lines appended
  dropped,       \* the lines dropped
  failedLine     \* the line of an assert that failed, or NoLine

shared == <<currentBuffer, nextBuffer, buffers>>
private == <<new1, new2, toWrite, dropped, failedLine>>
loggingVars == <<running, mainPc, funcPc, shared, private, lines>>

LoggingInit ==
  /\ running = FALSE /\ mainPc = "start" /\ funcPc = "created"
  /\ currentBuffer = <<>> /\ nextBuffer = TRUE /\ buffers = <<>>
  /\ new1 = TRUE /\ new2 = TRUE /\ toWrite = <<>>
  /\ lines = 0 /\ dropped = {} /\ failedLine = NoLine
-----------------------------------------------------------------------------
(* start(), stop() and append() *)

\* start(): running_ is set, the thread started.
Start ==
  /\ mainPc = "start" /\ mainPc' = "latch" /\ running' = TRUE /\ funcPc' = "begin"
  /\ UNCHANGED <<shared, private, lines>>

\* start() returns when the thread has counted latch_ down.
Started ==
  /\ mainPc = "latch" /\ funcPc # "begin" /\ mainPc' = "started"
  /\ UNCHANGED <<running, funcPc, shared, private, lines>>

\* stop(): running_ is cleared without the mutex.  The notify() that follows may
\* come before the thread waits and then has no effect.
Stop ==
  /\ mainPc = "started" /\ mainPc' = "join" /\ running' = FALSE
  /\ UNCHANGED <<funcPc, shared, private, lines>>

JoinThread ==
  /\ mainPc = "join" /\ funcPc = "end" /\ mainPc' = "stopped"
  /\ UNCHANGED <<running, funcPc, shared, private, lines>>

\* append(), by any thread.
AppendLine ==
  /\ lines < MaxLines /\ lines' = lines + 1
  /\ IF Len(currentBuffer) < BufferLines
     THEN currentBuffer' = Append(currentBuffer, lines + 1) /\ UNCHANGED <<nextBuffer, buffers>>
     ELSE /\ buffers' = Append(buffers, currentBuffer)
          /\ currentBuffer' = <<lines + 1>>
          /\ nextBuffer' = FALSE
  /\ UNCHANGED <<running, mainPc, funcPc, private>>
-----------------------------------------------------------------------------
(* threadFunc() *)

Begin ==
  /\ funcPc = "begin" /\ funcPc' = "loop"
  /\ UNCHANGED <<running, mainPc, shared, private, lines>>

\* while (running_), and the asserts at the top of its body.
LoopTop ==
  /\ funcPc = "loop"
  /\ funcPc' = IF running THEN "lock" ELSE "end"
  /\ failedLine' = IF ~ running THEN failedLine
                   ELSE IF ~ new1 THEN 65 ELSE IF ~ new2 THEN 66
                   ELSE IF toWrite # <<>> THEN 67 ELSE failedLine
  /\ UNCHANGED <<running, mainPc, shared, new1, new2, toWrite, dropped, lines>>

\* Mutant: nextBuffer_ is replaced even if it is there.
TakeAlways ==
  /\ toWrite' = Append(buffers, currentBuffer) /\ buffers' = <<>>
  /\ currentBuffer' = <<>> /\ new1' = FALSE
  /\ nextBuffer' = TRUE /\ new2' = FALSE
  /\ funcPc' = "write"
  /\ UNCHANGED <<running, mainPc, dropped, failedLine, lines>>

\* The buffers are taken away under the mutex: newBuffer1 becomes the current one,
\* newBuffer2 the next one if that has been used.
Take ==
  /\ toWrite' = Append(buffers, currentBuffer) /\ buffers' = <<>>
  /\ currentBuffer' = <<>> /\ new1' = FALSE
  /\ nextBuffer' = (nextBuffer \/ new2) /\ new2' = (new2 /\ nextBuffer)
  /\ funcPc' = "write"
  /\ UNCHANGED <<running, mainPc, dropped, failedLine, lines>>

\* The thread gets the mutex and waits if there is no filled buffer.
Lock ==
  /\ funcPc = "lock"
  /\ \/ buffers # <<>> /\ Take
     \/ /\ buffers = <<>> /\ funcPc' = "waiting"
        /\ UNCHANGED <<running, mainPc, shared, private, lines>>

\* Mutant: the wait has no timeout and ends for a filled buffer only.
WakeFilled == funcPc = "waiting" /\ buffers # <<>> /\ Take

\* waitForSeconds() returns, notified or after flushInterval_ seconds.
Wake == funcPc = "waiting" /\ Take

\* More than DropAbove buffers are cut to the first two.
Kept == IF Len(toWrite) > DropAbove THEN SubSeq(toWrite, 1, 2) ELSE toWrite
Dropped == IF Len(toWrite) > DropAbove THEN SubSeq(toWrite, 3, Len(toWrite)) ELSE <<>>

\* The buffers are written and reset, and up to two of them are kept for
\* newBuffer1 and newBuffer2.
Write ==
  LET kept == Kept
      spare == IF Len(kept) > 2 THEN 2 ELSE Len(kept)
      need1 == IF new1 THEN 0 ELSE 1
  IN /\ funcPc = "write" /\ funcPc' = "loop"
     /\ dropped' = dropped \cup UNION {{Dropped[i][k] : k \in DOMAIN Dropped[i]} : i \in DOMAIN Dropped}
     /\ failedLine' = IF toWrite = <<>> THEN 86
                      ELSE IF ~ new1 /\ spare = 0 THEN 110
                      ELSE IF ~ new2 /\ spare - need1 = 0 THEN 117 ELSE failedLine
     /\ new1' = TRUE /\ new2' = TRUE /\ toWrite' = <<>>
     /\ UNCHANGED <<running, mainPc, shared, lines>>

LoggingThread == Begin \/ LoopTop \/ Lock \/ Wake \/ Write

LoggingNext == Start \/ Started \/ Stop \/ JoinThread \/ AppendLine \/ LoggingThread

LoggingSpec == LoggingInit /\ [][LoggingNext]_loggingVars
-----------------------------------------------------------------------------
(* Properties *)

\* The asserts of threadFunc() (lines 65, 66, 67, 86, 110, 117) hold: whenever
\* newBuffer2 has been given away, append() has filled a buffer that replaces it.
NoAssertFails == failedLine = NoLine

=============================================================================
