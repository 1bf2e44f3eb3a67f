---------------------------- MODULE AsyncLogFile ----------------------------
(***************************************************************************)
(* The thread of AsyncLogging with the LogFile it writes to: threadFunc()  *)
(* constructs it, appends the buffers it has taken one after the other,    *)
(* while the clock goes on or is set, and flushes it before it waits.      *)
(***************************************************************************)
EXTENDS AsyncLogging, SequencesExt

CONSTANTS MaxTime, RollSize, CheckTimeRoll, RollPerTime, FlushInterval
CONSTANT MaxClockChanges   \* bound on the changes of the clock

ASSUME AsyncLogFileAssumption ==
  /\ {MaxTime, RollSize, CheckTimeRoll, FlushInterval, MaxClockChanges} \subseteq Nat
  /\ MaxTime > 0 /\ RollPerTime \in Nat \ {0}

VARIABLES
  now, disk, buffered, writtenBytes, count, lastRoll, lastFlush, startOfPeriod, lost,
  appended,    \* how many of the buffers to write have been appended
  clockChanges

output == INSTANCE LogFile

fileVars == <<disk, buffered, writtenBytes, count, lastRoll, lastFlush, startOfPeriod, lost>>
allVars == <<loggingVars, fileVars, now, appended, clockChanges>>

notice == 0    \* the line that says that messages were dropped

\* What threadFunc() appends to the LogFile: the notice and the buffers kept.
ToAppend == IF Len(toWrite) > DropAbove THEN <<<<notice>>>> \o Kept ELSE Kept

FileInit == LoggingInit /\ output!Init /\ appended = 0 /\ clockChanges = 0

\* Steps that do not touch the LogFile.
Aside ==
  /\ Start \/ Started \/ Stop \/ JoinThread \/ AppendLine \/ Lock \/ Wake
  /\ UNCHANGED <<fileVars, now, appended, clockChanges>>

\* The clock changes; what matters is what it shows when the thread reads it next.
SetClock ==
  /\ funcPc = "begin" \/ (funcPc = "write" /\ appended < Len(ToAppend))
  /\ clockChanges < MaxClockChanges /\ clockChanges' = clockChanges + 1
  /\ \E t \in output!Time \ {now} : output!SetClock(t)
  /\ UNCHANGED <<loggingVars, fileVars, appended>>

\* The latch is counted down and the LogFile constructed.
BeginFile == Begin /\ output!Construct /\ UNCHANGED <<now, appended, clockChanges>>

\* The LogFile is flushed when the loop ends.
LoopFile ==
  /\ LoopTop
  /\ IF running THEN UNCHANGED fileVars ELSE output!flush
  /\ UNCHANGED <<now, appended, clockChanges>>

\* output.append() of the next buffer; at most one write fails in the model.
AppendBuffer ==
  /\ funcPc = "write" /\ appended < Len(ToAppend)
  /\ LET buffer == ToAppend[appended + 1] IN
       \E k \in IF lost = {} THEN 0 .. Len(buffer) ELSE {Len(buffer)} : output!append(buffer, k)
  /\ appended' = appended + 1
  /\ UNCHANGED <<loggingVars, now, clockChanges>>

\* The buffers are recycled, and the LogFile is flushed.
WriteFile ==
  /\ appended = Len(ToAppend) /\ appended' = 0
  /\ Write /\ output!flush
  /\ UNCHANGED <<now, clockChanges>>

FileThread == BeginFile \/ LoopFile \/ AppendBuffer \/ WriteFile

FileNext == Aside \/ SetClock \/ FileThread

\* The threads run, and a timed wait ends.
FileSpec ==
  /\ FileInit /\ [][FileNext]_allVars
  /\ WF_allVars(FileThread \/ (Aside /\ (Lock \/ Wake)))
  /\ WF_allVars(Aside /\ (Start \/ Started \/ JoinThread))
-----------------------------------------------------------------------------
(* Properties *)

\* Reading the log files in the order of their names, and then what waits in the
\* buffers, gives the lines in the order of append(), each once: while buffers are
\* exchanged, however often the file is rolled within a second and wherever the
\* clock is set, because rollFile() goes on with the open file until the clock is
\* past its name.  Only dropped lines and those of a failed write are missing.
FilesInOrder ==
  LET waiting == FlattenSeq(SubSeq(ToAppend, appended + 1, Len(ToAppend)))
                   \o FlattenSeq(Dropped) \o FlattenSeq(buffers) \o currentBuffer
  IN SelectSeq(output!AllLines \o waiting, LAMBDA i : i # notice)
       = SelectSeq([i \in 1 .. lines |-> i], LAMBDA i : i \notin dropped \cup lost)

\* A line that has been appended gets out of the buffers and of stdio into a file,
\* or is dropped or lost in a failed write, unless stop() is called; and stop()
\* returns, although its notify() may come before the thread waits.  It says so of
\* all lines at once: their number only grows, up to its bound.
LinesOnDisk ==
  mainPc \in {"started", "join"} ~>
    \/ mainPc = "stopped"
    \/ /\ mainPc = "started"
       /\ \A i \in 1 .. lines : i \in dropped \cup lost \/ \E t \in output!Time : i \in ToSet(disk[t])
=============================================================================
