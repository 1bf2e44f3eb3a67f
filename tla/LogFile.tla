------------------------------ MODULE LogFile ------------------------------
(***************************************************************************)
(* LogFile (utils/LogFile.cpp), without its optional mutex: a log file is  *)
(* named by the second it was opened in, and the next one is opened when   *)
(* the file has grown past RollSize or, looked at now and then, when a new *)
(* period has begun.  The clock is the wall clock and may be set.          *)
(*                                                                         *)
(* The argument of append() is a sequence of lines; a line stands for a    *)
(* unit of size.  Lines that stdio writes before it is told to flush are   *)
(* not told apart from those it keeps, because nothing ends the process.   *)
(***************************************************************************)
EXTENDS Integers, Sequences, SequencesExt

CONSTANTS
  MaxTime,       \* the clock shows 1 .. MaxTime
  RollSize,      \* rollSize_
  CheckTimeRoll, \* kCheckTimeRoll_, 1024 in the code
  RollPerTime,   \* kRollPerSeconds_, the seconds of a day
  FlushInterval  \* flushInterval_

VARIABLES
  now,           \* the wall clock
  disk,          \* the log files: name -> lines
  buffered,      \* the lines in the stdio buffer of the open file
  writtenBytes,  \* writtenBytes_ of the open file
  count,         \* count_
  lastRoll,      \* lastRoll_, which names the open file
  lastFlush,     \* lastFlush_
  startOfPeriod, \* startOfPeriod_
  lost           \* the lines that could not be written

rollVars == <<lastRoll, lastFlush, startOfPeriod>>
fileVars == <<disk, buffered, writtenBytes, count, rollVars, lost>>

Time == 1 .. MaxTime
PeriodOf(t) == (t \div RollPerTime) * RollPerTime

\* The members as the constructor sets them, before its rollFile().
Init ==
  /\ now = 1 /\ disk = [t \in 0 .. MaxTime |-> <<>>] /\ buffered = <<>>
  /\ writtenBytes = 0 /\ count = 0
  /\ lastRoll = 0 /\ lastFlush = 0 /\ startOfPeriod = 0 /\ lost = {}

\* The time passes, or the clock is set.
SetClock(t) == now' = t

\* Mutant: a file is opened whatever the clock shows.
rollFileAlways(lines, bytes) ==
  /\ lastRoll' = now /\ lastFlush' = now /\ startOfPeriod' = PeriodOf(now)
  /\ disk' = [disk EXCEPT ![lastRoll] = @ \o lines]
  /\ buffered' = <<>> /\ writtenBytes' = 0

\* rollFile(), called with these lines and bytes in the open file, which is
\* closed; nothing happens until the clock is past the name of that file.
rollFile(lines, bytes) ==
  IF now > lastRoll
  THEN /\ lastRoll' = now /\ lastFlush' = now /\ startOfPeriod' = PeriodOf(now)
       /\ disk' = [disk EXCEPT ![lastRoll] = @ \o lines]
       /\ buffered' = <<>> /\ writtenBytes' = 0
  ELSE /\ buffered' = lines /\ writtenBytes' = bytes
       /\ UNCHANGED <<rollVars, disk>>

\* LogFile(): the first file is opened.
Construct == rollFile(<<>>, 0) /\ UNCHANGED <<count, lost>>

\* File::append(): fwrite_unlocked() until all lines are in the file or it fails
\* after k of them.
FileAppend(lines, k) == buffered \o SubSeq(lines, 1, k)

\* append(): append_unlocked() decides after the write whether to roll or to
\* flush.
append(lines, k) ==
  LET content == FileAppend(lines, k)
      bytes == writtenBytes + Len(lines)
      kept == buffered' = content /\ writtenBytes' = bytes /\ UNCHANGED disk
  IN
  /\ lost' = lost \cup ToSet(SubSeq(lines, k + 1, Len(lines)))
  /\ \/ /\ bytes > RollSize
        /\ rollFile(content, bytes) /\ UNCHANGED count
     \/ /\ bytes <= RollSize /\ count > CheckTimeRoll /\ count' = 0
        /\ \/ PeriodOf(now) # startOfPeriod /\ rollFile(content, bytes)
           \/ /\ PeriodOf(now) = startOfPeriod /\ now - lastFlush > FlushInterval
              /\ lastFlush' = now
              /\ disk' = [disk EXCEPT ![lastRoll] = @ \o content]
              /\ buffered' = <<>> /\ writtenBytes' = bytes
              /\ UNCHANGED <<lastRoll, startOfPeriod>>
           \/ /\ PeriodOf(now) = startOfPeriod /\ now - lastFlush <= FlushInterval
              /\ kept /\ UNCHANGED rollVars
     \/ /\ bytes <= RollSize /\ count <= CheckTimeRoll /\ count' = count + 1
        /\ kept /\ UNCHANGED rollVars

\* flush()
flush ==
  /\ disk' = [disk EXCEPT ![lastRoll] = @ \o buffered] /\ buffered' = <<>>
  /\ UNCHANGED <<writtenBytes, count, rollVars, lost>>

\* The lines of the file of time t, and those of all files read by their names.
FileLines(t) == IF t = lastRoll THEN disk[t] \o buffered ELSE disk[t]
AllLines == FlattenSeq([t \in Time |-> FileLines(t)])
=============================================================================
