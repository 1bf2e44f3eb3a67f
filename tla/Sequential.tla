----------------------------- MODULE Sequential -----------------------------
(***************************************************************************)
(* The components that a single thread uses and that share no state: the   *)
(* Buffer of a connection, the Codecs, the Calendar and the Logger of a    *)
(* thread.  Which of them a behaviour is about is chosen at its start; the *)
(* others keep their initial state or are None.                            *)
(***************************************************************************)
EXTENDS Buffer

CONSTANTS
  Id, Raw, Time, Name, Precision, Window,
  HurtTime, LengthByte, Stack, UtcOffset,                        \* of Codecs
  Year, Second,                                              \* of Calendar
  SIZE, kMaxNumericSize, Integer, Pointer, TextLen,
  DoubleLen, MaxItems, MaxSecond                             \* of Logger

ASSUME SequentialAssumption ==
  /\ Id \subseteq 0 .. 255 /\ Raw \subseteq 0 .. 65535 /\ Window \in Nat
  /\ HurtTime \subseteq Time /\ LengthByte \subseteq 0 .. 255
  /\ Stack # {} /\ Stack \subseteq [1 .. 8 -> 0 .. 255] /\ UtcOffset \in -43200 .. 50400
  /\ \A t \in Time : Len(t) = 6 /\ t[1] \in 2000 .. 2099
  /\ Year \subseteq Nat /\ Second \subseteq 0 .. 86399
  /\ {SIZE, kMaxNumericSize, MaxItems, MaxSecond} \subseteq Nat
  /\ TextLen \subseteq Nat /\ DoubleLen \subseteq 1 .. kMaxNumericSize - 1

VARIABLES
  part,                                                  \* the component
  config, made, parsed,                                  \* of Codecs
  date, days, yday,                                      \* of Calendar
  logLevel, second, lastSecond, timeText, statement,
  pieces, cur, top, output, aborted                      \* of Logger

codecVars == <<config, made, parsed>>
calendarVars == <<date, days, yday>>
loggerVars == <<logLevel, second, lastSecond, timeText, statement, pieces, cur, top, output, aborted>>

Codec == INSTANCE Codecs
Cal == INSTANCE Calendar
Log == INSTANCE Logger

Unused(used) ==
  /\ used # "codecs" => config = None /\ made = None /\ parsed = None
  /\ used # "calendar" => date = None /\ days = None /\ yday = None
  /\ used # "logger" =>
       /\ logLevel = None /\ second = None /\ lastSecond = None /\ timeText = None /\ statement = None
       /\ pieces = None /\ cur = None /\ top = None /\ output = None /\ aborted = None

PartsInit ==
  /\ BufferInit
  /\ \/ part = "buffer" /\ Unused("buffer")
     \/ part = "codecs" /\ Codec!Init /\ Unused("codecs")
     \/ part = "calendar" /\ Cal!Init /\ Unused("calendar")
     \/ part = "logger" /\ Log!Init /\ Unused("logger")

PartsNext ==
  \/ part = "buffer" /\ BufferNext /\ UNCHANGED <<part, codecVars, calendarVars, loggerVars>>
  \/ part = "codecs" /\ Codec!Next /\ UNCHANGED <<part, vars, calendarVars, loggerVars>>
  \/ part = "calendar" /\ Cal!Next /\ UNCHANGED <<part, vars, codecVars, loggerVars>>
  \/ part = "logger" /\ Log!Next /\ UNCHANGED <<part, vars, codecVars, calendarVars>>

PartsSpec == PartsInit /\ [][PartsNext]_<<part, vars, codecVars, calendarVars, loggerVars>>
-----------------------------------------------------------------------------
(* Properties *)

\* The commands of the codecs carry the CRC-16 of Modbus; the parsers accept
\* complete answers and decode what the device measured, within 32 bits of time and
\* as far as the length byte covers it; they refuse parts of answers and damaged ones.
CodecsExact == part = "codecs" => Codec!CodecsExact

\* Date and the UTC conversions of TimeZone agree with the Gregorian calendar.
CalendarExact == part = "calendar" => Cal!CalendarExact

\* A log line is what was inserted, within its buffer.
LinesExact == part = "logger" => Log!LinesExact
=============================================================================
