------------------------------- MODULE Logger -------------------------------
(***************************************************************************)
(* A log statement (utils/Logging.h, .cpp, LogStream.h, .cpp): a Logger    *)
(* writes the time, the thread, the level and what is inserted into the    *)
(* fixed buffer of its LogStream, and its destructor hands the line to     *)
(* g_output.  The statements are those of one thread, which keeps the text *)
(* of the last second.                                                     *)
(*                                                                         *)
(* A line is a sequence of pieces [what, text, len]: only numbers have     *)
(* their characters as text, other pieces are told apart by "what".  An    *)
(* insertion that finds too little room leaves nothing.                    *)
(***************************************************************************)
EXTENDS Integers, Sequences

CONSTANTS
  SIZE,            \* of the buffer, 4000 in the code
  kMaxNumericSize, \* 32
  Integer,         \* integers that are inserted, of 32 bits
  Pointer,         \* and pointers
  TextLen,         \* lengths of the texts
  DoubleLen,       \* and of doubles as printed with "%.12g"
  MaxItems,        \* bound on the insertions of a statement
  MaxSecond,       \* the clock shows seconds up to it
  None

Level == <<"TRACE", "DEBUG", "INFO", "WARN", "ERROR", "FATAL">>
Rank(l) == CHOOSE i \in 1 .. 6 : Level[i] = l

VARIABLES
  logLevel,     \* g_logLevel
  second,       \* the clock
  lastSecond,   \* t_lastSecond ...
  timeText,     \* ... and the second shown in t_time
  statement,    \* None, or the level and time of the Logger, and its insertions
  pieces, cur,  \* the content of the buffer, and cur_
  top,          \* the end of what was ever written to the buffer, with '\0'
  output,       \* the last line given to g_output, with its statement
  aborted

stream == <<pieces, cur, top>>
vars == <<logLevel, second, lastSecond, timeText, statement, stream, output, aborted>>
-----------------------------------------------------------------------------
(* LogStream *)

\* C division, which cuts off towards zero.
Quot(a, b) == IF a < 0 /\ a % b # 0 THEN (a \div b) + 1 ELSE a \div b

Minus == -1   \* the character '-' among the digits

\* The characters of "9876543210123456789" + 9 at a remainder.
zero(lsd) == IF lsd < 0 THEN -lsd ELSE lsd

\* convert(): the digits from the last, then the sign, and all of it reversed.
convert(value) ==
  LET digits[n \in 0 .. 10] == IF n = 0 THEN value ELSE Quot(digits[n - 1], 10)
      count == CHOOSE n \in 1 .. 10 : digits[n] = 0 /\ \A m \in 1 .. n - 1 : digits[m] # 0
      text == [i \in 1 .. count |-> zero(digits[count - i] - 10 * digits[count - i + 1])]
  IN IF value < 0 THEN <<Minus>> \o text ELSE text

\* convertHex()
convertHex(value) ==
  LET digits[n \in 0 .. 8] == IF n = 0 THEN value ELSE digits[n - 1] \div 16
      count == CHOOSE n \in 1 .. 8 : digits[n] = 0 /\ \A m \in 1 .. n - 1 : digits[m] # 0
  IN [i \in 1 .. count |-> digits[count - i] % 16]

Piece(what, len) == [what |-> what, text |-> <<>>, len |-> len]
IntPiece(v) == [what |-> <<"int", v>>, text |-> convert(v), len |-> Len(convert(v))]
PointerPiece(v) == [what |-> <<"pointer", v>>, text |-> convertHex(v), len |-> 2 + Len(convertHex(v))]
NumericPiece(p) == p.what[1] \in {"int", "pointer", "double"}

\* FixedBuffer::append() wants more room than the text, which has no '\0' ...
AppendFits(p, at) == ~NumericPiece(p) /\ SIZE - at > p.len
\* ... and the numbers want kMaxNumericSize, whatever their length.
FormatFits(p, at) == NumericPiece(p) /\ SIZE - at >= kMaxNumericSize

\* The buffer b = [pieces, cur, top] after the insertion of p.
Insert(b, p) ==
  IF AppendFits(p, b.cur) \/ FormatFits(p, b.cur)
  THEN LET end == b.cur + p.len
           written == IF NumericPiece(p) THEN end + 1 ELSE end
       IN [pieces |-> Append(b.pieces, p), cur |-> end, top |-> IF written > b.top THEN written ELSE b.top]
  ELSE b

InsertAll(b, ps) ==
  LET after[n \in 0 .. Len(ps)] == IF n = 0 THEN b ELSE Insert(after[n - 1], ps[n]) IN after[Len(ps)]

Stream == [pieces |-> pieces, cur |-> cur, top |-> top]
Set(b) == pieces' = b.pieces /\ cur' = b.cur /\ top' = b.top
-----------------------------------------------------------------------------
(* Logger *)

\* initLogLevel(), from the environment.
Init ==
  /\ logLevel \in {"TRACE", "DEBUG", "INFO"}
  /\ second = 1 /\ lastSecond = 0 /\ timeText = 0
  /\ statement = None /\ pieces = <<>> /\ cur = 0 /\ top = 0
  /\ output = None /\ aborted = FALSE

Empty == [pieces |-> <<>>, cur |-> 0, top |-> 0]

\* The last line, and the buffer of its Logger, are gone.
Forget == Set(Empty) /\ output' = None

\* The time passes, or the clock is set.
SetClock ==
  /\ statement = None /\ ~aborted
  /\ \E s \in 1 .. MaxSecond : second' = s
  /\ Forget
  /\ UNCHANGED <<logLevel, lastSecond, timeText, statement, aborted>>

\* setLogLevel()
SetLogLevel ==
  /\ statement = None /\ ~aborted
  /\ \E i \in 1 .. 6 : logLevel' = Level[i]
  /\ Forget
  /\ UNCHANGED <<second, lastSecond, timeText, statement, aborted>>

\* The conditions in LOG_TRACE, LOG_DEBUG and LOG_INFO.
Enabled(l) == l \in {"TRACE", "DEBUG", "INFO"} => Rank(logLevel) <= Rank(l)

\* Mutant: the text is made again only when the clock has gone on.
NewSecondLater == second > lastSecond

NewSecond == second # lastSecond

\* formatTime(): the text of the second is made again when it has changed.
formatTime ==
  /\ lastSecond' = IF NewSecond THEN second ELSE lastSecond
  /\ timeText' = IF NewSecond THEN second ELSE timeText

\* What the constructors insert: time, microseconds, thread, level and the text of
\* errno (LOG_SYSERR, LOG_SYSFATAL) or the function (LOG_TRACE, LOG_DEBUG).
Prefix(l, errno, text) ==
  <<Piece(<<"time", text>>, 17), Piece(<<"microseconds", 0>>, 9), Piece(<<"tid", 0>>, 6), Piece(<<"level", l>>, 6)>>
    \o (IF errno # 0 THEN <<Piece(<<"strerror", 0>>, 8), Piece(<<"errno=", 0>>, 8), IntPiece(errno), Piece(<<") ", 0>>, 2)>>
        ELSE <<>>)
    \o (IF l \in {"TRACE", "DEBUG"} THEN <<Piece(<<"func", 0>>, 4), Piece(<<"char", 0>>, 1)>> ELSE <<>>)

\* finish()
Suffix == <<Piece(<<" - ", 0>>, 3), Piece(<<"basename", 0>>, 5), Piece(<<":", 0>>, 1), IntPiece(42), Piece(<<"newline", 0>>, 1)>>

\* A log statement whose level is enabled constructs a Logger.
Construct(l, errno) ==
  /\ statement = None /\ ~aborted /\ Enabled(l)
  /\ errno # 0 => l \in {"ERROR", "FATAL"}
  /\ formatTime
  /\ statement' = [level |-> l, time |-> second, asked |-> Prefix(l, errno, second)]
  /\ Set(InsertAll(Empty, Prefix(l, errno, timeText')))
  /\ output' = None
  /\ UNCHANGED <<logLevel, second, aborted>>

Items ==
  {IntPiece(v) : v \in Integer} \cup {PointerPiece(v) : v \in Pointer}
    \cup {Piece(<<"double", n>>, n) : n \in DoubleLen} \cup {Piece(<<"text", n>>, n) : n \in TextLen}

\* operator<<()
InsertItem(p) ==
  /\ statement # None
  /\ Len(statement.asked) < MaxItems + Len(Prefix(statement.level, 0, 0))
  /\ statement' = [statement EXCEPT !.asked = Append(@, p)]
  /\ Set(Insert(Stream, p))
  /\ UNCHANGED <<logLevel, second, lastSecond, timeText, output, aborted>>

\* ~Logger(): finish(), g_output(), and the end of the program for FATAL.
Destroy ==
  /\ statement # None
  /\ LET b == InsertAll(Stream, Suffix) IN
       /\ Set(b)
       /\ output' = [asked |-> statement.asked \o Suffix, line |-> b.pieces]
  /\ aborted' = (statement.level = "FATAL")
  /\ statement' = None
  /\ UNCHANGED <<logLevel, second, lastSecond, timeText>>

Next ==
  \/ SetClock \/ SetLogLevel \/ Destroy
  \/ \E i \in 1 .. 6, errno \in {0, 4} : Construct(Level[i], errno)
  \/ \E p \in Items : InsertItem(p)
-----------------------------------------------------------------------------
(* Properties *)

\* The number that the characters of a piece show.
Value(text, radix) ==
  LET value[n \in 0 .. Len(text)] == IF n = 0 THEN 0 ELSE radix * value[n - 1] + text[n] IN value[Len(text)]
NegativeValue(text) ==
  LET value[n \in 1 .. Len(text)] == IF n = 1 THEN 0 ELSE 10 * value[n - 1] - text[n] IN value[Len(text)]

Length(ps) == LET sum[n \in 0 .. Len(ps)] == IF n = 0 THEN 0 ELSE sum[n - 1] + ps[n].len IN sum[Len(ps)]

\* What was written can be found in what was asked for, in order.
IsPartOf(ps, qs) ==
  LET at[n \in 0 .. Len(ps)] ==
        IF n = 0 THEN 0
        ELSE LET later == {k \in at[n - 1] + 1 .. Len(qs) : qs[k] = ps[n]}
             IN IF later = {} THEN Len(qs) ELSE CHOOSE k \in later : \A j \in later : k <= j
  IN \A n \in 1 .. Len(ps) : at[n] > at[n - 1] /\ qs[at[n]] = ps[n]

\* A log line is what was inserted: the buffer is never left, '\0' included, the
\* time is that of the statement wherever the clock has been set to, a number reads
\* as its value down to the smallest, pieces are written whole and in order, and
\* none is missing from a line that ends before the last kMaxNumericSize bytes.
LinesExact ==
  /\ cur < SIZE /\ top <= SIZE
  /\ \A i \in 1 .. Len(pieces) :
       LET p == pieces[i] IN
       /\ p.what[1] = "int" => p.what[2] = IF p.text[1] = Minus THEN NegativeValue(p.text) ELSE Value(p.text, 10)
       /\ p.what[1] = "pointer" => p.what[2] = Value(p.text, 16)
  /\ output # None =>
       /\ IsPartOf(output.line, output.asked)
       /\ Length(output.asked) + kMaxNumericSize <= SIZE => output.line = output.asked
=============================================================================
