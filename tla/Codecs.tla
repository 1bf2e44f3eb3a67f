------------------------------- MODULE Codecs -------------------------------
(***************************************************************************)
(* The codecs MMXN and ZSAR (protocols/MMXN/CodecMMXN.cpp,                 *)
(* protocols/ZSAR/CodecZSAR.cpp) and the CRC of crc.h they share: commands *)
(* for a monitor unit and the parser of its answers, as functions on       *)
(* sequences of bytes, and an instance of a codec that is configured,      *)
(* asked for commands and given answers, one call at a time.               *)
(*                                                                         *)
(* The device is outside: its answers carry the CRC-16 of Modbus, which is *)
(* defined here bit by bit and is the reference for the tables of crc.h.   *)
(* A floating-point value is the pair of the number and the factor it is   *)
(* multiplied with.  A number of seconds is a pair <<days, seconds>> with  *)
(* the seconds of a day in 0 .. 86399, so that 64 bits of them and the     *)
(* conversion to an int can be told apart.                                 *)
(***************************************************************************)
EXTENDS Integers, Sequences, FiniteSets, Bitwise

CONSTANTS
  Id,          \* addresses of monitor units
  Raw,         \* measured values, as the device counts them
  Time,        \* times <<year, month, day, hour, minute, second>>
  Name,        \* lnInst
  Precision,   \* precisions of a parameter
  Window,      \* damage: bits flipped within so many neighbouring bits
  HurtTime,    \* the times in answers that are damaged
  LengthByte,      \* length bytes of an answer, besides the right one
  Stack,       \* contents that an array without initializer may have
  UtcOffset,   \* seconds by which the zone of the machine is ahead of UTC
  None

Codec == {"MMXN", "ZSAR"}
Octet == 0..255
-----------------------------------------------------------------------------
(* crc.h *)

auchCRCHi == <<
  0, 193, 129, 64, 1, 192, 128, 65, 1, 192, 128, 65, 0, 193, 129, 64, 1, 192, 128, 65, 0, 193,
  129, 64, 0, 193, 129, 64, 1, 192, 128, 65, 1, 192, 128, 65, 0, 193, 129, 64, 0, 193, 129, 64,
  1, 192, 128, 65, 0, 193, 129, 64, 1, 192, 128, 65, 1, 192, 128, 65, 0, 193, 129, 64, 1, 192,
  128, 65, 0, 193, 129, 64, 0, 193, 129, 64, 1, 192, 128, 65, 0, 193, 129, 64, 1, 192, 128, 65,
  1, 192, 128, 65, 0, 193, 129, 64, 0, 193, 129, 64, 1, 192, 128, 65, 1, 192, 128, 65, 0, 193,
  129, 64, 1, 192, 128, 65, 0, 193, 129, 64, 0, 193, 129, 64, 1, 192, 128, 65, 1, 192, 128, 65,
  0, 193, 129, 64, 0, 193, 129, 64, 1, 192, 128, 65, 0, 193, 129, 64, 1, 192, 128, 65, 1, 192,
  128, 65, 0, 193, 129, 64, 0, 193, 129, 64, 1, 192, 128, 65, 1, 192, 128, 65, 0, 193, 129, 64,
  1, 192, 128, 65, 0, 193, 129, 64, 0, 193, 129, 64, 1, 192, 128, 65, 0, 193, 129, 64, 1, 192,
  128, 65, 1, 192, 128, 65, 0, 193, 129, 64, 1, 192, 128, 65, 0, 193, 129, 64, 0, 193, 129, 64,
  1, 192, 128, 65, 1, 192, 128, 65, 0, 193, 129, 64, 0, 193, 129, 64, 1, 192, 128, 65, 0, 193,
  129, 64, 1, 192, 128, 65, 1, 192, 128, 65, 0, 193, 129, 64>>

auchCRCLo == <<
  0, 192, 193, 1, 195, 3, 2, 194, 198, 6, 7, 199, 5, 197, 196, 4, 204, 12, 13, 205, 15, 207,
  206, 14, 10, 202, 203, 11, 201, 9, 8, 200, 216, 24, 25, 217, 27, 219, 218, 26, 30, 222, 223, 31,
  221, 29, 28, 220, 20, 212, 213, 21, 215, 23, 22, 214, 210, 18, 19, 211, 17, 209, 208, 16, 240, 48,
  49, 241, 51, 243, 242, 50, 54, 246, 247, 55, 245, 53, 52, 244, 60, 252, 253, 61, 255, 63, 62, 254,
  250, 58, 59, 251, 57, 249, 248, 56, 40, 232, 233, 41, 235, 43, 42, 234, 238, 46, 47, 239, 45, 237,
  236, 44, 228, 36, 37, 229, 39, 231, 230, 38, 34, 226, 227, 35, 225, 33, 32, 224, 160, 96, 97, 161,
  99, 163, 162, 98, 102, 166, 167, 103, 165, 101, 100, 164, 108, 172, 173, 109, 175, 111, 110, 174, 170, 106,
  107, 171, 105, 169, 168, 104, 120, 184, 185, 121, 187, 123, 122, 186, 190, 126, 127, 191, 125, 189, 188, 124,
  180, 116, 117, 181, 119, 183, 182, 118, 114, 178, 179, 115, 177, 113, 112, 176, 80, 144, 145, 81, 147, 83,
  82, 146, 150, 86, 87, 151, 85, 149, 148, 84, 156, 92, 93, 157, 95, 159, 158, 94, 90, 154, 155, 91,
  153, 89, 88, 152, 136, 72, 73, 137, 75, 139, 138, 74, 78, 142, 143, 79, 141, 77, 76, 140, 68, 132,
  133, 69, 135, 71, 70, 134, 130, 66, 67, 131, 65, 129, 128, 64>>

\* CRC16(): the bytes uchCRCHi and uchCRCLo.
CRC16(msg) ==
  LET crc[i \in 0..Len(msg)] ==
        IF i = 0 THEN <<255, 255>>
        ELSE LET uchCRC == crc[i - 1]
                 uIndex == uchCRC[1] ^^ msg[i]
             IN <<uchCRC[2] ^^ auchCRCHi[uIndex + 1], auchCRCLo[uIndex + 1]>>
  IN crc[Len(msg)]
-----------------------------------------------------------------------------
(* Commands *)

\* makeQueryCmd()
makeQueryCmd(codec, id) ==
  LET body == <<id, 4, 0>> \o IF codec = "MMXN" THEN <<33, 0, 8>> ELSE <<32, 0, 10>>
  IN body \o CRC16(body)

\* tmCur as the bytes of the registers: the year counts from 2000, and tm_mon
\* from 0.
Registers(time) == <<time[1] - 2000, time[2], time[3], time[4], time[5], time[6]>>

\* makeYearMonthCmd(), makeDayHourCmd() and makeMinSecCmd(): pair is 0, 1, 2.
makeSetTimeCmd(id, pair, time) ==
  LET reg  == Registers(time)
      body == <<id, 6, 0, 5 + pair, reg[2 * pair + 1], reg[2 * pair + 2]>>
  IN body \o CRC16(body)

\* makeThetimeCmd()
makeThetimeCmd(id, time) ==
  LET body == <<id, 16, 0, 5, 0, 3>> \o Registers(time)
  IN body \o CRC16(body)
-----------------------------------------------------------------------------
(* The parser *)

FrameLen(codec) == IF codec = "MMXN" THEN 21 ELSE 25

\* sprintf("20%02d") and atoi(), and so on for the other fields.
TmOf(data, at) ==
  [tm_year |-> (IF data[at] < 100 THEN 2000 ELSE 20000) + data[at] - 1900,
   tm_mon |-> data[at + 1] - 1, tm_mday |-> data[at + 2],
   tm_hour |-> data[at + 3], tm_min |-> data[at + 4], tm_sec |-> data[at + 5]]

\* Two bytes as an unsigned short (MMXN), and as an unsigned char (ZSAR), whose
\* shift by 8 leaves nothing of the first.
Short(data, at) == (data[at] * 256 + data[at + 1]) % 65536
Char(data, at) == (((data[at] * 256) % 256) + data[at + 1]) % 256

\* Up to 1000 a value is multiplied with its precision, if it has one.
Scaled(raw, precision) == <<raw, IF raw > 1000 \/ precision = None THEN 1 ELSE precision>>

EightHours == 8 * 60 * 60

Seconds(days, seconds) == <<days + seconds \div 86400, seconds % 86400>>

\* mktime(): a month, a day or an hour outside of its range is carried over.
mktime(tm) ==
  LET year  == tm.tm_year + 1900 + (tm.tm_mon \div 12)
      month == (tm.tm_mon % 12) + 1
      \* years that begin in March, counted from the year 0
      y     == IF month <= 2 THEN year - 1 ELSE year
      m     == (month + 9) % 12
      days  == 365 * y + (y \div 4) - (y \div 100) + (y \div 400)
               + ((153 * m + 2) \div 5) + tm.tm_mday - 1 - 719468
  IN Seconds(days, tm.tm_hour * 3600 + tm.tm_min * 60 + tm.tm_sec - UtcOffset)

\* (int) of a time: modulo 2^32 seconds, which are 49710 days and 23296 seconds.
Before(s, t) == s[1] < t[1] \/ (s[1] = t[1] /\ s[2] < t[2])
IsInt(t) == Before(t, Seconds(24855, 11648)) /\ ~Before(t, Seconds(-24855, -11648))
MinusWraps(t, k) == Seconds(t[1] - k * 49710, t[2] - k * 23296)
ToInt(t) == MinusWraps(t, CHOOSE k \in 0 .. (t[1] \div 49710) + 1 : IsInt(MinusWraps(t, k)))

SmpTmOf(data, at) ==
  LET t == mktime(TmOf(data, at)) IN ToInt(Seconds(t[1], t[2] + EightHours))
LastOpTmOf(data, at) ==
  LET nLastOpTm == ToInt(mktime(TmOf(data, at)))
  IN IF nLastOpTm = Seconds(0, -1) THEN Seconds(0, 0) ELSE nLastOpTm

\* The DB_INSERT_DATATYPE that is filled in.
RecordOf(codec, data, conf) ==
  IF codec = "MMXN"
  THEN [lnInst |-> conf.lnInst, SmpTm |-> SmpTmOf(data, 1),
        Amp |-> Scaled(Short(data, 7), conf.precision)]
  ELSE [lnInst |-> conf.lnInst, SmpTm |-> SmpTmOf(data, 1),
        TotA |-> Scaled(Char(data, 7), conf.precision),
        RisA |-> Scaled(Char(data, 9), conf.precision),
        OpCnt |-> Char(data, 11), LastOpTm |-> LastOpTmOf(data, 13)]

\* The bytes of data[] that are used, for every content it may have: the length
\* byte says how many are copied, ZSAR skips two of them with the warning flag and
\* has set the others to 0, MMXN has not.
UsedLen(codec) == IF codec = "MMXN" THEN 8 ELSE 18
Skipped(codec) == IF codec = "MMXN" THEN 0 ELSE 2
DataOf(codec, buffer) ==
  LET used   == 1..UsedLen(codec)
      copied == 1..(buffer[3] - Skipped(codec))
  IN {[i \in used |-> IF i \in copied THEN buffer[3 + Skipped(codec) + i] ELSE before[i]] :
        before \in IF codec = "MMXN" THEN Stack ELSE {[i \in used |-> 0]}}

Refused(code) == {[code |-> code, record |-> None]}
Accepted(codec, buffer, conf) ==
  {[code |-> "PARSE_SUCCESS", record |-> RecordOf(codec, data, conf)] : data \in DataOf(codec, buffer)}

\* Mutant: only the first byte of the CRC is compared.
parserHalf(codec, buffer, conf) ==
  LET crcAt == FrameLen(codec) - 2 IN
    IF Len(buffer) < FrameLen(codec) THEN Refused("PARSE_ERROR_LENGTH_SHORT")
    ELSE IF CRC16(SubSeq(buffer, 1, crcAt))[1] # buffer[crcAt + 1] THEN Refused("PARSE_ERROR_OTHER")
    ELSE IF buffer[3] > 128 THEN Refused(IF codec = "MMXN" THEN "PARSE_SUCCESS" ELSE "PARSE_ERROR_OTHER")
    ELSE IF buffer[3] < Skipped(codec) THEN Refused("crashed")
    ELSE Accepted(codec, buffer, conf)

\* parser(): what it may return.  Of a length byte above 128 MMXN says 0, which is
\* PARSE_SUCCESS; below 2 ZSAR copies a negative number of bytes, which as a size_t
\* is more than there is memory.
parser(codec, buffer, conf) ==
  LET crcAt == FrameLen(codec) - 2 IN
    IF Len(buffer) < FrameLen(codec) THEN Refused("PARSE_ERROR_LENGTH_SHORT")
    ELSE IF CRC16(SubSeq(buffer, 1, crcAt)) # SubSeq(buffer, crcAt + 1, crcAt + 2)
         THEN Refused("PARSE_ERROR_OTHER")
    ELSE IF buffer[3] > 128 THEN Refused(IF codec = "MMXN" THEN "PARSE_SUCCESS" ELSE "PARSE_ERROR_OTHER")
    ELSE IF buffer[3] < Skipped(codec) THEN Refused("crashed")
    ELSE Accepted(codec, buffer, conf)
-----------------------------------------------------------------------------
(* The device *)

\* CRC-16 of Modbus, low byte first: the remainder of a byte is found bit by bit.
Remainder ==
  [b \in Octet |->
     LET bit[i \in 0..8] ==
           IF i = 0 THEN b
           ELSE LET crc == bit[i - 1]
                IN IF crc % 2 = 1 THEN (crc \div 2) ^^ 40961 ELSE crc \div 2
     IN bit[8]]
Modbus(msg) ==
  LET crc[i \in 0..Len(msg)] ==
        IF i = 0 THEN <<255, 255>>
        ELSE LET prev == crc[i - 1]
                 r    == Remainder[prev[1] ^^ msg[i]]
             IN <<prev[2] ^^ (r % 256), r \div 256>>
  IN crc[Len(msg)]

High(v) == v \div 256
Low(v) == v % 256
Stamp(time) == <<time[1] - 2000, time[2], time[3], time[4], time[5], time[6]>>

\* The answer to a query, with a length byte that need not be the right one.
Answer(codec, id, time, v, length) ==
  LET two  == <<High(v), Low(v)>>
      data == IF codec = "MMXN" THEN Stamp(time) \o two \o [i \in 1..8 |-> 0]
              ELSE <<0, 0>> \o Stamp(time) \o two \o two \o two \o Stamp(time)
      body == <<id, 4, length>> \o data
  IN body \o Modbus(body)

DataLen(codec) == FrameLen(codec) - 5

\* Flip the bits of a set of positions, counted from the first bit.
Flip(frame, bits) ==
  [i \in 1..Len(frame) |->
     LET mask[b \in 0..8] == IF b = 0 THEN 0 ELSE mask[b - 1] + IF 8 * (i - 1) + b \in bits THEN 2^(b - 1) ELSE 0
     IN frame[i] ^^ mask[8]]

-----------------------------------------------------------------------------
(* The calls on an instance *)

VARIABLES
  config,  \* lnInst_ and m_param_precisions, for the parameters of a codec
  made,    \* the last command: [kind, time, bytes], or None
  parsed   \* the last answer: [codec, time, raw, length, bits, size, result], or None

vars == <<config, made, parsed>>

Init == config = [lnInst |-> "", precision |-> None] /\ made = None /\ parsed = None

\* One call at a time.
Idle == made = None /\ parsed = None

\* setConfig(): a parameter the unit gives no precision keeps the one it has.
SetConfig ==
  /\ Idle
  /\ \E ln \in Name, precision \in Precision \cup {None} :
       config' = [lnInst |-> ln, precision |-> IF precision = None THEN config.precision ELSE precision]
  /\ UNCHANGED <<made, parsed>>

MakeQuery ==
  /\ Idle
  /\ \E codec \in Codec, id \in Octet :
       made' = [kind |-> "query", time |-> None, bytes |-> makeQueryCmd(codec, id)]
  /\ UNCHANGED <<config, parsed>>

MakeSetTime ==
  /\ Idle
  /\ \E id \in Id, pair \in 0..2, time \in Time :
       made' = [kind |-> "pair", time |-> time, bytes |-> makeSetTimeCmd(id, pair, time)]
  /\ UNCHANGED <<config, parsed>>

MakeThetime ==
  /\ Idle
  /\ \E id \in Id, time \in Time :
       made' = [kind |-> "all", time |-> time, bytes |-> makeThetimeCmd(id, time)]
  /\ UNCHANGED <<config, parsed>>

Call(codec, time, v, length, bits, buffer) ==
  /\ \E result \in parser(codec, buffer, config) :
       parsed' = [codec |-> codec, time |-> time, raw |-> v, length |-> length, bits |-> bits,
                  size |-> Len(buffer), result |-> result]
  /\ UNCHANGED <<config, made>>

\* The first bytes of an answer, or all of it.
Parse ==
  /\ Idle
  /\ \E codec \in Codec, id \in Id, time \in Time, v \in Raw :
       \E frame \in {Answer(codec, id, time, v, DataLen(codec))}, size \in 1..FrameLen(codec) :
         Call(codec, time, v, DataLen(codec), {}, SubSeq(frame, 1, size))

\* An answer with one or two bits flipped; the configuration does not matter.
ParseDamaged ==
  /\ Idle /\ config.lnInst = ""
  /\ \E codec \in Codec, id \in Id, time \in HurtTime, v \in Raw :
       \E frame \in {Answer(codec, id, time, v, DataLen(codec))}, d \in 0..Window :
         \E i \in 1..(8 * Len(frame) - d) :
           Call(codec, time, v, DataLen(codec), {i, i + d}, Flip(frame, {i, i + d}))

\* An answer that does not have the length it says.
ParseLength ==
  /\ Idle
  /\ \E codec \in Codec, id \in Id, time \in Time, v \in Raw, length \in LengthByte :
       Call(codec, time, v, length, {}, Answer(codec, id, time, v, length))

Next ==
  \/ SetConfig \/ MakeQuery \/ MakeSetTime \/ MakeThetime
  \/ Parse \/ ParseDamaged \/ ParseLength

Spec == Init /\ [][Next]_vars
-----------------------------------------------------------------------------
(* Properties *)

\* The calendar, counted: the seconds from the start of 1970 to a time.
IsLeap(y) == (y % 4 = 0 /\ y % 100 # 0) \/ y % 400 = 0
DayOfYear(time) ==
  LET leap  == IF IsLeap(time[1]) THEN 1 ELSE 0
      start == <<0, 31, 59 + leap, 90 + leap, 120 + leap, 151 + leap, 181 + leap,
                 212 + leap, 243 + leap, 273 + leap, 304 + leap, 334 + leap>>
  IN start[time[2]] + time[3]
CivilSeconds(time, shift) ==
  Seconds(365 * (time[1] - 1970) + Cardinality({y \in 1970 .. time[1] - 1 : IsLeap(y)}) + DayOfYear(time) - 1,
          time[4] * 3600 + time[5] * 60 + time[6] + shift)

\* A time of 32 bits: up to 03:14:07 on 19 January 2038 UTC it is right, and from
\* then on until 2106 it is 2^32 seconds too early.
Stored(t) == IF Before(t, Seconds(24855, 11648)) THEN t ELSE MinusWraps(t, 1)

\* Times and values of a record are those of the device, as far as the length byte
\* covers them: given bytes of data, after the flags.  A device in UTC+8, on a
\* machine of the same zone, has its sample times stored as if they were UTC, and
\* the time of the last operation eight hours earlier.  MMXN has values up to 65535;
\* ZSAR keeps the lower byte.  ZSAR takes bytes that are not given for 0, and a time
\* of which none is given is 30 November 1999.
SampleExact(codec, r, time, v, given) ==
  LET factor == IF config.precision = None THEN 1 ELSE config.precision IN
  /\ r.lnInst = config.lnInst
  /\ given >= 6 => r.SmpTm = Stored(CivilSeconds(time, EightHours - UtcOffset))
  /\ (codec = "MMXN" /\ given >= 8) => r.Amp = <<v, IF v > 1000 THEN 1 ELSE factor>>
  /\ codec = "ZSAR" =>
       /\ r.TotA = <<IF given >= 8 THEN v % 256 ELSE 0, factor>>
       /\ r.RisA = <<IF given >= 10 THEN v % 256 ELSE 0, factor>>
       /\ r.OpCnt = IF given >= 12 THEN v % 256 ELSE 0
       /\ given >= 18 => r.LastOpTm = Stored(CivilSeconds(time, -UtcOffset))
       /\ given <= 12 => r.LastOpTm = CivilSeconds(<<1999, 11, 30, 0, 0, 0>>, -UtcOffset)

\* Every command of the codecs ends with the CRC-16 of Modbus: the tables of
\* crc.h and the order of the bytes are right for every address.
\* A device that stores the time it is sent and answers with it is read back as
\* that time.  A part of an answer is never accepted, nor is one with one or two
\* flipped bits in a window.  A whole one with the right length byte, or another up
\* to 128, becomes a record of what the device measured (SampleExact), or for a
\* length below 2 ends the process in ZSAR.  A length byte above 128 yields no
\* record, although MMXN reports success.
CodecsExact ==
  /\ made # None =>
       LET n == Len(made.bytes)
       IN SubSeq(made.bytes, n - 1, n) = Modbus(SubSeq(made.bytes, 1, n - 2))
  /\ (made # None /\ made.kind = "all") =>
       LET tm == TmOf(made.bytes, 7)
       IN <<tm.tm_year + 1900, tm.tm_mon + 1, tm.tm_mday, tm.tm_hour, tm.tm_min, tm.tm_sec>> = made.time
  /\ parsed # None =>
       LET code   == parsed.result.code
           record == parsed.result.record
           given  == parsed.length - Skipped(parsed.codec)
           whole  == parsed.size = FrameLen(parsed.codec) /\ parsed.bits = {}
       IN /\ parsed.size < FrameLen(parsed.codec) => code = "PARSE_ERROR_LENGTH_SHORT"
          /\ parsed.bits # {} => code = "PARSE_ERROR_OTHER"
          /\ record # None <=> whole /\ given >= 0 /\ parsed.length <= 128
          /\ record # None =>
               /\ code = "PARSE_SUCCESS"
               /\ SampleExact(parsed.codec, record, parsed.time, parsed.raw, given)
          /\ (record = None /\ code = "PARSE_SUCCESS") <=>
               whole /\ parsed.codec = "MMXN" /\ parsed.length > 128
          /\ code = "crashed" <=> whole /\ parsed.codec = "ZSAR" /\ parsed.length < 2
=============================================================================
