----------------------------- MODULE SerialPort -----------------------------
(***************************************************************************)
(* The polling of the monitoring units on the RS485 lines (SerialPort.cpp, *)
(* CodecFactory.cpp and the codecs under protocols/).                      *)
(*                                                                         *)
(* The timers of all ports run on the one loop thread: onQueryDataTimer()  *)
(* selects the codec of the unit's protocol, configures it for the unit    *)
(* and writes the query.  Each port has a listening thread that reads the  *)
(* line and hands the bytes to the codec the port selected last.  There is *)
(* one codec object for each protocol, shared by all units and ports.      *)
(*                                                                         *)
(* Bytes are grouped into cells: a reply of protocol q is FrameLen[q]      *)
(* cells <<unit, 1, long>>, <<unit, 2, long>>, ..., where long tells that  *)
(* its length byte is above 128, and Junk is a cell of noise or of the     *)
(* zeroed buffer.  The CRC check of the parsers becomes "the first         *)
(* FrameLen cells are a whole reply".  Of the parameters of a unit there   *)
(* is the one that the parser scales.                                      *)
(***************************************************************************)
EXTENDS Integers, Sequences

CONSTANTS
  Port, Unit, Protocol,
  PortOf,      \* unit -> its port
  ProtocolOf,  \* unit -> its protocol
  IntervalOf,  \* unit -> its interval in milliseconds
  Timed,       \* units whose interval is a number
  Measured,    \* units with a measure point
  Addressed,   \* units whose mac is a number
  Precise,     \* units that give a number as the precision of the scaled parameter
  Overlong,    \* units that may send a length byte above 128 which parser() takes for PARSE_SUCCESS
  Libraries,   \* protocols with a codec library
  FrameLen,    \* protocol -> cells of a reply
  BufSize,     \* cells of read_buf
  Noisy,       \* ports whose line picks up noise
  LineCap,     \* bound on the cells waiting in the kernel for a port
  Garbage,     \* values that the uninitialised "n" of listen() can have
  Torn,        \* what a parser() reads from lnInst_ while it is assigned
  Unfilled,    \* what is in a record that no parser() has written to
  None

Junk == <<None, 0, FALSE>>

ASSUME SerialPortAssumption ==
  /\ PortOf \in [Unit -> Port] /\ ProtocolOf \in [Unit -> Protocol]
  /\ IntervalOf \in [Unit -> Nat] /\ FrameLen \in [Protocol -> Nat \ {0}]
  /\ Timed \subseteq Unit /\ Measured \subseteq Unit /\ Addressed \subseteq Unit /\ Libraries \subseteq Protocol
  /\ Precise \subseteq Unit /\ Overlong \subseteq Unit
  /\ Noisy \subseteq Port /\ BufSize \in Nat /\ LineCap \in Nat /\ Garbage \subseteq Int
  /\ None \notin Protocol \cup Unit
  /\ Torn \notin Unit /\ Unfilled \notin Unit /\ Torn # Unfilled

VARIABLES
  started,   \* port -> started_
  timers,    \* unit -> number of timers that poll it
  loopPc,    \* where the loop thread is in onQueryDataTimer()
  loopUnit,  \* the unit it polls, None when "idle"
  codec,     \* port -> codec_
  lnInst,    \* protocol -> lnInst_ of its codec: the unit configured last, or Torn
  scale,     \* protocol -> the unit whose precision m_param_precisions has
  asked,     \* units that have a query they may still answer, late or never
  line,      \* port -> cells received by the kernel and not read yet
  listenPc,  \* port -> where listen() is; "undefined" when it wrote or read out of bounds
  buf,       \* port -> the first n cells of read_buf
  pcodec,    \* port -> the local pcodec of listen() while it is used
  out,       \* port -> the record that parser() fills for storeDataPtr
  since      \* history: unit -> units that setConfig() was called for since its query

loopVars == <<loopPc, loopUnit, codec, lnInst, scale, since>>
listenVars == <<listenPc, buf, pcodec, out>>
vars == <<started, timers, loopPc, loopUnit, codec, lnInst, scale, asked, line,
          listenPc, buf, pcodec, out, since>>

\* No listen() has run into undefined behaviour, after which nothing is known.
Alive == \A p \in Port : listenPc[p] # "undefined"

Init ==
  /\ started = [p \in Port |-> FALSE]
  /\ timers = [u \in Unit |-> 0]
  /\ loopPc = "idle" /\ loopUnit = None
  /\ codec = [p \in Port |-> None]
  /\ lnInst = [q \in Protocol |-> None] /\ scale = [q \in Protocol |-> None]
  /\ asked = {}
  /\ line = [p \in Port |-> <<>>]
  /\ listenPc = [p \in Port |-> "off"]
  /\ buf = [p \in Port |-> <<>>]
  /\ pcodec = [p \in Port |-> None]
  /\ out = [p \in Port |-> None]
  /\ since = [u \in Unit |-> {}]
-----------------------------------------------------------------------------
(* start() *)

\* start() of a port that init() can open: the pool runs listen(), and
\* startTimers() gives a timer to every unit whose interval is a number.  The
\* TimerIds are not kept, so cancelTimers() never finds one to cancel.  When
\* init() fails, nothing has changed.
Start(p) ==
  /\ loopPc = "idle" /\ ~started[p]
  /\ started' = [started EXCEPT ![p] = TRUE]
  /\ timers' = [u \in Unit |-> IF PortOf[u] = p /\ u \in Timed THEN timers[u] + 1 ELSE timers[u]]
  /\ listenPc' = [listenPc EXCEPT ![p] = "start"]
  /\ UNCHANGED <<loopVars, asked, line, buf, pcodec, out>>
-----------------------------------------------------------------------------
(* onQueryDataTimer() on the loop thread *)

\* Mutant: the timer is added with runAfter() instead of runEvery().
RepeatsNever(u) == FALSE

\* "double timeinterval = interval/1000" divides integers: a timer of less
\* than a second does not repeat.
Repeats(u) == IntervalOf[u] \div 1000 > 0

\* onQueryDataTimer() goes on, or returns.
Proceed(u, condition, next) ==
  /\ loopPc' = IF condition THEN next ELSE "idle"
  /\ loopUnit' = IF condition THEN u ELSE None

\* The timer of a unit goes off: codec_ = getCodec(protocol) under mutex_, and the
\* returns for a missing codec (codec_ stays NULL) and a missing measure point.
Fire(u) ==
  /\ loopPc = "idle" /\ timers[u] > 0
  /\ timers' = [timers EXCEPT ![u] = IF Repeats(u) THEN @ ELSE @ - 1]
  /\ LET q == ProtocolOf[u] IN
       /\ codec' = [codec EXCEPT ![PortOf[u]] = IF q \in Libraries THEN q ELSE None]
       /\ Proceed(u, q \in Libraries /\ u \in Measured, "params")
  /\ UNCHANGED <<started, lnInst, scale, since, asked, line, listenVars>>

\* setConfig(): the precisions first.  They are merged into those of the units
\* configured before: a unit that gives no number leaves the older one in place.
SetParams ==
  /\ loopPc = "params"
  /\ loopPc' = "name"
  /\ scale' = [scale EXCEPT ![ProtocolOf[loopUnit]] = IF loopUnit \in Precise THEN loopUnit ELSE @]
  /\ since' = [u \in Unit |-> IF ProtocolOf[u] = ProtocolOf[loopUnit]
                              THEN since[u] \cup {loopUnit} ELSE since[u]]
  /\ UNCHANGED <<started, timers, loopUnit, codec, lnInst, asked, line, listenVars>>

\* Mutant: setConfig() keeps the name of the first unit.
SetNameOnce ==
  /\ loopPc = "name"
  /\ LET q == ProtocolOf[loopUnit] IN
       /\ Proceed(loopUnit, lnInst[q] = None \/ loopUnit \in Addressed, IF lnInst[q] = None THEN "assign" ELSE "write")
       /\ lnInst' = [lnInst EXCEPT ![q] = IF @ = None THEN Torn ELSE @]
  /\ UNCHANGED <<started, timers, codec, scale, since, asked, line, listenVars>>

\* Then lnInst_: the string is assigned without a lock ...
SetName ==
  /\ loopPc = "name"
  /\ loopPc' = "assign"
  /\ lnInst' = [lnInst EXCEPT ![ProtocolOf[loopUnit]] = Torn]
  /\ UNCHANGED <<started, timers, loopUnit, codec, scale, since, asked, line, listenVars>>

\* ... and has its new value.  A mac that is no number ends the poll.
NameSet ==
  /\ loopPc = "assign"
  /\ Proceed(loopUnit, loopUnit \in Addressed, "write")
  /\ lnInst' = [lnInst EXCEPT ![ProtocolOf[loopUnit]] = loopUnit]
  /\ UNCHANGED <<started, timers, codec, scale, since, asked, line, listenVars>>

\* parser() makes a record of an answer of u.
Parsing(u) == \E p \in Port : listenPc[p] \in {"lnInst", "repID", "store"} /\ out[p].from = u

\* makeQueryCmd() and write().  A record that is being made belongs to the query before.
Write ==
  /\ loopPc = "write"
  /\ loopPc' = "idle" /\ loopUnit' = None
  /\ asked' = asked \cup {loopUnit}
  /\ since' = [since EXCEPT ![loopUnit] = IF Parsing(loopUnit) THEN @ ELSE {}]
  /\ UNCHANGED <<started, timers, codec, lnInst, scale, line, listenVars>>
-----------------------------------------------------------------------------
(* The devices and the line *)

Frame(u, long) == [i \in 1..FrameLen[ProtocolOf[u]] |-> <<u, i, long>>]

Reply(u, long) ==
  /\ u \in asked /\ (long => u \in Overlong)
  /\ Len(line[PortOf[u]]) + Len(Frame(u, long)) <= LineCap
  /\ asked' = asked \ {u}
  /\ line' = [line EXCEPT ![PortOf[u]] = @ \o Frame(u, long)]
  /\ UNCHANGED <<started, timers, loopVars, listenVars>>

Noise(p) ==
  /\ p \in Noisy /\ started[p] /\ Len(line[p]) < LineCap
  /\ line' = [line EXCEPT ![p] = Append(@, Junk)]
  /\ UNCHANGED <<started, timers, loopVars, asked, listenVars>>
-----------------------------------------------------------------------------
(* listen() on a thread of the pool of the port *)

\* The entry of listen(): "n" has no initial value, read_buf is zeroed.
Listen(p) ==
  /\ listenPc[p] = "start"
  /\ \E n \in Garbage :
       IF n \in 0..BufSize
       THEN /\ buf' = [buf EXCEPT ![p] = [i \in 1..n |-> Junk]]
            /\ listenPc' = [listenPc EXCEPT ![p] = "first"]
       ELSE listenPc' = [listenPc EXCEPT ![p] = "wild"] /\ UNCHANGED buf
  /\ UNCHANGED <<started, timers, loopVars, asked, line, pcodec, out>>

\* libServerDataInput.so is not there: listen() returns.
ListenFails(p) ==
  /\ listenPc[p] = "start"
  /\ listenPc' = [listenPc EXCEPT ![p] = "returned"]
  /\ UNCHANGED <<started, timers, loopVars, asked, line, buf, pcodec, out>>

\* read() with "n" outside of read_buf writes where the address leads.  (It may also
\* fail with EFAULT for ever: then nothing happens.)
ReadWild(p) ==
  /\ listenPc[p] = "wild" /\ line[p] # <<>>
  /\ listenPc' = [listenPc EXCEPT ![p] = "undefined"]
  /\ UNCHANGED <<started, timers, loopVars, asked, line, buf, pcodec, out>>

\* read() returns the first k cells that wait, and puts them behind the n that are
\* in read_buf, with the size of the whole as its limit.  The codec of the moment
\* is copied under mutex_.  Without a codec everything read so far is dropped.
Read(p, k) ==
  /\ listenPc[p] \in {"first", "read"}
  /\ line' = [line EXCEPT ![p] = SubSeq(@, k + 1, Len(@))]
  /\ IF Len(buf[p]) + k > BufSize
     THEN listenPc' = [listenPc EXCEPT ![p] = "undefined"] /\ UNCHANGED <<buf, pcodec>>
     ELSE /\ pcodec' = [pcodec EXCEPT ![p] = codec[p]]
          /\ buf' = [buf EXCEPT ![p] = IF codec[p] = None THEN <<>> ELSE @ \o SubSeq(line[p], 1, k)]
          /\ listenPc' = [listenPc EXCEPT ![p] = IF codec[p] = None THEN "read" ELSE "parse"]
  /\ UNCHANGED <<started, timers, loopVars, asked, out>>

\* listen() goes back to read(), with n = 0 or with what it has.
ReadOn(p) ==
  /\ listenPc' = [listenPc EXCEPT ![p] = "read"]
  /\ pcodec' = [pcodec EXCEPT ![p] = None]

\* What parser() makes of the buffer: too short, the reply of a unit, or wrong.
Short(q, cells) == Len(cells) < FrameLen[q]
Origins(q, cells, long) ==
  {u \in Unit : ProtocolOf[u] = q /\ ~Short(q, cells) /\ SubSeq(cells, 1, FrameLen[q]) = Frame(u, long)}
Wrong(q, cells) == ~Short(q, cells) /\ \A long \in BOOLEAN : Origins(q, cells, long) = {}

\* parser() has a whole reply and takes the precision.  It holds no lock while it
\* reads what setConfig() writes.
ParsePrecision(p) ==
  /\ listenPc[p] = "parse"
  /\ \E u \in Origins(pcodec[p], buf[p], FALSE) :
       out' = [out EXCEPT ![p] = [from |-> u, long |-> FALSE, scaledBy |-> scale[pcodec[p]],
                                  as |-> Unfilled, repID |-> Unfilled]]
  /\ listenPc' = [listenPc EXCEPT ![p] = "lnInst"]
  /\ UNCHANGED <<started, timers, loopVars, asked, line, buf, pcodec>>

\* lnInst_ is copied to lnInstArray[0] ...
ParseName(p) ==
  /\ listenPc[p] = "lnInst"
  /\ out' = [out EXCEPT ![p] = [@ EXCEPT !.as = lnInst[pcodec[p]]]]
  /\ listenPc' = [listenPc EXCEPT ![p] = "repID"]
  /\ UNCHANGED <<started, timers, loopVars, asked, line, buf, pcodec>>

\* ... and once more, to repID; then PARSE_SUCCESS.
ParseRepID(p) ==
  /\ listenPc[p] = "repID"
  /\ out' = [out EXCEPT ![p] = [@ EXCEPT !.repID = lnInst[pcodec[p]]]]
  /\ listenPc' = [listenPc EXCEPT ![p] = "store"]
  /\ UNCHANGED <<started, timers, loopVars, asked, line, buf, pcodec>>

\* A length byte above 128: parser() returns 0, which is PARSE_SUCCESS, before it has
\* written to the record.
ParseOverlong(p) ==
  /\ listenPc[p] = "parse"
  /\ \E u \in Origins(pcodec[p], buf[p], TRUE) :
       out' = [out EXCEPT ![p] = [from |-> u, long |-> TRUE, scaledBy |-> Unfilled,
                                  as |-> Unfilled, repID |-> Unfilled]]
  /\ listenPc' = [listenPc EXCEPT ![p] = "store"]
  /\ UNCHANGED <<started, timers, loopVars, asked, line, buf, pcodec>>

\* PARSE_SUCCESS: storeDataPtr() gets the record; whatever follows the reply in the
\* buffer is dropped.
Store(p) ==
  /\ listenPc[p] = "store"
  /\ buf' = [buf EXCEPT ![p] = <<>>]
  /\ out' = [out EXCEPT ![p] = None]
  /\ ReadOn(p)
  /\ UNCHANGED <<started, timers, loopVars, asked, line>>

\* The loop over the lnIDArraySize entries of a record without a size leaves the arrays.
StoreUnfilled(p) ==
  /\ listenPc[p] = "store" /\ out[p].long
  /\ listenPc' = [listenPc EXCEPT ![p] = "undefined"]
  /\ UNCHANGED <<started, timers, loopVars, asked, line, buf, pcodec, out>>

\* PARSE_ERROR_LENGTH_SHORT: keep what there is and read on.
ParseShort(p) ==
  /\ listenPc[p] = "parse"
  /\ Short(pcodec[p], buf[p])
  /\ ReadOn(p)
  /\ UNCHANGED <<started, timers, loopVars, asked, line, buf, out>>

\* Mutant: n is not reset after an error.
ParseOtherKeeps(p) ==
  /\ listenPc[p] = "parse"
  /\ Wrong(pcodec[p], buf[p])
  /\ ReadOn(p)
  /\ UNCHANGED <<started, timers, loopVars, asked, line, buf, out>>

\* Mutant: listen() ends at an error.
ParseOtherStops(p) ==
  /\ listenPc[p] = "parse"
  /\ Wrong(pcodec[p], buf[p])
  /\ listenPc' = [listenPc EXCEPT ![p] = "returned"]
  /\ UNCHANGED <<started, timers, loopVars, asked, line, buf, pcodec, out>>

\* PARSE_ERROR_OTHER: start over.
ParseOther(p) ==
  /\ listenPc[p] = "parse"
  /\ Wrong(pcodec[p], buf[p])
  /\ buf' = [buf EXCEPT ![p] = <<>>]
  /\ ReadOn(p)
  /\ UNCHANGED <<started, timers, loopVars, asked, line, out>>

QueryStep == Alive /\ (SetParams \/ SetName \/ NameSet \/ Write)
ReadSome(p) == \E k \in 1..Len(line[p]) : k <= BufSize /\ Read(p, k)
ParseStep(p) ==
  \/ ParsePrecision(p) \/ ParseName(p) \/ ParseRepID(p) \/ ParseOverlong(p)
  \/ ParseShort(p) \/ ParseOther(p)
ListenStep(p) == Alive /\ (Listen(p) \/ ReadSome(p) \/ ParseStep(p) \/ Store(p))
TimerStep(u) == Alive /\ Fire(u)
Answer(u) == Alive /\ Reply(u, FALSE)

Next ==
  \/ \E p \in Port :
       \/ ListenStep(p)
       \/ Alive /\ (Start(p) \/ Noise(p) \/ ListenFails(p) \/ ReadWild(p) \/ StoreUnfilled(p))
  \/ \E u \in Unit : TimerStep(u) \/ Answer(u) \/ (Alive /\ Reply(u, TRUE))
  \/ QueryStep

Spec == Init /\ [][Next]_vars

\* What a unit needs to be polled over and over.
Pollable(u) ==
  u \in Timed \cap Measured \cap Addressed /\ ProtocolOf[u] \in Libraries /\ IntervalOf[u] >= 1000

\* The loop thread is scheduled.  The timers of such units expire again and again, the
\* listening threads of their ports are scheduled, and one that is asked often enough
\* answers.
FairSpec ==
  /\ Spec
  /\ WF_vars(QueryStep)
  /\ \A u \in {v \in Unit : Pollable(v)} :
       SF_vars(TimerStep(u)) /\ SF_vars(Answer(u)) /\ WF_vars(ListenStep(PortOf[u]))
-----------------------------------------------------------------------------
(* Properties *)

\* A name that may stand in a record of u: its own, or that of a unit that setConfig()
\* was called for after u was asked, or what a parser() reads in between.
NameAllowed(u, name) == name \in {u} \cup since[u] \/ (name = Torn /\ since[u] # {})

\* The same for the precision.  That of u is there only if it gave one: otherwise
\* there is none, or that of any unit of the protocol that was ever polled.
ScaleAllowed(u, unit) ==
  unit \in ({u} \cup since[u]) \cap Precise \/ (u \notin Precise /\ unit \in {None} \cup Precise)

\* A reply is stored under the name of the unit that sent it and scaled by its
\* precision, unless onQueryDataTimer() configured the codec for a unit of the same
\* protocol, on whatever port, after the sender was asked; a unit without a precision
\* gets an older one.  Nothing else can get into a record, except for a reply with an
\* over-long length byte: its record is stored as it is, unfilled.
Attribution ==
  \A p \in Port : listenPc[p] = "store" =>
    LET record == out[p]
        u == record.from
    IN IF record.long
       THEN {record.as, record.repID, record.scaledBy} = {Unfilled} /\ u \in Overlong
       ELSE /\ NameAllowed(u, record.as) /\ NameAllowed(u, record.repID)
            /\ ScaleAllowed(u, record.scaledBy)
            /\ \A v \in since[u] \cup ({record.scaledBy} \ {None}) : ProtocolOf[v] = ProtocolOf[u]

\* From the second read() on, listen() writes past read_buf only if a single read()
\* returns more than what an incomplete reply leaves free: reads that are small
\* enough never add up, whatever comes in and whichever codecs are selected.  (The
\* first read() starts at an uninitialised n.)
ReadsFit ==
  [][\A p \in Port :
       listenPc[p] = "read" /\ listenPc'[p] = "undefined" =>
         \E q \in Protocol : FrameLen[q] - 1 + (Len(line[p]) - Len(line'[p])) > BufSize]_vars

\* A partial or corrupt reply never blocks a port for good: as long as some
\* unit of the port can be polled and answers now and then, listen() gets back
\* to an empty buffer, unless it has written out of bounds.
Resync ==
  \A p \in Port :
    (\E u \in Unit : PortOf[u] = p /\ Pollable(u)) => (buf[p] # <<>> ~> (buf[p] = <<>> \/ ~Alive))

\* A unit with a numeric interval of a second or more, a codec, a measure point and
\* a numeric mac is asked again and again once its port is started, unless a listen()
\* has written out of bounds.
PolledForever ==
  \A u \in Unit :
    Pollable(u) => [](started[PortOf[u]] => <>((loopPc = "write" /\ loopUnit = u) \/ ~Alive))
=============================================================================
