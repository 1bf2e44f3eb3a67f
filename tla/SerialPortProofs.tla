-------------------------- MODULE SerialPortProofs --------------------------
(***************************************************************************)
(* Proofs about the polling of the units, for any ports, units, protocols, *)
(* lengths of replies, intervals and configurations: what a stored record  *)
(* can hold, and when listen() writes past read_buf.                       *)
(***************************************************************************)
EXTENDS Integers, SerialPort, SequenceTheorems, TLAPS

\* Only the units of Overlong send a length byte above 128.
Cell == {c \in (Unit \cup {None}) \X Nat \X BOOLEAN : c[3] => c[1] \in Overlong}

\* A cell of a reply of u is in s.
Carries(s, u) == \E i \in 1..Len(s) : s[i][1] = u

\* u was asked, and its answer may still become a record.
Heard(u) == u \in asked \/ \E p \in Port : Carries(line[p], u) \/ Carries(buf[p], u)

Making == {"lnInst", "repID", "store"}
Record ==
  [from : Unit, long : BOOLEAN, scaledBy : Unit \cup {None, Unfilled},
   as : Unit \cup {None, Torn, Unfilled}, repID : Unit \cup {None, Torn, Unfilled}]

PortTypes ==
  /\ asked \subseteq Unit
  /\ line \in [Port -> Seq(Cell)] /\ buf \in [Port -> Seq(Cell)]
  /\ codec \in [Port -> Protocol \cup {None}] /\ pcodec \in [Port -> Protocol \cup {None}]
  /\ listenPc \in [Port -> {"off", "start", "first", "wild", "read", "parse", "returned", "undefined"}
                               \cup Making]
  /\ out \in [Port -> Record \cup {None}]

LoopTypes ==
  /\ loopPc \in {"idle", "params", "name", "assign", "write"}
  /\ loopPc # "idle" => loopUnit \in Unit
  /\ lnInst \in [Protocol -> Unit \cup {None, Torn}] /\ scale \in [Protocol -> Unit \cup {None}]
  /\ since \in [Unit -> SUBSET Unit]

\* The codec of u has the name and the precision of u, or what else may be in a record.
Told(u) == NameAllowed(u, lnInst[ProtocolOf[u]]) /\ ScaleAllowed(u, scale[ProtocolOf[u]])

SinceInv == \A u \in Unit : \A v \in since[u] : ProtocolOf[v] = ProtocolOf[u]
ScaleInv == \A q \in Protocol : scale[q] # None => scale[q] \in Precise /\ ProtocolOf[scale[q]] = q

\* What onQueryDataTimer() has done of setConfig() at each place.
ConfigInv ==
  /\ loopPc \in {"name", "assign", "write"} =>
       /\ loopUnit \in Precise => scale[ProtocolOf[loopUnit]] = loopUnit
       /\ \A u \in Unit : ProtocolOf[u] = ProtocolOf[loopUnit] => loopUnit \in since[u]
  /\ loopPc = "write" => lnInst[ProtocolOf[loopUnit]] = loopUnit

TellInv == (\A u \in Unit : Heard(u) => Told(u)) /\ SinceInv /\ ScaleInv /\ ConfigInv

\* What parser() has put into the record at each place.
FilledInv(p) ==
  /\ ProtocolOf[out[p].from] = pcodec[p] /\ Carries(buf[p], out[p].from)
  /\ ScaleAllowed(out[p].from, out[p].scaledBy)
  /\ out[p].scaledBy # None => ProtocolOf[out[p].scaledBy] = ProtocolOf[out[p].from]
  /\ listenPc[p] \in {"repID", "store"} => NameAllowed(out[p].from, out[p].as)
  /\ listenPc[p] = "store" => NameAllowed(out[p].from, out[p].repID)

UnfilledInv(p) ==
  /\ listenPc[p] = "store" /\ out[p].from \in Overlong
  /\ {out[p].as, out[p].repID, out[p].scaledBy} = {Unfilled}

\* What is in the buffer when listen() comes back to read() is no whole reply.
RoomInv(p) == Len(buf[p]) = 0 \/ \E q \in Protocol : Len(buf[p]) < FrameLen[q]

PortInv(p) ==
  /\ listenPc[p] \in {"parse"} \cup Making => pcodec[p] \in Protocol
  /\ listenPc[p] \in Making =>
       out[p] \in Record /\ (IF out[p].long THEN UnfilledInv(p) ELSE FilledInv(p))
  /\ listenPc[p] = "read" => RoomInv(p)

SerialInv == PortTypes /\ LoopTypes /\ TellInv /\ \A p \in Port : PortInv(p)
-----------------------------------------------------------------------------
(* Which units the cells of a sequence come from *)

LEMMA CarriesConcat ==
  ASSUME NEW s \in Seq(Cell), NEW t \in Seq(Cell), NEW u, Carries(s \o t, u)
  PROVE  Carries(s, u) \/ Carries(t, u)
<1>1. PICK i \in 1..Len(s \o t) : (s \o t)[i][1] = u
  BY Zenon DEF Carries
<1>2. /\ Len(s) \in Nat /\ Len(t) \in Nat /\ Len(s \o t) = Len(s) + Len(t)
      /\ (s \o t)[i] = IF i <= Len(s) THEN s[i] ELSE t[i - Len(s)]
  BY <1>1, ConcatProperties, LenProperties, Zenon
<1>3. CASE i <= Len(s)
  BY <1>1, <1>2, <1>3 DEF Carries
<1>4. CASE ~(i <= Len(s))
  <2>1. i - Len(s) \in 1..Len(t) /\ t[i - Len(s)][1] = u
    BY <1>1, <1>2, <1>4
  <2> QED
    BY <2>1, Zenon DEF Carries
<1> QED
  BY <1>3, <1>4, Zenon

LEMMA SubSeqCells ==
  ASSUME NEW s \in Seq(Cell), NEW a \in 1..(Len(s) + 1), NEW b \in (a - 1)..Len(s)
  PROVE  /\ SubSeq(s, a, b) \in Seq(Cell) /\ Len(SubSeq(s, a, b)) = b - a + 1
         /\ \A i \in 1..(b - a + 1) : SubSeq(s, a, b)[i] = s[a + i - 1]
<1>1. Len(s) \in Nat /\ \A i \in 1..Len(s) : s[i] \in Cell
  BY LenProperties, ElementOfSeq, Zenon
<1>2. a \in Int /\ b \in Int /\ \A i \in a..b : s[i] \in Cell
  BY <1>1
<1>3. /\ SubSeq(s, a, b) \in Seq(Cell)
      /\ Len(SubSeq(s, a, b)) = IF a <= b THEN b - a + 1 ELSE 0
      /\ \A i \in 1..(b - a + 1) : SubSeq(s, a, b)[i] = s[a + i - 1]
  BY <1>2, SubSeqProperties
<1>4. a <= b \/ b - a + 1 = 0
  BY <1>1
<1> QED
  BY <1>2, <1>3, <1>4, Zenon

LEMMA CarriesSubSeq ==
  ASSUME NEW s \in Seq(Cell), NEW a \in 1..(Len(s) + 1), NEW b \in (a - 1)..Len(s), NEW u,
         Carries(SubSeq(s, a, b), u)
  PROVE  Carries(s, u)
<1>1. PICK i \in 1..(b - a + 1) : SubSeq(s, a, b)[i][1] = u
  BY SubSeqCells, Zenon DEF Carries
<1>2. SubSeq(s, a, b)[i] = s[a + i - 1]
  BY SubSeqCells, Zenon
<1>3. Len(s) \in Nat /\ a + i - 1 \in 1..Len(s)
  BY LenProperties
<1> QED
  BY <1>1, <1>2, <1>3, Zenon DEF Carries

LEMMA JunkCells ==
  ASSUME NEW n \in Nat
  PROVE  /\ Junk \in Cell
         /\ [i \in 1..n |-> Junk] \in Seq(Cell) /\ Len([i \in 1..n |-> Junk]) = n
<1> DEFINE s == [i \in 1..n |-> Junk]
<1>1. Junk \in Cell
  BY Zenon DEF Junk, Cell
<1>2. s \in [1..n -> Cell]
  BY <1>1, Zenon
<1>3. s \in Seq(Cell)
  BY <1>2, SeqDef, Zenon
<1> QED
  BY <1>1, <1>2, <1>3, LenProperties

LEMMA JunkOfNobody ==
  ASSUME NEW n \in Nat, NEW u \in Unit
  PROVE  Junk[1] # u /\ ~Carries([i \in 1..n |-> Junk], u)
<1>1. Junk[1] # u
  BY SerialPortAssumption DEF Junk
<1> QED
  BY <1>1, JunkCells, Zenon DEF Carries

LEMMA FrameCells ==
  ASSUME NEW u \in Unit, NEW long \in BOOLEAN, long => u \in Overlong
  PROVE  /\ Frame(u, long) \in Seq(Cell) /\ Len(Frame(u, long)) \in Nat \ {0}
         /\ \A v : Carries(Frame(u, long), v) => v = u
<1> DEFINE n == FrameLen[ProtocolOf[u]]
<1>1. ProtocolOf[u] \in Protocol /\ n \in Nat \ {0}
  BY SerialPortAssumption, Zenon
<1>2. \A i \in Nat : <<u, i, long>> \in Cell /\ <<u, i, long>>[1] = u
  BY DEF Cell
<1>3. Frame(u, long) \in [1..n -> Cell]
  BY <1>1, <1>2 DEF Frame
<1>4. Frame(u, long) \in Seq(Cell)
  BY <1>1, <1>3, SeqDef, Zenon
<1>5. Len(Frame(u, long)) = n
  BY <1>1, <1>3, <1>4, LenProperties
<1>6. \A i \in 1..Len(Frame(u, long)) : Frame(u, long)[i][1] = u
  BY <1>1, <1>2, <1>5 DEF Frame
<1> QED
  BY <1>1, <1>4, <1>5, <1>6, Zenon DEF Carries

\* The first cell of a reply.
LEMMA FrameHead ==
  ASSUME NEW u \in Unit, NEW long \in BOOLEAN
  PROVE  Frame(u, long)[1][1] = u /\ Frame(u, long)[1][3] = long
<1>1. FrameLen[ProtocolOf[u]] \in Nat \ {0}
  BY SerialPortAssumption, Zenon
<1> QED
  BY <1>1 DEF Frame

LEMMA NothingCarried == /\ <<>> \in Seq(Cell) /\ Len(<<>>) = 0 /\ \A u : ~Carries(<<>>, u)
BY EmptySeq DEF Carries
-----------------------------------------------------------------------------
(* The invariant *)

LEMMA SerialInit == Init => SerialInv
<1> SUFFICES ASSUME Init PROVE SerialInv
  BY Zenon
<1>1. PortTypes
  BY NothingCarried, Zenon DEF Init, PortTypes
<1>2. LoopTypes
  BY Zenon DEF Init, LoopTypes
<1>3. \A u \in Unit : ~Heard(u)
  BY NothingCarried, Zenon DEF Init, Heard
<1>4. SinceInv /\ ScaleInv /\ ConfigInv
  BY Zenon DEF Init, SinceInv, ScaleInv, ConfigInv
<1>5. \A p \in Port : PortInv(p)
  BY Zenon DEF Init, PortInv, Making
<1> QED
  BY <1>1, <1>2, <1>3, <1>4, <1>5, Zenon DEF SerialInv, TellInv

\* Steps of the listening threads and of the devices do not touch the codecs:
\* only which units are heard matters.
LEMMA LoopUntouched ==
  ASSUME SerialInv, UNCHANGED loopVars, \A u \in Unit : Heard(u)' => Heard(u)
  PROVE  LoopTypes' /\ TellInv'
<1>1. LoopTypes'
  BY Zenon DEF SerialInv, LoopTypes, loopVars
<1>2. \A u \in Unit : Told(u) => Told(u)'
  BY Zenon DEF Told, NameAllowed, ScaleAllowed, loopVars
<1>3. SinceInv' /\ ScaleInv' /\ ConfigInv'
  BY Zenon DEF SerialInv, TellInv, SinceInv, ScaleInv, ConfigInv, loopVars
<1> QED
  BY <1>1, <1>2, <1>3, Zenon DEF SerialInv, TellInv

\* What may be in a record of u does not get less while since[u] grows.
LEMMA AllowedGrows ==
  ASSUME NEW u, since[u] \subseteq since'[u], NEW x
  PROVE  /\ NameAllowed(u, x) => NameAllowed(u, x)'
         /\ ScaleAllowed(u, x) => ScaleAllowed(u, x)'
<1>1. NameAllowed(u, x) => NameAllowed(u, x)'
  BY Zenon DEF NameAllowed
<1>2. ScaleAllowed(u, x) => ScaleAllowed(u, x)'
  BY Zenon DEF ScaleAllowed
<1> QED
  BY <1>1, <1>2, Zenon

\* A step that leaves a listening thread alone.
LEMMA PortKept ==
  ASSUME NEW p \in Port, PortInv(p),
         listenPc'[p] = listenPc[p], buf'[p] = buf[p], pcodec'[p] = pcodec[p], out'[p] = out[p],
         \A u \in Unit : Parsing(u) => since[u] \subseteq since'[u]
  PROVE  PortInv(p)'
<1>1. (listenPc[p] \in {"parse"} \cup Making => pcodec[p] \in Protocol)'
  BY Zenon DEF PortInv
<1>2. (listenPc[p] = "read" => RoomInv(p))'
  BY Zenon DEF PortInv, RoomInv
<1>3. ASSUME listenPc[p] \in Making
      PROVE  (out[p] \in Record /\ (IF out[p].long THEN UnfilledInv(p) ELSE FilledInv(p)))'
  <2>1. out[p] \in Record /\ out[p].from \in Unit
    BY <1>3, Zenon DEF PortInv, Record
  <2>2. since[out[p].from] \subseteq since'[out[p].from]
    BY <1>3, <2>1, Zenon DEF Parsing, Making
  <2>3. CASE out[p].long
    BY <1>3, <2>1, <2>3, Zenon DEF PortInv, UnfilledInv
  <2>4. CASE ~out[p].long
    <3>1. FilledInv(p)
      BY <1>3, <2>4, Zenon DEF PortInv
    <3> DEFINE u == out[p].from
    <3>2. /\ ScaleAllowed(u, out[p].scaledBy) => ScaleAllowed(u, out[p].scaledBy)'
          /\ NameAllowed(u, out[p].as) => NameAllowed(u, out[p].as)'
          /\ NameAllowed(u, out[p].repID) => NameAllowed(u, out[p].repID)'
      BY <2>2, AllowedGrows, Zenon DEF NameAllowed, ScaleAllowed
    <3>3. FilledInv(p)'
      BY <3>1, <3>2, Zenon DEF FilledInv, Carries
    <3> QED
      BY <2>1, <2>4, <3>3, Zenon
  <2> QED
    BY <2>3, <2>4, Zenon
<1> QED
  BY <1>1, <1>2, <1>3, Zenon DEF PortInv

\* Steps of the loop thread leave the lines and the listening threads alone.
LEMMA PortsUntouched ==
  ASSUME SerialInv, UNCHANGED <<line, listenVars>>, asked' \subseteq Unit,
         codec' \in [Port -> Protocol \cup {None}],
         \A u \in Unit : Parsing(u) => since[u] \subseteq since'[u]
  PROVE  /\ PortTypes' /\ \A p \in Port : PortInv(p)'
         /\ asked' = asked => \A u \in Unit : Heard(u)' <=> Heard(u)
<1>1. PortTypes'
  BY Zenon DEF SerialInv, PortTypes, listenVars
<1>2. \A p \in Port : PortInv(p)'
  BY PortKept, Zenon DEF SerialInv, listenVars
<1>3. asked' = asked => \A u \in Unit : Heard(u)' <=> Heard(u)
  BY Zenon DEF Heard, Carries, listenVars
<1> QED
  BY <1>1, <1>2, <1>3, Zenon

\* Starting a port and firing a timer.
LEMMA SerialStart == ASSUME SerialInv, NEW p \in Port, Start(p) PROVE SerialInv'
<1>1. /\ UNCHANGED loopVars /\ UNCHANGED <<asked, line, buf, pcodec, out>>
      /\ listenPc' = [listenPc EXCEPT ![p] = "start"]
  BY Zenon DEF Start
<1>2. PortTypes'
  BY <1>1, Zenon DEF SerialInv, PortTypes, loopVars
<1>3. \A u \in Unit : Heard(u)' => Heard(u)
  BY <1>1, Zenon DEF Heard, Carries
<1>4. listenPc'[p] = "start" /\ \A r \in Port \ {p} : listenPc'[r] = listenPc[r]
  BY <1>1, Zenon DEF SerialInv, PortTypes
<1>5. PortInv(p)'
  BY <1>4, Zenon DEF PortInv, Making
<1>6. \A r \in Port \ {p} : PortInv(r)'
  BY <1>1, <1>4, PortKept, Zenon DEF SerialInv, loopVars
<1> QED
  BY <1>1, <1>2, <1>3, <1>5, <1>6, LoopUntouched, Zenon DEF SerialInv

LEMMA SerialFire == ASSUME SerialInv, NEW u \in Unit, Fire(u) PROVE SerialInv'
<1>1. UNCHANGED <<line, listenVars, asked, since, lnInst, scale>>
  BY Zenon DEF Fire
<1>2. asked' \subseteq Unit /\ codec' \in [Port -> Protocol \cup {None}]
  BY <1>1, SerialPortAssumption, Zenon DEF Fire, SerialInv, PortTypes
<1>3. PortTypes' /\ (\A p \in Port : PortInv(p)') /\ \A v \in Unit : Heard(v)' <=> Heard(v)
  BY <1>1, <1>2, PortsUntouched, Zenon
<1>4. loopPc' = "idle" \/ (loopPc' = "params" /\ loopUnit' = u)
  BY Zenon DEF Fire, Proceed
<1>5. LoopTypes'
  BY <1>1, <1>4, Zenon DEF SerialInv, LoopTypes
<1>6. \A v \in Unit : Told(v) => Told(v)'
  BY <1>1, Zenon DEF Told, NameAllowed, ScaleAllowed
<1>7. SinceInv' /\ ScaleInv' /\ ConfigInv'
  BY <1>1, <1>4, Zenon DEF SerialInv, TellInv, SinceInv, ScaleInv, ConfigInv
<1> QED
  BY <1>3, <1>5, <1>6, <1>7, Zenon DEF SerialInv, TellInv

\* The steps of onQueryDataTimer().
LEMMA SerialSetParams == ASSUME SerialInv, SetParams PROVE SerialInv'
<1>1. UNCHANGED <<line, listenVars, asked, codec, lnInst, loopUnit>> /\ loopPc' = "name" /\ loopUnit \in Unit
  BY Zenon DEF SetParams, SerialInv, LoopTypes
<1>2. /\ ProtocolOf[loopUnit] \in Protocol /\ scale \in [Protocol -> Unit \cup {None}]
      /\ since \in [Unit -> SUBSET Unit]
  BY <1>1, SerialPortAssumption, Zenon DEF SerialInv, LoopTypes
<1>3. /\ scale' = [scale EXCEPT ![ProtocolOf[loopUnit]] =
                      IF loopUnit \in Precise THEN loopUnit ELSE scale[ProtocolOf[loopUnit]]]
      /\ since' = [u \in Unit |-> IF ProtocolOf[u] = ProtocolOf[loopUnit]
                                  THEN since[u] \cup {loopUnit} ELSE since[u]]
  BY Zenon DEF SetParams
<1>4. /\ loopUnit \in Precise => scale'[ProtocolOf[loopUnit]] = loopUnit
      /\ loopUnit \notin Precise => scale'[ProtocolOf[loopUnit]] = scale[ProtocolOf[loopUnit]]
      /\ \A q \in Protocol : q # ProtocolOf[loopUnit] => scale'[q] = scale[q]
      /\ scale' \in [Protocol -> Unit \cup {None}]
  BY <1>1, <1>2, <1>3, Zenon
<1>5. /\ \A u \in Unit : /\ since[u] \subseteq since'[u]
                         /\ ProtocolOf[u] = ProtocolOf[loopUnit] => since'[u] = since[u] \cup {loopUnit}
                         /\ ProtocolOf[u] # ProtocolOf[loopUnit] => since'[u] = since[u]
      /\ since' \in [Unit -> SUBSET Unit]
  BY <1>1, <1>2, <1>3, Zenon
<1> HIDE <1>3
<1>6. asked' \subseteq Unit /\ codec' \in [Port -> Protocol \cup {None}]
  BY <1>1, Zenon DEF SerialInv, PortTypes
<1>7. PortTypes' /\ (\A p \in Port : PortInv(p)') /\ \A v \in Unit : Heard(v)' <=> Heard(v)
  BY <1>1, <1>5, <1>6, PortsUntouched, Zenon
<1>8. LoopTypes'
  BY <1>1, <1>4, <1>5, Zenon DEF SerialInv, LoopTypes
<1>9. ScaleInv'
  BY <1>1, <1>2, <1>4, Zenon DEF SerialInv, TellInv, ScaleInv
<1>10. \A v \in Unit : Told(v) => Told(v)'
  <2> SUFFICES ASSUME NEW v \in Unit, Told(v) PROVE Told(v)'
    BY Zenon
  <2>1. ProtocolOf[v] \in Protocol /\ since[v] \subseteq since'[v]
    BY <1>5, SerialPortAssumption, Zenon
  <2>2. NameAllowed(v, lnInst[ProtocolOf[v]])'
    BY <1>1, <2>1, Zenon DEF Told, NameAllowed
  <2>3. CASE ProtocolOf[v] = ProtocolOf[loopUnit] /\ loopUnit \in Precise
    <3>1. scale'[ProtocolOf[v]] = loopUnit /\ loopUnit \in since'[v]
      BY <1>4, <1>5, <2>3, Zenon
    <3> QED
      BY <2>2, <2>3, <3>1, Zenon DEF Told, ScaleAllowed
  <2>4. CASE ~(ProtocolOf[v] = ProtocolOf[loopUnit] /\ loopUnit \in Precise)
    <3>1. scale'[ProtocolOf[v]] = scale[ProtocolOf[v]]
      BY <1>4, <2>1, <2>4, Zenon
    <3> QED
      BY <2>1, <2>2, <3>1, Zenon DEF Told, ScaleAllowed
  <2> QED
    BY <2>3, <2>4, Zenon
<1>11. SinceInv'
  BY <1>5, Zenon DEF SerialInv, TellInv, SinceInv
<1>12. ConfigInv'
  BY <1>1, <1>4, <1>5, Zenon DEF ConfigInv
<1> QED
  BY <1>7, <1>8, <1>9, <1>10, <1>11, <1>12, Zenon DEF SerialInv, TellInv

\* lnInst_ while it is assigned, and when it is.
LEMMA SerialName ==
  ASSUME SerialInv, SetName \/ NameSet
  PROVE  SerialInv'
<1>1. PICK x \in {Torn, loopUnit} :
        /\ lnInst' = [lnInst EXCEPT ![ProtocolOf[loopUnit]] = x]
        /\ loopPc' \in {"assign", "write", "idle"} /\ (loopPc' = "write" => x = loopUnit)
        /\ loopPc' # "idle" => loopUnit' = loopUnit
  BY Zenon DEF SetName, NameSet, Proceed
<1>2. UNCHANGED <<line, listenVars, asked, codec, scale, since>> /\ loopPc \in {"name", "assign"}
  BY Zenon DEF SetName, NameSet
<1>3. loopUnit \in Unit /\ ProtocolOf[loopUnit] \in Protocol /\ lnInst \in [Protocol -> Unit \cup {None, Torn}]
  BY <1>2, SerialPortAssumption, Zenon DEF SerialInv, LoopTypes
<1>4. /\ lnInst' \in [Protocol -> Unit \cup {None, Torn}] /\ lnInst'[ProtocolOf[loopUnit]] = x
      /\ \A q \in Protocol : q # ProtocolOf[loopUnit] => lnInst'[q] = lnInst[q]
  BY <1>1, <1>3, Zenon
<1>5. asked' \subseteq Unit /\ codec' \in [Port -> Protocol \cup {None}]
  BY <1>2, Zenon DEF SerialInv, PortTypes
<1>6. PortTypes' /\ (\A p \in Port : PortInv(p)') /\ \A v \in Unit : Heard(v)' <=> Heard(v)
  BY <1>2, <1>5, PortsUntouched, Zenon
<1>7. /\ loopUnit \in Precise => scale[ProtocolOf[loopUnit]] = loopUnit
      /\ \A u \in Unit : ProtocolOf[u] = ProtocolOf[loopUnit] => loopUnit \in since[u]
  BY <1>2, Zenon DEF SerialInv, TellInv, ConfigInv
<1>8. LoopTypes'
  BY <1>1, <1>2, <1>3, <1>4, Zenon DEF SerialInv, LoopTypes
<1>9. \A v \in Unit : Told(v) => Told(v)'
  <2> SUFFICES ASSUME NEW v \in Unit, Told(v) PROVE Told(v)'
    BY Zenon
  <2>1. ProtocolOf[v] \in Protocol /\ ScaleAllowed(v, scale[ProtocolOf[v]])'
    BY <1>2, SerialPortAssumption, Zenon DEF Told, ScaleAllowed
  <2>2. CASE ProtocolOf[v] = ProtocolOf[loopUnit]
    <3>1. lnInst'[ProtocolOf[v]] = x /\ loopUnit \in since'[v]
      BY <1>2, <1>4, <1>7, <2>2, Zenon
    <3> QED
      BY <1>1, <2>1, <3>1, Zenon DEF Told, NameAllowed
  <2>3. CASE ProtocolOf[v] # ProtocolOf[loopUnit]
    <3>1. lnInst'[ProtocolOf[v]] = lnInst[ProtocolOf[v]]
      BY <1>4, <2>1, <2>3, Zenon
    <3> QED
      BY <1>2, <2>1, <3>1, Zenon DEF Told, NameAllowed
  <2> QED
    BY <2>2, <2>3, Zenon
<1>10. SinceInv' /\ ScaleInv'
  BY <1>2, Zenon DEF SerialInv, TellInv, SinceInv, ScaleInv
<1>11. ConfigInv'
  BY <1>1, <1>2, <1>4, <1>7, Zenon DEF ConfigInv
<1> QED
  BY <1>6, <1>8, <1>9, <1>10, <1>11, Zenon DEF SerialInv, TellInv

\* The query goes out when the codec is configured for the unit: from then on it is heard.
LEMMA SerialWrite == ASSUME SerialInv, Write PROVE SerialInv'
<1>1. /\ UNCHANGED <<line, listenVars, codec, lnInst, scale>> /\ asked' = asked \cup {loopUnit}
      /\ loopPc' = "idle" /\ loopUnit \in Unit /\ ProtocolOf[loopUnit] \in Protocol
      /\ since \in [Unit -> SUBSET Unit]
      /\ since' = [since EXCEPT ![loopUnit] = IF Parsing(loopUnit) THEN since[loopUnit] ELSE {}]
  BY SerialPortAssumption, Zenon DEF Write, SerialInv, LoopTypes
<1>2. /\ since' \in [Unit -> SUBSET Unit] /\ \A v \in Unit \ {loopUnit} : since'[v] = since[v]
      /\ \A v \in Unit : (Parsing(v) => since[v] \subseteq since'[v]) /\ since'[v] \subseteq since[v]
  BY <1>1, Zenon
<1>3. asked' \subseteq Unit /\ codec' \in [Port -> Protocol \cup {None}]
  BY <1>1, Zenon DEF SerialInv, PortTypes
<1>4. PortTypes' /\ \A p \in Port : PortInv(p)'
  BY <1>1, <1>2, <1>3, PortsUntouched, Zenon
<1>5. /\ loopUnit \in Precise => scale[ProtocolOf[loopUnit]] = loopUnit
      /\ lnInst[ProtocolOf[loopUnit]] = loopUnit
  BY Zenon DEF Write, SerialInv, TellInv, ConfigInv
<1>6. LoopTypes'
  BY <1>1, <1>2, Zenon DEF SerialInv, LoopTypes
<1>7. ASSUME NEW v \in Unit, Heard(v)' PROVE Told(v)'
  <2>1. CASE v = loopUnit
    BY <1>1, <1>5, <2>1, Zenon DEF Told, NameAllowed, ScaleAllowed, SerialInv, TellInv, ScaleInv
  <2>2. CASE v # loopUnit
    <3>1. Heard(v)
      BY <1>1, <1>7, <2>2, Zenon DEF Heard, Carries, listenVars
    <3>2. since'[v] = since[v]
      BY <1>2, <2>2, Zenon
    <3> QED
      BY <1>1, <3>1, <3>2, Zenon DEF SerialInv, TellInv, Told, NameAllowed, ScaleAllowed
  <2> QED
    BY <2>1, <2>2, Zenon
<1>8. SinceInv' /\ ScaleInv' /\ ConfigInv'
  BY <1>1, <1>2, Zenon DEF SerialInv, TellInv, SinceInv, ScaleInv, ConfigInv
<1> QED
  BY <1>4, <1>6, <1>7, <1>8, Zenon DEF SerialInv, TellInv

\* The devices and the noise on the line.
LEMMA SerialLine ==
  ASSUME SerialInv, UNCHANGED loopVars, UNCHANGED listenVars,
         line' \in [Port -> Seq(Cell)], asked' \subseteq asked,
         \A p \in Port, u \in Unit : Carries(line'[p], u) => Heard(u)
  PROVE  SerialInv'
<1>1. PortTypes'
  BY Zenon DEF SerialInv, PortTypes, loopVars, listenVars
<1>2. \A u \in Unit : Heard(u)' => Heard(u)
  BY Zenon DEF Heard, listenVars
<1>3. \A p \in Port : PortInv(p)'
  BY PortKept, Zenon DEF SerialInv, loopVars, listenVars
<1> QED
  BY <1>1, <1>2, <1>3, LoopUntouched, Zenon DEF SerialInv

LEMMA SerialReply ==
  ASSUME SerialInv, NEW u \in Unit, NEW long \in BOOLEAN, Reply(u, long)
  PROVE  SerialInv'
<1>1. /\ UNCHANGED loopVars /\ UNCHANGED listenVars /\ u \in asked /\ asked' = asked \ {u}
      /\ PortOf[u] \in Port /\ line \in [Port -> Seq(Cell)] /\ (long => u \in Overlong)
      /\ line' = [line EXCEPT ![PortOf[u]] = line[PortOf[u]] \o Frame(u, long)]
  BY SerialPortAssumption, Zenon DEF Reply, SerialInv, PortTypes
<1>2. /\ line[PortOf[u]] \in Seq(Cell) /\ Frame(u, long) \in Seq(Cell)
      /\ \A v : Carries(Frame(u, long), v) => v = u
  BY <1>1, FrameCells, Zenon
<1>3. line[PortOf[u]] \o Frame(u, long) \in Seq(Cell)
  BY <1>2, ConcatProperties, Zenon
<1>4. line' \in [Port -> Seq(Cell)]
  BY <1>1, <1>3, Zenon
<1>5. ASSUME NEW p \in Port, NEW v \in Unit, Carries(line'[p], v) PROVE Heard(v)
  <2>1. CASE p # PortOf[u]
    BY <1>1, <1>5, <2>1, Zenon DEF Heard
  <2>2. CASE p = PortOf[u]
    <3>1. Carries(line[p] \o Frame(u, long), v)
      BY <1>1, <1>5, <2>2, Zenon
    <3>2. Carries(line[p], v) \/ Carries(Frame(u, long), v)
      BY <1>2, <2>2, <3>1, CarriesConcat, Zenon
    <3> QED
      BY <1>1, <1>2, <3>2, Zenon DEF Heard
  <2> QED
    BY <2>1, <2>2, Zenon
<1> QED
  BY <1>1, <1>4, <1>5, SerialLine, Zenon

LEMMA SerialNoise == ASSUME SerialInv, NEW p \in Port, Noise(p) PROVE SerialInv'
<1>1. /\ UNCHANGED loopVars /\ UNCHANGED listenVars /\ UNCHANGED asked
      /\ line \in [Port -> Seq(Cell)] /\ line' = [line EXCEPT ![p] = Append(line[p], Junk)]
  BY Zenon DEF Noise, SerialInv, PortTypes
<1>2. 1 \in Nat /\ line[p] \in Seq(Cell)
  BY <1>1
<1>3. Junk \in Cell /\ \A v \in Unit : Junk[1] # v
  BY <1>2, JunkCells, JunkOfNobody, Zenon
<1>4. /\ Append(line[p], Junk) \in Seq(Cell) /\ Len(line[p]) \in Nat
      /\ Len(Append(line[p], Junk)) = Len(line[p]) + 1
      /\ \A i \in 1..Len(line[p]) : Append(line[p], Junk)[i] = line[p][i]
      /\ Append(line[p], Junk)[Len(line[p]) + 1] = Junk
  BY <1>2, <1>3, AppendProperties, LenProperties
<1>5. line' \in [Port -> Seq(Cell)]
  BY <1>1, <1>4, Zenon
<1>6. ASSUME NEW v \in Unit, Carries(Append(line[p], Junk), v) PROVE Carries(line[p], v)
  <2>1. PICK i \in 1..(Len(line[p]) + 1) : Append(line[p], Junk)[i][1] = v
    BY <1>4, <1>6, Zenon DEF Carries
  <2>2. i # Len(line[p]) + 1
    BY <1>3, <1>4, <2>1, Zenon
  <2>3. i \in 1..Len(line[p])
    BY <1>4, <2>1, <2>2
  <2> QED
    BY <1>4, <2>1, <2>3, Zenon DEF Carries
<1>7. \A r \in Port, v \in Unit : Carries(line'[r], v) => Heard(v)
  BY <1>1, <1>6, Zenon DEF Heard
<1> QED
  BY <1>1, <1>5, <1>7, SerialLine, Zenon

\* A step of the listening thread of p: the other ports are left alone.
LEMMA SerialPort1 ==
  ASSUME SerialInv, NEW p \in Port, UNCHANGED loopVars, UNCHANGED asked, PortTypes', PortInv(p)',
         \A r \in Port \ {p} : /\ line'[r] = line[r] /\ listenPc'[r] = listenPc[r] /\ buf'[r] = buf[r]
                               /\ pcodec'[r] = pcodec[r] /\ out'[r] = out[r],
         \A u \in Unit : Carries(line'[p], u) => Carries(line[p], u),
         \A u \in Unit : Carries(buf'[p], u) => Carries(line[p], u) \/ Carries(buf[p], u)
  PROVE  SerialInv'
<1>1. \A u \in Unit : Heard(u)' => Heard(u)
  BY Zenon DEF Heard
<1>2. \A r \in Port \ {p} : PortInv(r)'
  BY PortKept, Zenon DEF SerialInv, loopVars
<1> QED
  BY <1>1, <1>2, LoopUntouched, Zenon DEF SerialInv

\* The start of listen(), and the ways in which it ends.
LEMMA SerialListen ==
  ASSUME SerialInv, NEW p \in Port,
         Listen(p) \/ ListenFails(p) \/ ReadWild(p) \/ StoreUnfilled(p)
  PROVE  SerialInv'
<1>1. /\ UNCHANGED loopVars /\ UNCHANGED <<asked, line, pcodec, out>>
      /\ \E n \in Nat : buf' = buf \/ buf' = [buf EXCEPT ![p] = [i \in 1..n |-> Junk]]
      /\ \E pc \in {"first", "wild", "returned", "undefined"} : listenPc' = [listenPc EXCEPT ![p] = pc]
  <2>1. CASE Listen(p)
    <3>1. PICK n \in Garbage :
            IF n \in 0..BufSize
            THEN /\ buf' = [buf EXCEPT ![p] = [i \in 1..n |-> Junk]]
                 /\ listenPc' = [listenPc EXCEPT ![p] = "first"]
            ELSE listenPc' = [listenPc EXCEPT ![p] = "wild"] /\ UNCHANGED buf
      BY <2>1, Zenon DEF Listen
    <3>2. 0 \in Nat /\ (n \in 0..BufSize => n \in Nat)
      BY SerialPortAssumption
    <3> QED
      BY <2>1, <3>1, <3>2, Zenon DEF Listen
  <2>2. CASE ListenFails(p) \/ ReadWild(p) \/ StoreUnfilled(p)
    <3>1. 0 \in Nat
      OBVIOUS
    <3> QED
      BY <2>2, <3>1, Zenon DEF ListenFails, ReadWild, StoreUnfilled
  <2> QED
    BY <2>1, <2>2, Zenon
<1>2. PICK pc \in {"first", "wild", "returned", "undefined"} : listenPc' = [listenPc EXCEPT ![p] = pc]
  BY <1>1, Zenon
<1>3. PICK n \in Nat : buf' = buf \/ buf' = [buf EXCEPT ![p] = [i \in 1..n |-> Junk]]
  BY <1>1, Zenon
<1> DEFINE junk == [i \in 1..n |-> Junk]
<1>4. junk \in Seq(Cell) /\ \A v \in Unit : ~Carries(junk, v)
  BY JunkCells, JunkOfNobody, Zenon
<1>5. buf' = buf \/ buf' = [buf EXCEPT ![p] = junk]
  BY <1>3, Zenon
<1> HIDE DEF junk
<1>6. /\ listenPc'[p] = pc /\ buf'[p] \in {buf[p], junk}
      /\ \A r \in Port \ {p} : listenPc'[r] = listenPc[r] /\ buf'[r] = buf[r]
  BY <1>2, <1>5, Zenon DEF SerialInv, PortTypes
<1>7. PortTypes'
  BY <1>1, <1>2, <1>4, <1>5, Zenon DEF SerialInv, PortTypes, loopVars
<1>8. PortInv(p)'
  BY <1>2, <1>6, Zenon DEF PortInv, Making
<1> QED
  BY <1>1, <1>4, <1>6, <1>7, <1>8, SerialPort1, Zenon

\* What is in the buffer was on the line.
LEMMA SerialRead ==
  ASSUME SerialInv, NEW p \in Port, NEW k \in 1..Len(line[p]), Read(p, k)
  PROVE  SerialInv'
<1> DEFINE rest == SubSeq(line[p], k + 1, Len(line[p]))
           got == SubSeq(line[p], 1, k)
<1>1. /\ line \in [Port -> Seq(Cell)] /\ buf \in [Port -> Seq(Cell)]
      /\ codec \in [Port -> Protocol \cup {None}]
  BY Zenon DEF SerialInv, PortTypes
<1>2. line[p] \in Seq(Cell) /\ buf[p] \in Seq(Cell) /\ Len(line[p]) \in Nat
  BY <1>1, LenProperties, Zenon
<1>3. rest \in Seq(Cell) /\ got \in Seq(Cell)
  BY <1>2, SubSeqCells
<1>4. /\ buf[p] \o got \in Seq(Cell)
  BY <1>2, <1>3, ConcatProperties, Zenon
<1>5. \A v : (Carries(rest, v) => Carries(line[p], v)) /\ (Carries(got, v) => Carries(line[p], v))
  BY <1>2, CarriesSubSeq
<1>6. \A v : Carries(buf[p] \o got, v) => Carries(buf[p], v) \/ Carries(line[p], v)
  BY <1>2, <1>3, <1>5, CarriesConcat, Zenon
<1>7. UNCHANGED loopVars /\ UNCHANGED <<asked, out>> /\ line' = [line EXCEPT ![p] = rest]
  BY Zenon DEF Read
<1>8. PICK pc \in {"undefined", "read", "parse"}, cells \in {<<>>, buf[p], buf[p] \o got},
           q \in Protocol \cup {None} :
        /\ listenPc' = [listenPc EXCEPT ![p] = pc] /\ buf' = [buf EXCEPT ![p] = cells]
        /\ pcodec' = [pcodec EXCEPT ![p] = q]
        /\ pc = "read" => cells = <<>>
        /\ pc = "parse" => q \in Protocol
  <2>1. CASE Len(buf[p]) + k > BufSize
    <3>1. buf = [buf EXCEPT ![p] = buf[p]] /\ pcodec = [pcodec EXCEPT ![p] = pcodec[p]]
      BY Zenon DEF SerialInv, PortTypes
    <3>2. pcodec[p] \in Protocol \cup {None}
      BY Zenon DEF SerialInv, PortTypes
    <3>3. listenPc' = [listenPc EXCEPT ![p] = "undefined"] /\ buf' = buf /\ pcodec' = pcodec
      BY <2>1, Zenon DEF Read
    <3> QED
      BY <3>1, <3>2, <3>3, Zenon
  <2>2. CASE ~(Len(buf[p]) + k > BufSize)
    <3>1. /\ pcodec' = [pcodec EXCEPT ![p] = codec[p]]
          /\ buf' = [buf EXCEPT ![p] = IF codec[p] = None THEN <<>> ELSE buf[p] \o got]
          /\ listenPc' = [listenPc EXCEPT ![p] = IF codec[p] = None THEN "read" ELSE "parse"]
      BY <2>2, Zenon DEF Read
    <3>2. codec[p] \in Protocol \cup {None}
      BY <1>1, Zenon
    <3>3. CASE codec[p] = None
      BY <3>1, <3>2, <3>3, Zenon
    <3>4. CASE codec[p] # None
      BY <3>1, <3>2, <3>4, Zenon
    <3> QED
      BY <3>3, <3>4, Zenon
  <2> QED
    BY <2>1, <2>2, Zenon
<1> HIDE DEF rest, got
<1>9. /\ cells \in Seq(Cell)
      /\ \A v : Carries(cells, v) => Carries(buf[p], v) \/ Carries(line[p], v)
  BY <1>2, <1>4, <1>6, <1>8, NothingCarried, Zenon
<1>10. /\ line'[p] = rest /\ buf'[p] = cells /\ pcodec'[p] = q /\ listenPc'[p] = pc
       /\ \A r \in Port \ {p} : /\ line'[r] = line[r] /\ listenPc'[r] = listenPc[r] /\ buf'[r] = buf[r]
                                /\ pcodec'[r] = pcodec[r]
  BY <1>7, <1>8, Zenon DEF SerialInv, PortTypes
<1>11. PortTypes'
  BY <1>3, <1>7, <1>8, <1>9, Zenon DEF SerialInv, PortTypes, loopVars
<1>12. PortInv(p)'
  BY <1>8, <1>10, NothingCarried, Zenon DEF PortInv, Making, RoomInv
<1> QED
  BY <1>5, <1>7, <1>9, <1>10, <1>11, <1>12, SerialPort1, Zenon

\* A reply that the parser finds was in the buffer, so its sender was heard.
LEMMA OriginHeard ==
  ASSUME SerialInv, NEW p \in Port, listenPc[p] = "parse", NEW long \in BOOLEAN,
         NEW u \in Origins(pcodec[p], buf[p], long)
  PROVE  /\ u \in Unit /\ ProtocolOf[u] = pcodec[p] /\ Carries(buf[p], u) /\ Heard(u)
         /\ long => u \in Overlong
<1>1. /\ u \in Unit /\ ProtocolOf[u] = pcodec[p] /\ ~(Len(buf[p]) < FrameLen[pcodec[p]])
      /\ SubSeq(buf[p], 1, FrameLen[pcodec[p]]) = Frame(u, long)
  BY Zenon DEF Origins, Short
<1>2. buf[p] \in Seq(Cell) /\ Len(buf[p]) \in Nat /\ FrameLen[pcodec[p]] \in Nat \ {0}
  BY SerialPortAssumption, LenProperties, Zenon DEF SerialInv, PortTypes, PortInv
<1>3. SubSeq(buf[p], 1, FrameLen[pcodec[p]])[1] = buf[p][1]
  <2>1. 1 \in 1..(Len(buf[p]) + 1) /\ FrameLen[pcodec[p]] \in 0..Len(buf[p])
    BY <1>1, <1>2
  <2>2. \A i \in 1..FrameLen[pcodec[p]] : SubSeq(buf[p], 1, FrameLen[pcodec[p]])[i] = buf[p][1 + i - 1]
    BY <1>2, <2>1, SubSeqCells
  <2> QED
    BY <1>2, <2>2
<1>4. buf[p][1][1] = u /\ buf[p][1][3] = long
  <2>1. buf[p][1] = Frame(u, long)[1]
    BY <1>1, <1>3, Zenon
  <2>2. Frame(u, long)[1][1] = u /\ Frame(u, long)[1][3] = long
    BY <1>1, FrameHead, Zenon
  <2> QED
    BY <2>1, <2>2
<1>5. 1 \in 1..Len(buf[p])
  BY <1>1, <1>2
<1>6. buf[p][1] \in Cell
  BY <1>2, <1>5, ElementOfSeq, Zenon
<1>7. long => u \in Overlong
  <2>1. buf[p][1][3] => buf[p][1][1] \in Overlong
    BY <1>6, Zenon DEF Cell
  <2> QED
    BY <1>4, <2>1, Zenon
<1>8. Carries(buf[p], u)
  BY <1>4, <1>5, Zenon DEF Carries
<1> QED
  BY <1>1, <1>7, <1>8, Zenon DEF Heard

\* parser() makes a record of a reply.
LEMMA SerialMake ==
  ASSUME SerialInv, NEW p \in Port,
         ParsePrecision(p) \/ ParseName(p) \/ ParseRepID(p) \/ ParseOverlong(p)
  PROVE  SerialInv'
<1>1. UNCHANGED loopVars /\ UNCHANGED <<asked, line, buf, pcodec>>
  BY Zenon DEF ParsePrecision, ParseName, ParseRepID, ParseOverlong
<1>2. /\ listenPc[p] \in {"parse"} \cup Making /\ pcodec[p] \in Protocol
      /\ lnInst[pcodec[p]] \in Unit \cup {None, Torn} /\ scale[pcodec[p]] \in Unit \cup {None}
  BY Zenon DEF ParsePrecision, ParseName, ParseRepID, ParseOverlong, Making, SerialInv, PortInv, LoopTypes
<1>3. SUFFICES ASSUME NEW record \in Record, NEW pc \in Making,
                      out' = [out EXCEPT ![p] = record], listenPc' = [listenPc EXCEPT ![p] = pc],
                      IF record.long
                      THEN /\ pc = "store" /\ record.from \in Overlong
                           /\ {record.as, record.repID, record.scaledBy} = {Unfilled}
                      ELSE /\ ProtocolOf[record.from] = pcodec[p] /\ Carries(buf[p], record.from)
                           /\ ScaleAllowed(record.from, record.scaledBy)
                           /\ record.scaledBy # None => ProtocolOf[record.scaledBy] = ProtocolOf[record.from]
                           /\ pc \in {"repID", "store"} => NameAllowed(record.from, record.as)
                           /\ pc = "store" => NameAllowed(record.from, record.repID)
               PROVE  SerialInv'
  <2>1. CASE ParsePrecision(p)
    <3>1. PICK u \in Origins(pcodec[p], buf[p], FALSE) :
            out' = [out EXCEPT ![p] = [from |-> u, long |-> FALSE, scaledBy |-> scale[pcodec[p]],
                                       as |-> Unfilled, repID |-> Unfilled]]
      BY <2>1, Zenon DEF ParsePrecision
    <3>2. listenPc[p] = "parse" /\ listenPc' = [listenPc EXCEPT ![p] = "lnInst"]
      BY <2>1, Zenon DEF ParsePrecision
    <3>3. u \in Unit /\ ProtocolOf[u] = pcodec[p] /\ Carries(buf[p], u) /\ Heard(u)
      BY <3>2, OriginHeard, Zenon
    <3>4. ScaleAllowed(u, scale[pcodec[p]])
      BY <3>3, Zenon DEF SerialInv, TellInv, Told
    <3>5. scale[pcodec[p]] # None => ProtocolOf[scale[pcodec[p]]] = ProtocolOf[u]
      BY <1>2, <3>3, Zenon DEF SerialInv, TellInv, ScaleInv
    <3> DEFINE rec == [from |-> u, long |-> FALSE, scaledBy |-> scale[pcodec[p]],
                       as |-> Unfilled, repID |-> Unfilled]
    <3>6. rec \in Record
      BY <1>2, <3>3, Zenon DEF Record
    <3>7. rec.from = u /\ rec.long = FALSE /\ rec.scaledBy = scale[pcodec[p]]
      BY Zenon
    <3> HIDE DEF rec
    <3> QED
      BY <1>3, <3>1, <3>2, <3>3, <3>4, <3>5, <3>6, <3>7, Zenon DEF rec, Making
  <2>2. CASE ParseName(p)
    <3>1. /\ listenPc[p] = "lnInst" /\ listenPc' = [listenPc EXCEPT ![p] = "repID"]
          /\ out' = [out EXCEPT ![p] = [out[p] EXCEPT !.as = lnInst[pcodec[p]]]]
      BY <2>2, Zenon DEF ParseName
    <3>2. out[p] \in Record /\ ~out[p].long /\ FilledInv(p)
      BY <3>1, Zenon DEF SerialInv, PortInv, UnfilledInv, Making
    <3>3. out[p].from \in Unit /\ Heard(out[p].from)
      BY <3>2, Zenon DEF Record, FilledInv, Heard
    <3>4. NameAllowed(out[p].from, lnInst[pcodec[p]])
      BY <3>2, <3>3, Zenon DEF SerialInv, TellInv, Told, FilledInv
    <3> DEFINE rec == [out[p] EXCEPT !.as = lnInst[pcodec[p]]]
    <3>5. rec \in Record
      BY <1>2, <3>2, Zenon DEF Record
    <3>6. /\ rec.from = out[p].from /\ rec.long = out[p].long /\ rec.scaledBy = out[p].scaledBy
          /\ rec.as = lnInst[pcodec[p]]
      BY <3>2, Zenon DEF Record
    <3>7. out' = [out EXCEPT ![p] = rec]
      BY <3>1, Zenon
    <3> HIDE DEF rec
    <3> QED
      BY <1>3, <3>1, <3>2, <3>4, <3>5, <3>6, <3>7, Zenon DEF FilledInv, Making
  <2>3. CASE ParseRepID(p)
    <3>1. /\ listenPc[p] = "repID" /\ listenPc' = [listenPc EXCEPT ![p] = "store"]
          /\ out' = [out EXCEPT ![p] = [out[p] EXCEPT !.repID = lnInst[pcodec[p]]]]
      BY <2>3, Zenon DEF ParseRepID
    <3>2. out[p] \in Record /\ ~out[p].long /\ FilledInv(p)
      BY <3>1, Zenon DEF SerialInv, PortInv, UnfilledInv, Making
    <3>3. out[p].from \in Unit /\ Heard(out[p].from)
      BY <3>2, Zenon DEF Record, FilledInv, Heard
    <3>4. NameAllowed(out[p].from, lnInst[pcodec[p]])
      BY <3>2, <3>3, Zenon DEF SerialInv, TellInv, Told, FilledInv
    <3> DEFINE rec == [out[p] EXCEPT !.repID = lnInst[pcodec[p]]]
    <3>5. rec \in Record
      BY <1>2, <3>2, Zenon DEF Record
    <3>6. /\ rec.from = out[p].from /\ rec.long = out[p].long /\ rec.scaledBy = out[p].scaledBy
          /\ rec.as = out[p].as /\ rec.repID = lnInst[pcodec[p]]
      BY <3>2, Zenon DEF Record
    <3>7. out' = [out EXCEPT ![p] = rec]
      BY <3>1, Zenon
    <3> HIDE DEF rec
    <3> QED
      BY <1>3, <3>1, <3>2, <3>4, <3>5, <3>6, <3>7, Zenon DEF FilledInv, Making
  <2>4. CASE ParseOverlong(p)
    <3>1. PICK u \in Origins(pcodec[p], buf[p], TRUE) :
            out' = [out EXCEPT ![p] = [from |-> u, long |-> TRUE, scaledBy |-> Unfilled,
                                       as |-> Unfilled, repID |-> Unfilled]]
      BY <2>4, Zenon DEF ParseOverlong
    <3>2. listenPc[p] = "parse" /\ listenPc' = [listenPc EXCEPT ![p] = "store"]
      BY <2>4, Zenon DEF ParseOverlong
    <3>3. u \in Unit /\ u \in Overlong
      BY <3>2, OriginHeard, Zenon
    <3> DEFINE rec == [from |-> u, long |-> TRUE, scaledBy |-> Unfilled,
                       as |-> Unfilled, repID |-> Unfilled]
    <3>4. rec \in Record
      BY <3>3, Zenon DEF Record
    <3>5. rec.from = u /\ rec.long = TRUE /\ {rec.as, rec.repID, rec.scaledBy} = {Unfilled}
      BY Zenon
    <3>6. out' = [out EXCEPT ![p] = rec]
      BY <3>1, Zenon
    <3> HIDE DEF rec
    <3> QED
      BY <1>3, <3>2, <3>3, <3>4, <3>5, <3>6, Zenon DEF Making
  <2> QED
    BY <2>1, <2>2, <2>3, <2>4, Zenon
<1>4. /\ out'[p] = record /\ listenPc'[p] = pc
      /\ \A r \in Port \ {p} : listenPc'[r] = listenPc[r] /\ out'[r] = out[r]
  BY <1>3, Zenon DEF SerialInv, PortTypes
<1>5. PortTypes'
  BY <1>1, <1>3, Zenon DEF SerialInv, PortTypes, loopVars
<1>6. \A u, x : (ScaleAllowed(u, x)' <=> ScaleAllowed(u, x)) /\ (NameAllowed(u, x)' <=> NameAllowed(u, x))
  BY <1>1, Zenon DEF loopVars, ScaleAllowed, NameAllowed
<1>7. CASE record.long
  <2>1. UnfilledInv(p)'
    BY <1>3, <1>4, <1>7, Zenon DEF UnfilledInv
  <2>2. PortInv(p)'
    BY <1>1, <1>2, <1>3, <1>4, <1>7, <2>1, Zenon DEF PortInv, Making
  <2> QED
    BY <1>1, <1>4, <1>5, <2>2, SerialPort1, Zenon
<1>8. CASE ~record.long
  <2>1. FilledInv(p)'
    BY <1>1, <1>3, <1>4, <1>6, <1>8, Zenon DEF FilledInv, NameAllowed, ScaleAllowed, loopVars
  <2>2. PortInv(p)'
    BY <1>1, <1>2, <1>3, <1>4, <1>8, <2>1, Zenon DEF PortInv, Making
  <2> QED
    BY <1>1, <1>4, <1>5, <2>2, SerialPort1, Zenon
<1> QED
  BY <1>7, <1>8, Zenon

\* Back to read(): after a record, an error, or with an incomplete reply.
LEMMA SerialReadOn ==
  ASSUME SerialInv, NEW p \in Port, Store(p) \/ ParseShort(p) \/ ParseOther(p)
  PROVE  SerialInv'
<1>1. /\ UNCHANGED loopVars /\ UNCHANGED <<asked, line>>
      /\ listenPc[p] \in {"parse"} \cup Making /\ listenPc' = [listenPc EXCEPT ![p] = "read"]
      /\ pcodec' = [pcodec EXCEPT ![p] = None]
      /\ out' = out \/ out' = [out EXCEPT ![p] = None]
      /\ (buf' = buf /\ Short(pcodec[p], buf[p])) \/ buf' = [buf EXCEPT ![p] = <<>>]
  BY Zenon DEF Store, ParseShort, ParseOther, ReadOn, Making
<1>2. pcodec[p] \in Protocol
  BY <1>1, Zenon DEF SerialInv, PortInv
<1>3. /\ listenPc'[p] = "read" /\ buf'[p] \in {buf[p], <<>>}
      /\ \A r \in Port \ {p} : /\ line'[r] = line[r] /\ listenPc'[r] = listenPc[r] /\ buf'[r] = buf[r]
                               /\ pcodec'[r] = pcodec[r] /\ out'[r] = out[r]
      /\ buf'[p] = <<>> \/ (buf'[p] = buf[p] /\ Short(pcodec[p], buf[p]))
  BY <1>1, Zenon DEF SerialInv, PortTypes
<1>4. PortTypes'
  BY <1>1, NothingCarried, Zenon DEF SerialInv, PortTypes, loopVars
<1>5. RoomInv(p)'
  BY <1>2, <1>3, NothingCarried, Zenon DEF RoomInv, Short
<1>6. PortInv(p)'
  BY <1>3, <1>5, Zenon DEF PortInv, Making
<1>7. \A u \in Unit : Carries(buf'[p], u) => Carries(buf[p], u)
  BY <1>3, NothingCarried, Zenon
<1> QED
  BY <1>1, <1>3, <1>4, <1>6, <1>7, SerialPort1, Zenon

LEMMA SerialStep == SerialInv /\ [Next]_vars => SerialInv'
<1> SUFFICES ASSUME SerialInv, [Next]_vars PROVE SerialInv'
  BY Zenon
<1>1. ASSUME NEW p \in Port, ReadSome(p) PROVE SerialInv'
  BY <1>1, SerialRead, Zenon DEF ReadSome
<1>2. ASSUME NEW p \in Port, ListenStep(p) PROVE SerialInv'
  BY <1>1, <1>2, SerialListen, SerialMake, SerialReadOn, Zenon DEF ListenStep, ParseStep
<1>3. ASSUME NEW p \in Port, Start(p) \/ Noise(p) \/ ListenFails(p) \/ ReadWild(p) \/ StoreUnfilled(p)
      PROVE  SerialInv'
  BY <1>3, SerialStart, SerialNoise, SerialListen, Zenon
<1>4. ASSUME NEW u \in Unit, TimerStep(u) \/ Answer(u) \/ Reply(u, TRUE) PROVE SerialInv'
  BY <1>4, SerialFire, SerialReply, Zenon DEF TimerStep, Answer
<1>5. CASE QueryStep
  BY <1>5, SerialSetParams, SerialName, SerialWrite, Zenon DEF QueryStep
<1>6. CASE UNCHANGED vars
  <2>1. UNCHANGED loopVars /\ UNCHANGED listenVars /\ UNCHANGED <<asked, line>>
    BY <1>6, Zenon DEF vars, loopVars, listenVars
  <2> QED
    BY <2>1, SerialLine, Zenon DEF SerialInv, PortTypes, Heard
<1> QED
  BY <1>2, <1>3, <1>4, <1>5, <1>6, Zenon DEF Next

LEMMA SerialInvariant == Spec => []SerialInv
<1>1. SerialInv /\ [Next]_vars => SerialInv'
  BY SerialStep, Zenon
<1> QED
  BY <1>1, SerialInit, PTL DEF Spec
-----------------------------------------------------------------------------
(* The theorems *)

\* Whatever interleaving of the one loop thread with the listening threads of all
\* ports, and wherever setConfig() writes while parser() reads: a reply is stored
\* under the name, and scaled by the precision, of its sender or of a unit of the
\* same protocol that was configured after the sender was asked; a unit without a
\* precision gets that of any unit of its protocol (Attribution of SerialPort).
THEOREM RepliesAttributed == Spec => []Attribution
<1>1. ASSUME SerialInv PROVE Attribution
  <2> SUFFICES ASSUME NEW p \in Port, listenPc[p] = "store"
               PROVE  LET record == out[p]
                          u == record.from
                      IN IF record.long
                         THEN {record.as, record.repID, record.scaledBy} = {Unfilled} /\ u \in Overlong
                         ELSE /\ NameAllowed(u, record.as) /\ NameAllowed(u, record.repID)
                              /\ ScaleAllowed(u, record.scaledBy)
                              /\ \A v \in since[u] \cup ({record.scaledBy} \ {None}) : ProtocolOf[v] = ProtocolOf[u]
    BY Zenon DEF Attribution
  <2>1. out[p] \in Record /\ (IF out[p].long THEN UnfilledInv(p) ELSE FilledInv(p))
    BY <1>1, Zenon DEF SerialInv, PortInv, Making
  <2>2. CASE out[p].long
    BY <2>1, <2>2, Zenon DEF UnfilledInv
  <2>3. CASE ~out[p].long
    <3>1. FilledInv(p) /\ out[p].from \in Unit
      BY <2>1, <2>3, Zenon DEF Record
    <3>2. \A v \in since[out[p].from] : ProtocolOf[v] = ProtocolOf[out[p].from]
      BY <1>1, <3>1, Zenon DEF SerialInv, TellInv, SinceInv
    <3> QED
      BY <2>3, <3>1, <3>2, Zenon DEF FilledInv
  <2> QED
    BY <2>2, <2>3, Zenon
<1> QED
  BY <1>1, SerialInvariant, PTL

\* Whatever the uninitialised "n" was and whatever comes in: from the second read()
\* on, the only way past read_buf is a single read() that returns more than what an
\* incomplete reply leaves free (ReadsFit of SerialPort).
THEOREM ReadsThatFit == Spec => ReadsFit
<1>1. ASSUME SerialInv, [Next]_vars
      PROVE  \A p \in Port :
               listenPc[p] = "read" /\ listenPc'[p] = "undefined" =>
                 \E q \in Protocol : FrameLen[q] - 1 + (Len(line[p]) - Len(line'[p])) > BufSize
  <2> SUFFICES ASSUME NEW p \in Port, listenPc[p] = "read", listenPc'[p] = "undefined"
               PROVE  \E q \in Protocol : FrameLen[q] - 1 + (Len(line[p]) - Len(line'[p])) > BufSize
    BY Zenon
  <2>1. PICK k \in 1..Len(line[p]) : k <= BufSize /\ Read(p, k)
    <3>1. /\ listenPc \in [Port -> {"off", "start", "first", "wild", "read", "parse", "returned", "undefined"}
                                     \cup Making]
          /\ listenPc' # listenPc
      BY <1>1, Zenon DEF SerialInv, PortTypes
    <3>2. \A r \in Port : ListenStep(r) => r = p /\ ReadSome(p)
      BY <3>1, Zenon DEF ListenStep, Listen, ReadSome, Read, ParseStep, ParsePrecision, ParseName,
        ParseRepID, ParseOverlong, ParseShort, ParseOther, Store, ReadOn
    <3>3. \A r \in Port : ~(Start(r) \/ Noise(r) \/ ListenFails(r) \/ ReadWild(r) \/ StoreUnfilled(r))
      BY <3>1, Zenon DEF Start, Noise, ListenFails, ReadWild, StoreUnfilled, listenVars
    <3>4. \A u \in Unit : ~(TimerStep(u) \/ Answer(u) \/ Reply(u, TRUE))
      BY <3>1, Zenon DEF TimerStep, Fire, Answer, Reply, listenVars
    <3>5. ~QueryStep /\ ~UNCHANGED vars
      BY <3>1, Zenon DEF QueryStep, SetParams, SetName, NameSet, Write, listenVars, vars
    <3> QED
      BY <1>1, <3>2, <3>3, <3>4, <3>5, Zenon DEF Next, ReadSome
  <2>2. line[p] \in Seq(Cell) /\ buf[p] \in Seq(Cell) /\ line \in [Port -> Seq(Cell)]
    BY <1>1, Zenon DEF SerialInv, PortTypes
  <2>3. Len(line[p]) \in Nat /\ Len(buf[p]) \in Nat /\ BufSize \in Nat
    BY <2>2, LenProperties, SerialPortAssumption, Zenon
  <2>4. line'[p] = SubSeq(line[p], k + 1, Len(line[p]))
    BY <2>1, <2>2, Zenon DEF Read
  <2>5. Len(line[p]) - Len(line'[p]) = k
    BY <2>2, <2>3, <2>4, SubSeqCells
  <2>6. Len(buf[p]) + k > BufSize
    <3>1. CASE ~(Len(buf[p]) + k > BufSize)
      <4>1. listenPc' = [listenPc EXCEPT ![p] = IF codec[p] = None THEN "read" ELSE "parse"]
        BY <2>1, <3>1, Zenon DEF Read
      <4> QED
        BY <1>1, <4>1, Zenon DEF SerialInv, PortTypes
    <3> QED
      BY <3>1, Zenon
  <2>7. RoomInv(p)
    BY <1>1, Zenon DEF SerialInv, PortInv
  <2>8. PICK q \in Protocol : Len(buf[p]) < FrameLen[q]
    BY <2>1, <2>3, <2>6, <2>7 DEF RoomInv
  <2>9. FrameLen[q] \in Nat
    BY SerialPortAssumption, Zenon
  <2>10. FrameLen[q] - 1 + k > BufSize
    BY <2>1, <2>3, <2>6, <2>8, <2>9
  <2> QED
    BY <2>5, <2>10, Zenon
<1> QED
  BY <1>1, SerialInvariant, PTL DEF Spec, ReadsFit
=============================================================================
