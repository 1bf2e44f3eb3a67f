-------------------------- MODULE MCConfiguration ---------------------------
(***************************************************************************)
(* Files in the form of those of Configs/: two for port RS485A, of which   *)
(* the second repeats the unit of the first with another device and names  *)
(* a unit of RS485B, the file of RS485B, and a file without a port.        *)
(* Libraries of which one does not load and two have the same protocol.    *)
(* A settings file with a comment at its end, as the one in conf/, one     *)
(* with a comment in the middle, the first with a comment, an item or both *)
(* behind </configs>, and none.                                            *)
(***************************************************************************)
EXTENDS Configuration

MeasurePointOf(deviceid, id) == [deviceid |-> deviceid, id |-> id, params |-> <<"SmpTm", "Amp">>]
MonitorUnitOf(port, protocolname, mac, interval, mps) ==
  [name |-> "MU1", protocolname |-> protocolname, mac |-> mac, interval |-> interval,
   port |-> port, points |-> mps]

Files ==
  { [rs485 |-> "RS485A", units |->
       <<MonitorUnitOf("RS485A", "MMXN", "3", "7000", <<MeasurePointOf(1, "MMXN1")>>),
         MonitorUnitOf("RS485A", "MMXN", "5", "7000", <<MeasurePointOf(2, "MMXN2")>>)>>],
    [rs485 |-> "RS485A", units |->
       <<MonitorUnitOf("RS485A", "MMXN", "3", "8000", <<MeasurePointOf(3, "MMXN3")>>),
         MonitorUnitOf("RS485B", "HDSF6", "4", "7000", <<MeasurePointOf(4, "HDSF4")>>)>>],
    [rs485 |-> "RS485B", units |->
       <<MonitorUnitOf("RS485B", "HDSF6", "4", Nil, <<MeasurePointOf(0, "HDSF0")>>),
         MonitorUnitOf("RS485B", "HDSF6", Nil, "7000", <<MeasurePointOf(5, "HDSF5"), MeasurePointOf(6, "HDSF6")>>),
         MonitorUnitOf("RS485B", "MMXN", "", "7000", <<MeasurePointOf(7, "MMXN7")>>)>>],
    [rs485 |-> "", units |-> <<MonitorUnitOf("RS485A", "MMXN", "6", "7000", <<MeasurePointOf(8, "MMXN8")>>)>>] }

Precisions ==
  [k \in {<<1, "MMXN1", "Amp">>, <<2, "MMXN2", "Amp">>, <<3, "MMXN3", "Amp">>, <<2, "MMXN2", "SmpTm">>} |->
     IF k[3] = "SmpTm" THEN Nil ELSE IF k[1] = 3 THEN "1" ELSE "0.1"]

LibraryOf(pname, opens, symbol) ==
  [dir |-> FALSE, so |-> TRUE, pname |-> pname, opens |-> opens, symbol |-> symbol, makes |-> TRUE]
Libraries ==
  { LibraryOf("MMXN", TRUE, TRUE),
    LibraryOf("MMXN", FALSE, FALSE),
    LibraryOf("ServerDataInput", TRUE, FALSE),
    [LibraryOf("HDSF6", TRUE, TRUE) EXCEPT !.makes = FALSE],
    [LibraryOf("HDSF6", TRUE, TRUE) EXCEPT !.dir = TRUE],
    [LibraryOf("HDSF6", TRUE, TRUE) EXCEPT !.so = FALSE] }

ConfOf(children, tail) == [root |-> TRUE, children |-> children, tail |-> tail]
Items == << <<"local_ip", 1>>, <<"proxy_port", 2>>, <<"last_upload", 1>>, <<>> >>
Commented == << <<>>, <<"proxy_port", 0>>, <<"unknown", 1>>, <<>>, <<"local_ip", 2>> >>
ConfFiles ==
  { ConfOf(Items, <<>>), ConfOf(Commented, <<>>), ConfOf(Items, << <<>> >>),
    ConfOf(Items, << <<"local_ip", 2>> >>), ConfOf(Items, << <<"proxy_port", 1>>, <<>> >>),
    [root |-> FALSE, children |-> <<>>, tail |-> <<>>] }
Defaults == [n \in {"local_ip", "proxy_port", "last_upload"} |-> 3]
=============================================================================
