---------------------------- MODULE MCSerialPort ----------------------------
(***************************************************************************)
(* Two lines in the form of those of Configs/: m1 and m2 have the same     *)
(* protocol, and so the same codec, on different ports; m2 has an interval *)
(* below a second and gives no precision, and x1 has a protocol without a  *)
(* codec library.  The uninitialised n is below, in or above read_buf.     *)
(***************************************************************************)
EXTENDS SerialPort

MCUnit == {"m1", "m2", "x1"}
MCPortOf == [u \in MCUnit |-> IF u = "m2" THEN "B" ELSE "A"]
MCProtocolOf == [u \in MCUnit |-> IF u = "x1" THEN "HDSF6" ELSE "MMXN"]
MCIntervalOf == [u \in MCUnit |-> IF u = "m2" THEN 999 ELSE 7000]
MCFrameLen == [q \in {"MMXN", "HDSF6"} |-> 2]
MCGarbage == {-1, 0, 2}
=============================================================================
