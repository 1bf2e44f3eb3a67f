--------------------------- MODULE DeviceManager ----------------------------
(***************************************************************************)
(* The configuration of the gateway (DeviceManager.cpp, MonitorUnit.cpp,   *)
(* MeasurePoint.cpp, SerialPort::insertMonitorUnit): load() walks the XML  *)
(* files in the order of readdir() and builds ports, monitor units,        *)
(* measure points and parameters, each keyed and each inserted only if its *)
(* key is new.  start() then opens the ports and gives every unit with a   *)
(* numeric interval its timer.                                             *)
(*                                                                         *)
(* The four nested loops of load() are the sequences of elements they have *)
(* still to visit.  The maps become sets of records that contain their     *)
(* keys; Add is the "find, then insert" of all of them.                    *)
(***************************************************************************)
EXTENDS Naturals, FiniteSets, Sequences

CONSTANTS
  File,       \* the files of the directory: [rs485, units]
  Precision   \* DeviceTotal_v1.0.xml: <<deviceid, id, param>> -> precision

\* The elements of a list of XML elements.
Elems(s) == {s[i] : i \in 1 .. Len(s)}

ASSUME DeviceManagerAssumption ==
  /\ IsFiniteSet(File)
  /\ \A f \in File :
       /\ f.units \in Seq(Elems(f.units))
       /\ \A u \in Elems(f.units) :
            /\ u.points \in Seq(Elems(u.points))
            /\ \A p \in Elems(u.points) : p.params \in Seq(Elems(p.params))

VARIABLES
  files,        \* configfiles_ that load() has still to read
  units,        \* MonitorUnit elements left in the file
  points,       \* MeasurePoint elements left in the unit
  params,       \* param elements left in the point
  file,         \* the file, the unit and the point that load() is in
  unit,
  point,
  serialPorts,  \* serialPortList_ ...
  monitorUnits, \* ... the monitorUnitList_ of its ports ...
  measurePoints,\* ... the measurePointList_ of their units ...
  paramList,    \* ... and the paramList_ of their points
  created,      \* instance_ is there: its constructor calls load()
  started,      \* ports with started_
  timers        \* <<port, key>> of the units that have a timer

cursors == <<files, units, points, params, file, unit, point>>
lists == <<serialPorts, monitorUnits, measurePoints, paramList>>
vars == <<files, units, points, params, file, unit, point, serialPorts, monitorUnits,
          measurePoints, paramList, created, started, timers>>

Nil == "none"

\* boost::lexical_cast() takes the string for a number.
IsNumber(s) == s \notin {"", Nil}

\* protocolname + mac
Key(u) == u.protocolname \o u.mac

\* The map has no entry for the key, which is the record without its value.
Add(list, key, value) ==
  IF \E entry \in list : entry.key = key THEN list ELSE list \cup {[key |-> key, value |-> value]}

Has(list, key) == \E entry \in list : entry.key = key

Init ==
  /\ files = <<>> /\ units = <<>> /\ points = <<>> /\ params = <<>>
  /\ file = Nil /\ unit = Nil /\ point = Nil
  /\ serialPorts = {} /\ monitorUnits = {} /\ measurePoints = {} /\ paramList = {}
  /\ created = FALSE /\ started = {} /\ timers = {}
-----------------------------------------------------------------------------
\* readdir() returns the files of the directory once each, in any order.
ReadDir == {s \in [1 .. Cardinality(File) -> File] : \A f \in File : \E i \in DOMAIN s : s[i] = f}

\* getInstance(), the constructor and load().  The order of the files is that
\* of readdir(), and nothing is loaded if there is no directory to read.
Load ==
  /\ ~created
  /\ created' = TRUE
  /\ files' \in ReadDir \cup {<<>>}
  /\ UNCHANGED <<units, points, params, file, unit, point, lists, started, timers>>

\* The next file: insertSerialPort().  A file without a named RS485 element is
\* skipped with all its units.
LoadFile ==
  /\ units = <<>> /\ points = <<>> /\ params = <<>> /\ files # <<>>
  /\ files' = Tail(files) /\ file' = Head(files)
  /\ IF file'.rs485 = ""
     THEN UNCHANGED <<serialPorts, units>>
     ELSE /\ serialPorts' = Add(serialPorts, <<file'.rs485>>, file')
          /\ units' = file'.units
  /\ UNCHANGED <<points, params, unit, point, monitorUnits, measurePoints, paramList, created, started, timers>>

\* SerialPort::insertMonitorUnit()
InsertMonitorUnit(u) ==
  IF "" \in {u.name, u.protocolname, u.mac} THEN monitorUnits
  ELSE Add(monitorUnits, <<u.port, Key(u)>>, u)

\* Mutant: a duplicate unit is skipped with its measure points.
LoadUnitOnce ==
  /\ points = <<>> /\ params = <<>> /\ units # <<>>
  /\ units' = Tail(units) /\ unit' = Head(units)
  /\ IF Has(serialPorts, <<unit'.port>>) /\ ~Has(monitorUnits, <<unit'.port, Key(unit')>>)
     THEN monitorUnits' = InsertMonitorUnit(unit') /\ points' = unit'.points
     ELSE UNCHANGED <<monitorUnits, points>>
  /\ UNCHANGED <<files, params, file, point, serialPorts, measurePoints, paramList, created, started, timers>>

\* The next MonitorUnit: skipped if its port is not known (yet).
LoadUnit ==
  /\ points = <<>> /\ params = <<>> /\ units # <<>>
  /\ units' = Tail(units) /\ unit' = Head(units)
  /\ IF Has(serialPorts, <<unit'.port>>)
     THEN monitorUnits' = InsertMonitorUnit(unit') /\ points' = unit'.points
     ELSE UNCHANGED <<monitorUnits, points>>
  /\ UNCHANGED <<files, params, file, point, serialPorts, measurePoints, paramList, created, started, timers>>

\* The next MeasurePoint of the unit, and insertMeasurePoint().  The unit is
\* looked up by its key: it need not be the element that load() is in.
LoadPoint ==
  /\ params = <<>> /\ points # <<>>
  /\ points' = Tail(points) /\ point' = Head(points)
  /\ IF Has(monitorUnits, <<unit.port, Key(unit)>>)
     THEN /\ measurePoints' = IF point'.deviceid = 0 THEN measurePoints
                              ELSE Add(measurePoints, <<unit.port, Key(unit), point'.deviceid>>, point')
          /\ params' = point'.params
     ELSE UNCHANGED <<measurePoints, params>>
  /\ UNCHANGED <<files, units, file, unit, serialPorts, monitorUnits, paramList, created, started, timers>>

\* getFullParams(): the precision stays empty if DeviceTotal has no such entry.
GetFullParams(p, name) ==
  LET k == <<p.deviceid, p.id, name>> IN IF k \in DOMAIN Precision THEN Precision[k] ELSE ""

\* The next param of the point, and insertParam().
LoadParam ==
  /\ params # <<>>
  /\ params' = Tail(params)
  /\ LET name == Head(params)
         at == <<unit.port, Key(unit), point.deviceid>>
     IN paramList' = IF Has(measurePoints, at) /\ name # ""
                     THEN Add(paramList, <<unit.port, Key(unit), point.deviceid, name>>, GetFullParams(point, name))
                     ELSE paramList
  /\ UNCHANGED <<files, units, points, file, unit, point, serialPorts, monitorUnits, measurePoints, created, started, timers>>

Loaded == created /\ files = <<>> /\ units = <<>> /\ points = <<>> /\ params = <<>>

\* init(): the ports it can open and set up; it closes the others again.
InitPort(ports) == SUBSET ports

\* startTimers(): one timer for each unit whose interval is a number.
StartTimers(ports) ==
  {e.key : e \in {u \in monitorUnits : u.key[1] \in ports /\ IsNumber(u.value.interval)}}

\* start() of the ports that are not started.  A port that could not be opened
\* is as before.
Start ==
  /\ Loaded
  /\ \E opened \in InitPort({entry.key[1] : entry \in serialPorts} \ started) :
       /\ started' = started \cup opened
       /\ timers' = timers \cup StartTimers(opened)
  /\ UNCHANGED <<cursors, lists, created>>

Next == Load \/ LoadFile \/ LoadUnit \/ LoadPoint \/ LoadParam \/ Start

\* The devices by themselves.
LoadSpec == Init /\ [][Next]_vars
-----------------------------------------------------------------------------
(* Properties *)

\* The order of readdir() does not matter for a unit that names the port of
\* its own file: it is there after load(), with its points and parameters,
\* even if another file defined the same unit first.
OwnUnitsLoaded ==
  Loaded /\ serialPorts # {} => \A f \in File : \A i \in 1..Len(f.units) :
    LET u == f.units[i] IN
      (f.rs485 # "" /\ u.port = f.rs485 /\ "" \notin {u.name, u.protocolname, u.mac}) =>
        /\ Has(monitorUnits, <<u.port, Key(u)>>)
        /\ \A j \in 1..Len(u.points) :
             u.points[j].deviceid # 0 =>
               /\ Has(measurePoints, <<u.port, Key(u), u.points[j].deviceid>>)
               /\ \A k \in 1..Len(u.points[j].params) :
                    Has(paramList, <<u.port, Key(u), u.points[j].deviceid, u.points[j].params[k]>>)
=============================================================================
