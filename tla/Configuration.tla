---------------------------- MODULE Configuration ---------------------------
(***************************************************************************)
(* The configuration of the program: either the devices (DeviceManager and *)
(* the codecs of CodecFactory, which onQueryDataTimer() brings together),  *)
(* or the settings of ConfUtil, which share no state with them.            *)
(***************************************************************************)
EXTENDS DeviceManager

CONSTANTS
  Library, NoName,
  ConfFile, TextItem, NumberItem, LastUpload, OtherItem, Value, Number, Default, MaxSaves

VARIABLES
  part,                 \* "devices" or "settings"
  instance, codecList,  \* of CodecFactory
  polled,               \* what the last onQueryDataTimer() configured and asked
  conf, process, settings, saving, saves, intended, torn, fresh  \* of ConfUtil

factory == INSTANCE CodecFactory
util == INSTANCE ConfUtil

pollVars == <<instance, codecList, polled>>
utilVars == <<conf, process, settings, saving, saves, intended, torn, fresh>>

Nobody == [unit |-> <<>>]

ConfigurationInit ==
  /\ part \in {"devices", "settings"}
  /\ Init /\ factory!Init /\ util!Init
  /\ polled = Nobody
-----------------------------------------------------------------------------
\* getFirstMeasurePoint(): the one with the least deviceid.
FirstMeasurePoint(k) ==
  LET mps == {e \in measurePoints : SubSeq(e.key, 1, 2) = k}
  IN {e \in mps : \A d \in mps : e.key[3] <= d.key[3]}

\* getParamConfigList(): the precisions that are numbers, of all the measure
\* points of the unit; the last of several of one name stays.
GetParamConfigList(k) ==
  LET numeric == {e \in paramList : SubSeq(e.key, 1, 2) = k /\ IsNumber(e.value)}
  IN [n \in {e.key[4] : e \in numeric} |->
        (CHOOSE e \in numeric : e.key[4] = n /\ \A d \in numeric : d.key[4] = n => d.key[3] <= e.key[3]).value]

\* onQueryDataTimer() of a unit: it returns if the codec, the measure point or
\* a numeric mac is missing.
OnQueryDataTimer(k) ==
  /\ k \in timers
  /\ factory!GetInstance
  /\ \E u \in monitorUnits :
       /\ u.key = k
       /\ LET codec == factory!GetCodec(codecList', u.value.protocolname)
              mp == FirstMeasurePoint(k)
          IN polled' = IF codec # {} /\ mp # {} /\ IsNumber(u.value.mac)
                       THEN [unit |-> k, asked |-> TRUE, library |-> codec,
                             lnInst |-> {e.value.id : e \in mp}, precisions |-> GetParamConfigList(k)]
                       ELSE [unit |-> k, asked |-> FALSE]
  /\ UNCHANGED vars

ConfigurationNext ==
  \/ part = "devices" /\ Next /\ UNCHANGED <<part, pollVars, utilVars>>
  \/ part = "devices" /\ \E k \in timers : OnQueryDataTimer(k) /\ UNCHANGED <<part, utilVars>>
  \/ part = "settings" /\ util!Next /\ UNCHANGED <<part, vars, pollVars>>

ConfigurationSpec == ConfigurationInit /\ [][ConfigurationNext]_<<part, vars, pollVars, utilVars>>
-----------------------------------------------------------------------------
(* Properties *)

\* The elements of all files that describe the unit of the key.
Elements(k) ==
  {u \in UNION {{f.units[i] : i \in 1..Len(f.units)} : f \in {g \in File : g.rs485 # ""}} :
     <<u.port, Key(u)>> = k}

\* A unit that one element describes, in the file of its port, with a number
\* for its interval and mac and a library that loads for its protocol, has its
\* timer as soon as its port is started, and when it goes off the codec of that
\* library is told the measure point of the element and the precisions that
\* DeviceTotal_v1.0.xml has for it: whatever the order in which readdir()
\* returns files and libraries, and whichever of the others are broken.  If the
\* directory of the libraries cannot be opened, nothing is ever asked.
OwnUnitsPolled ==
  \A f \in File : \A i \in 1..Len(f.units) :
    LET u == f.units[i]
        k == <<u.port, Key(u)>>
        mp == u.points[1]
        good == {l \in factory!CodecLibraries : factory!Loads(l) /\ l.pname = u.protocolname}
    IN (/\ f.rs485 # "" /\ u.port = f.rs485 /\ "" \notin {u.name, u.protocolname}
        /\ Elements(k) = {u} /\ IsNumber(u.interval) /\ IsNumber(u.mac)
        /\ Len(u.points) = 1 /\ mp.deviceid # 0 /\ good # {}) =>
         /\ u.port \in started => k \in timers
         /\ polled.unit = k /\ instance = "noLibs" => ~polled.asked
         /\ polled.unit = k /\ instance = "libs" =>
              /\ polled.asked /\ polled.library \subseteq good /\ polled.lnInst = {mp.id}
              /\ polled.precisions =
                   [n \in {q \in {mp.params[j] : j \in 1..Len(mp.params)} : IsNumber(GetFullParams(mp, q))}
                      |-> GetFullParams(mp, n)]

\* SavedIsRead of ConfUtil.
SavedIsRead == util!SavedIsRead
=============================================================================
