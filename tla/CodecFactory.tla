---------------------------- MODULE CodecFactory ----------------------------
(***************************************************************************)
(* The table of the codecs (CodecFactory.cpp): the first getInstance()     *)
(* loads the shared libraries of the directory ../lib in the order of      *)
(* readdir() and asks each one for its codec.                              *)
(*                                                                         *)
(* An entry of the directory is a record [dir, so, pname, opens, symbol,   *)
(* makes]: it is a directory; its name contains ".so"; the part of the     *)
(* name between "lib" and ".so" (NoName if they are not there in that      *)
(* order); dlopen() succeeds; dlsym() finds getInstance; that function     *)
(* returns a codec.                                                        *)
(***************************************************************************)
EXTENDS Sequences, SequencesExt

CONSTANTS
  Library,  \* the entries of the directory
  NoName    \* pname of a library that is not named lib<protocol>.so

VARIABLES
  instance,  \* instance_: "null", or made with "noLibs" or with "libs"
  codecList  \* codecList_: protocol name -> the library its codec is from

NoCodecs == [p \in {} |-> {}]

Init == instance = "null" /\ codecList = NoCodecs

\* What getCodecLibraries() lists if opendir() succeeds.
CodecLibraries == {l \in Library : ~l.dir /\ l.so}

\* The library gets as far as "codecList_[pname] = pcodecbase".
Loads(l) == l.opens /\ l.symbol /\ l.pname # NoName /\ l.makes

Register(list, l) == IF Loads(l) THEN (l.pname :> l) @@ list ELSE list

\* Mutant: a library that does not load ends the loop.
AllOfStops(order) ==
  FoldLeft(LAMBDA acc, l : IF acc.on /\ Loads(l) THEN [acc EXCEPT !.list = Register(@, l)] ELSE [acc EXCEPT !.on = FALSE],
           [on |-> TRUE, list |-> NoCodecs], order).list

\* The loop of the constructor: a library that does not load is skipped, and
\* the last of two of one name stays.
AllOf(order) == FoldLeft(Register, NoCodecs, order)

\* getInstance().  If opendir() fails there are no libraries, and no later call asks again.
GetInstance ==
  IF instance # "null" THEN UNCHANGED <<instance, codecList>>
  ELSE \E order \in SetToSeqs(CodecLibraries) \cup {<<>>} :
         /\ instance' = IF order = <<>> THEN "noLibs" ELSE "libs"
         /\ codecList' = AllOf(order)

\* getCodec(): the codec, or none.
GetCodec(list, protocolname) ==
  IF protocolname # "" /\ protocolname \in DOMAIN list THEN {list[protocolname]} ELSE {}
=============================================================================
