------------------------------ MODULE ConfUtil ------------------------------
(***************************************************************************)
(* The settings of the program (ConfigUtil.cpp): the constructor reads the *)
(* items of cma_conf.conf over the defaults, and saveItem2File() changes   *)
(* one item of the file.                                                   *)
(*                                                                         *)
(* The file is the children of <configs> and the nodes behind </configs>:  *)
(* an item is <<name, value>>, a comment is Comment, and Cut is an element *)
(* without name or value, as TinyXML makes of an item whose end is not in  *)
(* the file: Attribute() returns NULL for it and std::string throws.       *)
(***************************************************************************)
EXTENDS Naturals, Sequences, SequencesExt

CONSTANTS
  ConfFile,    \* the files the program may find at its first start
  TextItem,    \* items that are taken as they are: local_ip, db_path, ...
  NumberItem,  \* items that are converted: proxy_port, system_tick, ...
  LastUpload,  \* last_upload, converted as well
  OtherItem,   \* names that are no settings
  Value,       \* values of items ...
  Number,      \* ... of which these are numbers
  Default,     \* the values of Default_defs.h
  MaxSaves     \* bound on the calls of saveItem2File()

Comment == <<>>
Cut == <<"cut">>

\* A file that is missing, empty or has no <configs>.
Unreadable == [root |-> FALSE, children |-> <<>>, tail |-> <<>>]

Setting == TextItem \cup NumberItem \cup {LastUpload}

VARIABLES
  conf,      \* the file on disk
  process,   \* "none", "running" (instance_ is there), "hung" or "failed" (its start)
  settings,  \* the members of instance_
  saving,    \* the document that SaveFile() is writing, or Unreadable
  saves,
  intended,  \* history: name -> value of the items, as last saved
  torn,      \* history: a document was not written to its end
  fresh      \* history: the settings are those of the file, which was not saved since

vars == <<conf, process, settings, saving, saves, intended, torn, fresh>>

IsElement(node) == node # Comment

\* Index of FirstChild("item"), 0 if there is none.
FirstItem(nodes) == SelectInSeq(nodes, IsElement)

\* The nodes from the first item on that make up the walk over the siblings, up to
\* the first that is no element.
Walk(nodes) ==
  LET first == FirstItem(nodes)
      rest == IF first = 0 THEN <<>> ELSE SubSeq(nodes, first, Len(nodes))
      comment == SelectInSeq(rest, LAMBDA node : ~IsElement(node))
  IN IF comment = 0 THEN rest ELSE SubSeq(rest, 1, comment - 1)

\* A comment comes behind the first item: the walk meets it.
MeetsComment(nodes) == \E i, j \in 1..Len(nodes) : i < j /\ IsElement(nodes[i]) /\ ~IsElement(nodes[j])

\* The elements that updateConfigs() reads: at a comment it goes on with
\* "element->NextSibling()", the first node behind </configs>.
Visited(file) ==
  Walk(file.children) \o
    IF MeetsComment(file.children) /\ file.tail # <<>> /\ IsElement(file.tail[1]) THEN Walk(file.tail) ELSE <<>>

\* Any comment that it meets there sends it to that same first node, again and again.
Hangs(file) == MeetsComment(file.children) /\ \E i \in 1..Len(file.tail) : ~IsElement(file.tail[i])

\* What one item does to the settings.  A number that does not convert is
\* ignored.  "lastUploadTime_ = tmpLastUpload" stores a variable that was never
\* assigned.
Apply(old, item) ==
  CASE item[1] \in TextItem -> {[old EXCEPT ![item[1]] = item[2]]}
    [] item[1] \in NumberItem /\ item[2] \in Number -> {[old EXCEPT ![item[1]] = item[2]]}
    [] item[1] = LastUpload /\ item[2] \in Number -> {[old EXCEPT ![LastUpload] = v] : v \in Number}
    [] OTHER -> {old}

\* updateConfigs(), where it ends.
UpdateConfigs(file) ==
  FoldLeft(LAMBDA olds, item : UNION {Apply(old, item) : old \in olds}, {Default}, Visited(file))

\* The items of a file: a function from their names to their values.
Values(nodes) ==
  LET items == {nodes[i] : i \in {j \in 1..Len(nodes) : nodes[j] \notin {Comment, Cut}}}
  IN [n \in {item[1] : item \in items} |-> (CHOOSE item \in items : item[1] = n)[2]]

Init ==
  /\ conf \in ConfFile
  /\ process = "none" /\ settings = Default
  /\ saving = Unreadable /\ saves = 0
  /\ intended = Values(conf.children) /\ torn = FALSE /\ fresh = FALSE
-----------------------------------------------------------------------------
\* The first getInstance() of a process, which may be unable to open the file.
GetInstance ==
  /\ process \in {"none", "failed"}
  /\ \E opened \in BOOLEAN :
       LET file == IF opened THEN conf ELSE Unreadable
           throws == \E i \in 1..Len(Visited(file)) : Visited(file)[i] = Cut
       IN /\ process' = IF throws THEN "failed" ELSE IF Hangs(file) THEN "hung" ELSE "running"
          /\ fresh' = (opened /\ process' = "running")
          /\ IF process' = "running" THEN settings' \in UpdateConfigs(file) ELSE UNCHANGED settings
  /\ UNCHANGED <<conf, saving, saves, intended, torn>>

\* Where saveItem2File() ends its walk over the siblings: at the item, at a comment
\* or an item that was cut off, or past the end.
StopsAt(nodes, name) ==
  LET at == {i \in FirstItem(nodes)..Len(nodes) : i > 0 /\ (nodes[i] \in {Comment, Cut} \/ nodes[i][1] = name)}
  IN IF at = {} THEN Len(nodes) + 1 ELSE CHOOSE i \in at : \A j \in at : i <= j

\* Mutant: the first item is changed whatever its name.
ChangedFirst(file, name, value) ==
  IF FirstItem(file.children) = 0 THEN file
  ELSE [file EXCEPT !.children[FirstItem(file.children)] = <<name, value>>]

\* The document after SetAttribute(), if there is an item of that name.
Changed(file, name, value) ==
  LET i == StopsAt(file.children, name)
  IN IF i > Len(file.children) THEN file ELSE [file EXCEPT !.children[i] = <<name, value>>]

\* The walk of saveItem2File() ends at an element without the attributes or at none.
Dies(name) ==
  LET i == StopsAt(conf.children, name)
  IN i <= Len(conf.children) /\ conf.children[i] \in {Comment, Cut}

\* saveItem2File(), up to the fopen() of SaveFile(), which truncates the file.
\* It returns if the file cannot be read, and does nothing if fopen() fails.
SaveItem2File(name, value) ==
  /\ process = "running" /\ saving = Unreadable /\ saves < MaxSaves
  /\ conf # Unreadable /\ ~Dies(name)
  /\ saves' = saves + 1
  /\ saving' = Changed(conf, name, value)
  /\ conf' = Unreadable
  /\ fresh' = FALSE
  /\ intended' = [n \in DOMAIN intended |-> IF n = name THEN value ELSE intended[n]]
  /\ UNCHANGED <<process, settings, torn>>

\* saveItem2File() meets a comment, for which itemElement is NULL, or an element
\* without the attributes, and the program dies.
SaveDies(name) ==
  /\ process = "running" /\ saving = Unreadable /\ conf # Unreadable /\ Dies(name)
  /\ process' = "none"
  /\ UNCHANGED <<conf, settings, saving, saves, intended, torn, fresh>>

\* The rest of SaveFile().
SaveFile ==
  /\ saving # Unreadable
  /\ conf' = saving /\ saving' = Unreadable
  /\ UNCHANGED <<process, settings, saves, intended, torn, fresh>>

\* What is left of the nodes when the end of the text is missing: of an item that is
\* cut off an element without attributes, or of its "<" a node that is no element.
Cuts(nodes) ==
  {SubSeq(nodes, 1, k - 1) \o last : k \in 1..Len(nodes), last \in {<<>>, <<Comment>>}}
    \cup {Append(SubSeq(nodes, 1, k - 1), Cut) : k \in {j \in 1..Len(nodes) : IsElement(nodes[j])}}

\* ... and of a document, of which perhaps <configs> is not written.
Partial(file) ==
  {Unreadable, file} \cup {[file EXCEPT !.children = nodes, !.tail = <<>>] : nodes \in Cuts(file.children)}
    \cup {[file EXCEPT !.tail = nodes] : nodes \in Cuts(file.tail)}

\* A write of SaveFile() fails, which saveItem2File() does not ask.
SaveFails ==
  /\ saving # Unreadable
  /\ conf' \in Partial(saving) /\ saving' = Unreadable
  /\ torn' = TRUE
  /\ UNCHANGED <<process, settings, saves, intended, fresh>>

\* The program is stopped or killed, perhaps in the middle of SaveFile().
Kill ==
  /\ process \in {"running", "hung"}
  /\ process' = "none"
  /\ IF saving = Unreadable THEN UNCHANGED <<conf, torn>> ELSE conf' \in Partial(saving) /\ torn' = TRUE
  /\ saving' = Unreadable
  /\ UNCHANGED <<settings, saves, intended, fresh>>

Next ==
  \/ GetInstance \/ SaveFile \/ SaveFails \/ Kill
  \/ \E name \in Setting \cup OtherItem :
       SaveDies(name) \/ \E value \in Value : SaveItem2File(name, value)
-----------------------------------------------------------------------------
(* Properties *)

\* The item of that name comes before any comment, but for those ahead of all items.
Ahead(nodes, n) ==
  \E i \in 1..Len(nodes) :
    /\ nodes[i] \notin {Comment, Cut} /\ nodes[i][1] = n
    /\ \A j \in 1..(i - 1) : IsElement(nodes[j]) \/ \A h \in 1..j : ~IsElement(nodes[h])

\* What saveItem2File() wrote is what a start of the program that opens the file
\* reads (a save whose fopen() fails has no effect), and a save leaves every other
\* setting as it was: the items ahead of the comments have the value last saved, a
\* number that does not convert, an item that is not there and one behind a comment
\* have their default.  Only an item behind </configs> can take the place of that
\* value, and only in a file with a comment.
\* After a write that failed or was cut off by a kill, a setting is the value last
\* saved, such an item's or the default, never a part of a value or an older value.
\* And the program comes up, unless such a write cut an item, or comments stand
\* both behind an item and behind </configs>.
SavedIsRead ==
  /\ process = "running" /\ fresh =>
       \A n \in TextItem \cup NumberItem :
         LET converts(v) == n \in TextItem \/ v \in Number
             last == IF n \in DOMAIN intended /\ converts(intended[n]) THEN intended[n] ELSE Default[n]
             saved == IF Ahead(conf.children, n) THEN last ELSE Default[n]
             behind == Values(conf.tail)
             others == IF n \in DOMAIN behind /\ Comment \in {conf.children[i] : i \in 1..Len(conf.children)}
                       THEN {behind[n]} ELSE {}
         IN settings[n] \in (IF torn THEN {last, Default[n]} ELSE {saved}) \cup others
  /\ process = "failed" => torn
  /\ process = "hung" =>
       /\ \E i, j \in 1..Len(conf.children) : i < j /\ conf.children[i] # Comment /\ conf.children[j] = Comment
       /\ \E i \in 1..Len(conf.tail) : conf.tail[i] = Comment
=============================================================================
