------------------------------ MODULE ByteQueue -----------------------------
(***************************************************************************)
(* What port/Buffer.h promises its users: a queue of bytes that are added  *)
(* at the end or in front and taken from the front, whatever the buffer    *)
(* does with its memory.                                                   *)
(***************************************************************************)
EXTENDS Integers, Sequences

CONSTANT Byte
VARIABLE content

Init == content = <<>>

\* Bytes are added at the end, added in front, or taken from the front.
Added ==
  /\ content' \in Seq(Byte) /\ Len(content') >= Len(content)
  /\ SubSeq(content', 1, Len(content)) = content
Prepended ==
  /\ content' \in Seq(Byte) /\ Len(content') >= Len(content)
  /\ SubSeq(content', Len(content') - Len(content) + 1, Len(content')) = content
Taken == \E n \in 0..Len(content) : content' = SubSeq(content, n + 1, Len(content))

Next == Added \/ Prepended \/ Taken

Spec == Init /\ [][Next]_content
=============================================================================
