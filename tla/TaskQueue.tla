----------------------------- MODULE TaskQueue ------------------------------
(***************************************************************************)
(* What the hand-over of functors to an event loop promises: items come    *)
(* out once each, in the order in which they were put in.  Module          *)
(* EventLoop is shown to implement it.                                     *)
(***************************************************************************)
EXTENDS Sequences

CONSTANT Item

VARIABLES
  queue,  \* items handed over and not yet taken
  taken   \* items taken, in order

queueVars == <<queue, taken>>

Init == queue = <<>> /\ taken = <<>>

Put(item) == queue' = Append(queue, item) /\ UNCHANGED taken

Take ==
  /\ queue # <<>>
  /\ taken' = Append(taken, Head(queue))
  /\ queue' = Tail(queue)

Next == Take \/ \E item \in Item : Put(item)

Spec == Init /\ [][Next]_queueVars
=============================================================================
