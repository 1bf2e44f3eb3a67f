---------------------------- MODULE BlockingQueue ---------------------------
(***************************************************************************)
(* utils/BlockingQueue.h (Capacity = 0) and utils/BoundedBlockingQueue.h:  *)
(* producers put items into a queue, consumers take them out and wait      *)
(* while it is empty; in a bounded queue the producers wait while it is    *)
(* full.  Unlike those of ThreadPool, put() and take() notify one waiter.  *)
(*                                                                         *)
(* A call runs with mutex_ held up to its end or its wait(), in one step.  *)
(***************************************************************************)
EXTENDS Naturals, Sequences, FiniteSets

CONSTANTS
  Producer, Consumer,
  Capacity,   \* maxSize, 0 for no limit
  MaxItems,   \* bound on the number of items
  NoItem

VARIABLES
  queue,   \* queue_
  pc,      \* where the threads are
  item,    \* the argument of put(), or the result of take()
  made     \* number of items given to put()

Init ==
  /\ queue = <<>> /\ made = 0
  /\ pc = [t \in Producer \cup Consumer |-> "idle"]
  /\ item = [t \in Producer \cup Consumer |-> NoItem]

\* notify() wakes one thread that waits at a place, if there is one.
Notify(pcs, place, test) ==
  IF \E t \in DOMAIN pcs : pcs[t] = place
  THEN {[pcs EXCEPT ![t] = test] : t \in {x \in DOMAIN pcs : pcs[x] = place}}
  ELSE {pcs}

full == Capacity > 0 /\ Len(queue) = Capacity

\* A producer calls put().
CallPut(p) ==
  /\ pc[p] = "idle" /\ made < MaxItems
  /\ made' = made + 1
  /\ item' = [item EXCEPT ![p] = made']
  /\ pc' = [pc EXCEPT ![p] = "put"]
  /\ UNCHANGED queue

\* put(): the loop around notFull_.wait() ...
WaitNotFull(p) ==
  /\ pc[p] = "put" /\ full
  /\ pc' = [pc EXCEPT ![p] = "notFull"]
  /\ UNCHANGED <<queue, item, made>>

\* ... push_back() and notEmpty_.notify().
Put(p) ==
  /\ pc[p] = "put" /\ ~full
  /\ queue' = Append(queue, item[p])
  /\ item' = [item EXCEPT ![p] = NoItem]
  /\ pc' \in Notify([pc EXCEPT ![p] = "idle"], "notEmpty", "take")
  /\ UNCHANGED made

\* A consumer calls take().
CallTake(c) ==
  /\ pc[c] = "idle"
  /\ pc' = [pc EXCEPT ![c] = "take"]
  /\ item' = [item EXCEPT ![c] = NoItem]
  /\ UNCHANGED <<queue, made>>

\* take(): the loop around notEmpty_.wait() ...
WaitNotEmpty(c) ==
  /\ pc[c] = "take" /\ queue = <<>>
  /\ pc' = [pc EXCEPT ![c] = "notEmpty"]
  /\ UNCHANGED <<queue, item, made>>

\* ... pop_front() and, in a bounded queue, notFull_.notify().
Take(c) ==
  /\ pc[c] = "take" /\ queue # <<>>
  /\ queue' = Tail(queue)
  /\ item' = [item EXCEPT ![c] = Head(queue)]
  /\ LET after == [pc EXCEPT ![c] = "idle"]
     IN pc' \in IF Capacity > 0 THEN Notify(after, "notFull", "put") ELSE {after}
  /\ UNCHANGED made

\* A condition variable may wake a thread for no reason.
SpuriousWakeup(t) ==
  /\ pc[t] \in {"notEmpty", "notFull"}
  /\ pc' = [pc EXCEPT ![t] = IF t \in Consumer THEN "take" ELSE "put"]
  /\ UNCHANGED <<queue, item, made>>

ProducerStep(p) == WaitNotFull(p) \/ Put(p)
ConsumerStep(c) == CallTake(c) \/ WaitNotEmpty(c) \/ Take(c)

Next ==
  \/ \E p \in Producer : CallPut(p) \/ ProducerStep(p)
  \/ \E c \in Consumer : ConsumerStep(c)
  \/ \E t \in Producer \cup Consumer : SpuriousWakeup(t)
-----------------------------------------------------------------------------
At(place) == Cardinality({t \in DOMAIN pc : pc[t] = place})

\* While consumers sleep there is a consumer awake for every item, and while
\* producers sleep there is a producer awake for every free place.
NoneLeftSleeping ==
  /\ At("notEmpty") > 0 => Len(queue) <= At("take")
  /\ At("notFull") > 0 => Capacity - Len(queue) <= At("put")
=============================================================================
