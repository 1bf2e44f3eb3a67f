---------------------------- MODULE QueuesProofs ----------------------------
(***************************************************************************)
(* Nobody sleeps for nothing in ThreadPool, in the blocking queues and at  *)
(* a latch, and the tasks of a pool begin in turn, for any number of       *)
(* threads, tasks and places.                                              *)
(***************************************************************************)
EXTENDS Queues, FiniteSetTheorems, SequenceTheorems, TLAPS

Threads == Worker \cup Caller

LEMMA ThreadsFinite == IsFiniteSet(Threads)
BY QueuesAssumption, FS_Union, Zenon DEF Threads
-----------------------------------------------------------------------------
(* Counting the threads at a place *)

Place == {"idle", "put", "take", "notEmpty", "notFull"}

AtPlace(f, place) == {t \in Threads : f[t] = place}
Count(f, place) == Cardinality(AtPlace(f, place))

LEMMA CountNat ==
  ASSUME NEW f, NEW a
  PROVE  /\ IsFiniteSet(AtPlace(f, a)) /\ Count(f, a) \in Nat
         /\ Count(f, a) > 0 <=> \E t \in Threads : f[t] = a
<1>1. IsFiniteSet(AtPlace(f, a))
  BY ThreadsFinite, FS_Subset, Zenon DEF AtPlace
<1>2. Count(f, a) \in Nat
  BY <1>1, FS_CardinalityType, Zenon DEF Count
<1>3. Count(f, a) = 0 <=> AtPlace(f, a) = {}
  BY <1>1, FS_EmptySet, Zenon DEF Count
<1> QED
  BY <1>1, <1>2, <1>3 DEF AtPlace

\* From f to g one thread has gone from place a to place b.
Moved(f, g, a, b) ==
  /\ Count(g, b) = Count(f, b) + 1
  /\ Count(g, a) = Count(f, a) - 1
  /\ \A x \in Place \ {a, b} : Count(g, x) = Count(f, x)
  /\ \A x \in Place : Count(f, x) \in Nat /\ Count(g, x) \in Nat

LEMMA CountMove ==
  ASSUME NEW f \in [Threads -> Place], NEW t \in Threads, NEW b \in Place, f[t] # b
  PROVE  Moved(f, [f EXCEPT ![t] = b], f[t], b)
<1> DEFINE g == [f EXCEPT ![t] = b]
<1>1. g \in [Threads -> Place] /\ g[t] = b /\ \A u \in Threads \ {t} : g[u] = f[u]
  BY Zenon
<1> HIDE DEF g
<1>2. Count(g, b) = Count(f, b) + 1
  <2>1. AtPlace(g, b) = AtPlace(f, b) \cup {t} /\ t \notin AtPlace(f, b)
    BY <1>1, Zenon DEF AtPlace
  <2> QED
    BY <2>1, CountNat, FS_AddElement, Zenon DEF Count
<1>3. Count(g, f[t]) = Count(f, f[t]) - 1
  <2>1. AtPlace(g, f[t]) = AtPlace(f, f[t]) \ {t} /\ t \in AtPlace(f, f[t])
    BY <1>1 DEF AtPlace
  <2> QED
    BY <2>1, CountNat, FS_RemoveElement, Zenon DEF Count
<1>4. ASSUME NEW x \in Place \ {b, f[t]} PROVE Count(g, x) = Count(f, x)
  <2>1. AtPlace(g, x) = AtPlace(f, x)
    BY <1>1, Zenon DEF AtPlace
  <2> QED
    BY <2>1, Zenon DEF Count
<1>5. \A x \in Place : Count(f, x) \in Nat /\ Count(g, x) \in Nat
  BY CountNat, Zenon
<1>6. Moved(f, g, f[t], b)
  BY <1>2, <1>3, <1>4, <1>5, Zenon DEF Moved
<1> QED
  BY <1>6, Zenon DEF g

\* notify() wakes one thread of those that wait, if there is any.
LEMMA NotifyCases ==
  ASSUME NEW f \in [Threads -> Place], NEW a, NEW b, NEW g \in Notify(f, a, b)
  PROVE  \/ g = f /\ Count(f, a) = 0
         \/ \E t \in Threads : f[t] = a /\ g = [f EXCEPT ![t] = b]
<1>1. DOMAIN f = Threads
  BY Zenon
<1>2. CASE \E t \in Threads : f[t] = a
  BY <1>1, <1>2, Zenon DEF Notify
<1>3. CASE ~ \E t \in Threads : f[t] = a
  <2>1. g = f
    BY <1>1, <1>3, Zenon DEF Notify
  <2> QED
    BY <1>3, <2>1, CountNat
<1> QED
  BY <1>2, <1>3, Zenon
-----------------------------------------------------------------------------
(* The invariant of the blocking queues: n items, cap places (0 for any). *)

\* While consumers sleep there is one awake for every item, and while producers
\* sleep there is one awake for every free place.
SleepInv(f, n, cap) ==
  /\ Count(f, "notEmpty") > 0 => n <= Count(f, "take")
  /\ Count(f, "notFull") > 0 => cap > 0 /\ cap - n <= Count(f, "put")

\* Workers take and callers put.
RoleInv(f) ==
  /\ f \in [Threads -> Place]
  /\ \A w \in Worker : f[w] \in {"idle", "take", "notEmpty"}
  /\ \A c \in Caller : f[c] \in {"idle", "put", "notFull"}

\* A thread goes to put() or take(), from its caller or from its wait.
LEMMA ArriveKeeps ==
  ASSUME NEW f, NEW g, NEW n \in Nat, NEW cap \in Nat, SleepInv(f, n, cap),
         NEW a \in {"idle", "notEmpty", "notFull"}, NEW b \in {"put", "take"}, Moved(f, g, a, b)
  PROVE  SleepInv(g, n, cap)
<1>1. \A x \in Place : Count(f, x) \in Nat /\ Count(g, x) \in Nat
  BY Zenon DEF Moved
<1>2. Count(g, "take") >= Count(f, "take") /\ Count(g, "put") >= Count(f, "put")
  BY DEF Moved, Place
<1>3. Count(g, "notEmpty") <= Count(f, "notEmpty") /\ Count(g, "notFull") <= Count(f, "notFull")
  BY DEF Moved, Place
<1> QED
  BY <1>1, <1>2, <1>3 DEF SleepInv, Place

\* A consumer finds no item and waits.
LEMMA SleepEmptyKeeps ==
  ASSUME NEW f, NEW g, NEW cap \in Nat, SleepInv(f, 0, cap), Moved(f, g, "take", "notEmpty")
  PROVE  SleepInv(g, 0, cap)
BY DEF Moved, SleepInv, Place

\* A producer finds no place and waits.
LEMMA SleepFullKeeps ==
  ASSUME NEW f, NEW g, NEW n \in Nat, NEW cap \in Nat, n = cap, cap > 0, SleepInv(f, n, cap),
         Moved(f, g, "put", "notFull")
  PROVE  SleepInv(g, n, cap)
BY DEF Moved, SleepInv, Place

\* A producer puts an item and wakes a consumer, if one sleeps.
LEMMA PutKeeps ==
  ASSUME NEW f, NEW g, NEW h, NEW n \in Nat, NEW cap \in Nat, SleepInv(f, n, cap),
         Moved(f, g, "put", "idle"),
         (h = g /\ Count(g, "notEmpty") = 0) \/ Moved(g, h, "notEmpty", "take")
  PROVE  SleepInv(h, n + 1, cap)
<1>1. CASE h = g /\ Count(g, "notEmpty") = 0
  BY <1>1 DEF Moved, SleepInv, Place
<1>2. CASE Moved(g, h, "notEmpty", "take")
  BY <1>2 DEF Moved, SleepInv, Place
<1> QED
  BY <1>1, <1>2, Zenon

\* A consumer takes an item and wakes a producer, if the queue is bounded and one
\* sleeps.
LEMMA TakeKeeps ==
  ASSUME NEW f, NEW g, NEW h, NEW n \in Nat, n > 0, NEW cap \in Nat, SleepInv(f, n, cap),
         Moved(f, g, "take", "idle"),
         \/ h = g /\ (cap > 0 => Count(g, "notFull") = 0)
         \/ cap > 0 /\ Moved(g, h, "notFull", "put")
  PROVE  SleepInv(h, n - 1, cap)
<1>1. CASE h = g /\ (cap > 0 => Count(g, "notFull") = 0)
  BY <1>1 DEF Moved, SleepInv, Place
<1>2. CASE cap > 0 /\ Moved(g, h, "notFull", "put")
  BY <1>2 DEF Moved, SleepInv, Place
<1> QED
  BY <1>1, <1>2, Zenon
-----------------------------------------------------------------------------
(* The blocking queues *)

BlockingInv(cap) ==
  /\ RoleInv(pc) /\ SleepInv(pc, Len(queue), cap)
  /\ queue \in Seq(Task) /\ made \in Nat
  /\ task \in [Threads -> Task \cup {NoTask}]
  /\ \A c \in Caller : pc[c] \in {"put", "notFull"} => task[c] \in Task

\* pc after one thread of a role has moved within it.
LEMMA RoleMove ==
  ASSUME NEW f, RoleInv(f), NEW t \in Threads, NEW b \in Place, f[t] # b,
         t \in Worker => b \in {"idle", "take", "notEmpty"},
         t \in Caller => b \in {"idle", "put", "notFull"}
  PROVE  RoleInv([f EXCEPT ![t] = b]) /\ Moved(f, [f EXCEPT ![t] = b], f[t], b)
<1>1. f \in [Threads -> Place]
  BY Zenon DEF RoleInv
<1>2. RoleInv([f EXCEPT ![t] = b])
  BY <1>1, Zenon DEF RoleInv, Threads
<1> QED
  BY <1>1, <1>2, CountMove, Zenon

LEMMA BlockingCallPut ==
  ASSUME NEW cap \in Nat, BlockingInv(cap), NEW p \in Caller, Blocking(cap)!CallPut(p)
  PROVE  BlockingInv(cap)'
<1>1. p \in Threads /\ p \notin Worker /\ pc[p] = "idle" /\ pc' = [pc EXCEPT ![p] = "put"]
  BY ThreadPoolAssumption, Zenon DEF Blocking!CallPut, Threads
<1>2. RoleInv(pc') /\ Moved(pc, pc', "idle", "put")
  BY <1>1, RoleMove, Zenon DEF BlockingInv, Place
<1>3. Len(queue) \in Nat
  BY LenProperties, Zenon DEF BlockingInv
<1>4. SleepInv(pc', Len(queue), cap)
  BY <1>2, <1>3, ArriveKeeps, Zenon DEF BlockingInv
<1>5. made' \in Task /\ made' \in Nat
  BY ThreadPoolAssumption DEF Blocking!CallPut, BlockingInv, Task
<1>6. task' = [task EXCEPT ![p] = made'] /\ queue' = queue
  BY Zenon DEF Blocking!CallPut
<1>7. ASSUME NEW c \in Caller, pc'[c] \in {"put", "notFull"} PROVE task'[c] \in Task
  BY <1>1, <1>5, <1>6, <1>7, Zenon DEF BlockingInv, RoleInv, Threads
<1> QED
  BY <1>1, <1>2, <1>4, <1>5, <1>6, <1>7, Zenon DEF BlockingInv

\* The tasks of callers that stay where they are, or leave, are kept.
LEMMA TasksKept ==
  ASSUME NEW cap, BlockingInv(cap), task' = task,
         \A c \in Caller : pc'[c] \in {"put", "notFull"} => pc[c] \in {"put", "notFull"}
  PROVE  \A c \in Caller : pc'[c] \in {"put", "notFull"} => task'[c] \in Task
BY Zenon DEF BlockingInv

LEMMA BlockingWait ==
  ASSUME NEW cap \in Nat, BlockingInv(cap), NEW t \in Threads,
         \/ t \in Caller /\ Blocking(cap)!WaitNotFull(t)
         \/ t \in Worker /\ Blocking(cap)!WaitNotEmpty(t)
         \/ Blocking(cap)!SpuriousWakeup(t)
  PROVE  BlockingInv(cap)'
<1>1. UNCHANGED <<queue, task, made>>
  BY Zenon DEF Blocking!WaitNotFull, Blocking!WaitNotEmpty, Blocking!SpuriousWakeup
<1>2. Len(queue) \in Nat /\ RoleInv(pc)
  BY LenProperties, Zenon DEF BlockingInv
<1>3. CASE t \in Caller /\ Blocking(cap)!WaitNotFull(t)
  <2>1. /\ pc[t] = "put" /\ pc' = [pc EXCEPT ![t] = "notFull"] /\ t \notin Worker
        /\ cap > 0 /\ Len(queue) = cap
    BY <1>3, ThreadPoolAssumption, Zenon DEF Blocking!WaitNotFull, Blocking!full
  <2>2. RoleInv(pc') /\ Moved(pc, pc', "put", "notFull")
    BY <1>2, <2>1, RoleMove, Zenon DEF Place
  <2>3. SleepInv(pc', Len(queue), cap)
    BY <1>2, <2>1, <2>2, SleepFullKeeps, Zenon DEF BlockingInv
  <2>4. \A c \in Caller : pc'[c] \in {"put", "notFull"} => task'[c] \in Task
    BY <1>1, <1>2, <2>1, TasksKept, Zenon DEF RoleInv, Threads
  <2> QED
    BY <1>1, <2>2, <2>3, <2>4, Zenon DEF BlockingInv
<1>4. CASE t \in Worker /\ Blocking(cap)!WaitNotEmpty(t)
  <2>1. /\ pc[t] = "take" /\ pc' = [pc EXCEPT ![t] = "notEmpty"] /\ t \notin Caller
        /\ Len(queue) = 0
    BY <1>4, ThreadPoolAssumption, Zenon DEF Blocking!WaitNotEmpty
  <2>2. RoleInv(pc') /\ Moved(pc, pc', "take", "notEmpty")
    <3>1. "notEmpty" \in Place /\ pc[t] # "notEmpty"
      BY <2>1, Zenon DEF Place
    <3> QED
      BY <1>2, <2>1, <3>1, RoleMove, Zenon
  <2>3. SleepInv(pc', Len(queue), cap)
    BY <2>1, <2>2, SleepEmptyKeeps, Zenon DEF BlockingInv
  <2>4. \A c \in Caller : pc'[c] \in {"put", "notFull"} => task'[c] \in Task
    BY <1>1, <1>2, <2>1, TasksKept, Zenon DEF RoleInv, Threads
  <2> QED
    BY <1>1, <2>2, <2>3, <2>4, Zenon DEF BlockingInv
<1>5. CASE Blocking(cap)!SpuriousWakeup(t)
  <2> DEFINE b == IF t \in Worker THEN "take" ELSE "put"
  <2>1. pc[t] \in {"notEmpty", "notFull"} /\ pc' = [pc EXCEPT ![t] = b]
    BY <1>5, Zenon DEF Blocking!SpuriousWakeup
  <2>2. RoleInv(pc') /\ Moved(pc, pc', pc[t], b)
    BY <1>2, <2>1, RoleMove, ThreadPoolAssumption, Zenon DEF Place, Threads
  <2>3. SleepInv(pc', Len(queue), cap)
    BY <1>2, <2>1, <2>2, ArriveKeeps, Zenon DEF BlockingInv
  <2>4. \A c \in Caller : pc'[c] \in {"put", "notFull"} => pc[c] \in {"put", "notFull"}
    BY <1>2, <2>1, Zenon DEF RoleInv, Threads
  <2>5. \A c \in Caller : pc'[c] \in {"put", "notFull"} => task'[c] \in Task
    BY <1>1, <2>4, TasksKept, Zenon
  <2> QED
    BY <1>1, <2>2, <2>3, <2>5, Zenon DEF BlockingInv
<1> QED
  BY <1>3, <1>4, <1>5, Zenon

LEMMA BlockingCallTake ==
  ASSUME NEW cap \in Nat, BlockingInv(cap), NEW w \in Worker, Blocking(cap)!CallTake(w)
  PROVE  BlockingInv(cap)'
<1>1. w \in Threads /\ w \notin Caller /\ pc[w] = "idle" /\ pc' = [pc EXCEPT ![w] = "take"]
  BY ThreadPoolAssumption, Zenon DEF Blocking!CallTake, Threads
<1>2. RoleInv(pc') /\ Moved(pc, pc', "idle", "take")
  BY <1>1, RoleMove, Zenon DEF BlockingInv, Place
<1>3. Len(queue) \in Nat
  BY LenProperties, Zenon DEF BlockingInv
<1>4. SleepInv(pc', Len(queue), cap)
  BY <1>2, <1>3, ArriveKeeps, Zenon DEF BlockingInv
<1>5. task' = [task EXCEPT ![w] = NoTask] /\ queue' = queue /\ made' = made
  BY Zenon DEF Blocking!CallTake
<1>6. ASSUME NEW c \in Caller, pc'[c] \in {"put", "notFull"} PROVE task'[c] \in Task
  BY <1>1, <1>5, <1>6, Zenon DEF BlockingInv, RoleInv, Threads
<1> QED
  BY <1>1, <1>2, <1>4, <1>5, <1>6, Zenon DEF BlockingInv

\* What Notify() of a queue leaves: nobody was asleep, or one thread has moved.
LEMMA NotifyMoves ==
  ASSUME NEW f, RoleInv(f), NEW g,
         NEW a \in {"notEmpty", "notFull"}, NEW b, b = IF a = "notEmpty" THEN "take" ELSE "put",
         g \in Notify(f, a, b)
  PROVE  /\ RoleInv(g)
         /\ (g = f /\ Count(f, a) = 0) \/ Moved(f, g, a, b)
         /\ \A c \in Caller : g[c] \in {"put", "notFull"} => f[c] \in {"put", "notFull"}
<1>1. f \in [Threads -> Place]
  BY Zenon DEF RoleInv
<1>2. CASE g = f /\ Count(f, a) = 0
  BY <1>2, Zenon
<1>3. ASSUME NEW t \in Threads, f[t] = a, g = [f EXCEPT ![t] = b]
      PROVE  /\ RoleInv(g) /\ Moved(f, g, a, b)
             /\ \A c \in Caller : g[c] \in {"put", "notFull"} => f[c] \in {"put", "notFull"}
  <2>1. /\ b \in Place /\ f[t] # b
        /\ t \in Worker => b \in {"idle", "take", "notEmpty"}
        /\ t \in Caller => b \in {"idle", "put", "notFull"}
    BY <1>3, Zenon DEF RoleInv, Place
  <2>2. RoleInv(g) /\ Moved(f, g, a, b)
    BY <1>3, <2>1, RoleMove, Zenon
  <2>3. \A c \in Caller : g[c] \in {"put", "notFull"} => f[c] \in {"put", "notFull"}
    BY <1>1, <1>3, <2>1, Zenon DEF RoleInv, Threads
  <2> QED
    BY <2>2, <2>3, Zenon
<1> QED
  BY <1>1, <1>2, <1>3, NotifyCases

LEMMA BlockingPut ==
  ASSUME NEW cap \in Nat, BlockingInv(cap), NEW p \in Caller, Blocking(cap)!Put(p)
  PROVE  BlockingInv(cap)'
<1> DEFINE after == [pc EXCEPT ![p] = "idle"]
<1>1. /\ p \in Threads /\ p \notin Worker /\ pc[p] = "put"
      /\ pc' \in Notify(after, "notEmpty", "take")
      /\ queue' = Append(queue, task[p]) /\ task' = [task EXCEPT ![p] = NoTask] /\ made' = made
  BY ThreadPoolAssumption, Zenon DEF Blocking!Put, Blocking!Notify, Notify, Threads
<1>2. RoleInv(after) /\ Moved(pc, after, "put", "idle")
  <2>1. "idle" \in Place /\ pc[p] # "idle" /\ RoleInv(pc)
    BY <1>1, Zenon DEF Place, BlockingInv
  <2> QED
    BY <1>1, <2>1, RoleMove, Zenon
<1>3. \A c \in Caller : after[c] \in {"put", "notFull"} => c # p /\ pc[c] \in {"put", "notFull"}
  BY <1>1 DEF BlockingInv, RoleInv
<1> HIDE DEF after
<1>4. /\ RoleInv(pc')
      /\ (pc' = after /\ Count(after, "notEmpty") = 0) \/ Moved(after, pc', "notEmpty", "take")
      /\ \A c \in Caller : pc'[c] \in {"put", "notFull"} => after[c] \in {"put", "notFull"}
  BY <1>1, <1>2, NotifyMoves, Zenon
<1>5. /\ task[p] \in Task /\ Len(queue) \in Nat
      /\ queue' \in Seq(Task) /\ Len(queue') = Len(queue) + 1
  BY <1>1, LenProperties, AppendProperties, Zenon DEF BlockingInv
<1>6. SleepInv(pc', Len(queue'), cap)
  BY <1>2, <1>4, <1>5, PutKeeps, Zenon DEF BlockingInv
<1>7. ASSUME NEW c \in Caller, pc'[c] \in {"put", "notFull"} PROVE task'[c] \in Task
  BY <1>1, <1>3, <1>4, <1>7, Zenon DEF BlockingInv, Threads
<1> QED
  BY <1>1, <1>4, <1>5, <1>6, <1>7, Zenon DEF BlockingInv

LEMMA BlockingTake ==
  ASSUME NEW cap \in Nat, BlockingInv(cap), NEW w \in Worker, Blocking(cap)!Take(w)
  PROVE  BlockingInv(cap)'
<1> DEFINE after == [pc EXCEPT ![w] = "idle"]
<1>1. /\ w \in Threads /\ w \notin Caller /\ pc[w] = "take" /\ queue # <<>>
      /\ pc' \in IF cap > 0 THEN Notify(after, "notFull", "put") ELSE {after}
      /\ queue' = Tail(queue) /\ task' = [task EXCEPT ![w] = Head(queue)] /\ made' = made
  BY ThreadPoolAssumption, Zenon DEF Blocking!Take, Blocking!Notify, Notify, Threads
<1>2. RoleInv(after) /\ Moved(pc, after, "take", "idle")
  <2>1. "idle" \in Place /\ pc[w] # "idle" /\ RoleInv(pc)
    BY <1>1, Zenon DEF Place, BlockingInv
  <2> QED
    BY <1>1, <2>1, RoleMove
<1>3. \A c \in Caller : after[c] \in {"put", "notFull"} => c # w /\ pc[c] \in {"put", "notFull"}
  BY <1>1 DEF BlockingInv, RoleInv
<1> HIDE DEF after
<1>4. /\ RoleInv(pc')
      /\ \/ pc' = after /\ (cap > 0 => Count(after, "notFull") = 0)
         \/ cap > 0 /\ Moved(after, pc', "notFull", "put")
      /\ \A c \in Caller : pc'[c] \in {"put", "notFull"} => after[c] \in {"put", "notFull"}
  <2>1. CASE cap > 0
    BY <1>1, <1>2, <2>1, NotifyMoves, Zenon
  <2>2. CASE ~ (cap > 0)
    BY <1>1, <1>2, <2>2, Zenon
  <2> QED
    BY <2>1, <2>2, Zenon
<1>5. /\ Head(queue) \in Task /\ Len(queue) \in Nat /\ Len(queue) > 0
      /\ queue' \in Seq(Task) /\ Len(queue') = Len(queue) - 1
  BY <1>1, EmptySeq, HeadTailProperties DEF BlockingInv
<1>6. SleepInv(pc', Len(queue'), cap)
  BY <1>2, <1>4, <1>5, TakeKeeps, Zenon DEF BlockingInv
<1>7. ASSUME NEW c \in Caller, pc'[c] \in {"put", "notFull"} PROVE task'[c] \in Task
  BY <1>1, <1>3, <1>4, <1>7, Zenon DEF BlockingInv, Threads
<1> QED
  BY <1>1, <1>4, <1>5, <1>6, <1>7, Zenon DEF BlockingInv

LEMMA BlockingNext ==
  ASSUME NEW cap \in Nat, BlockingInv(cap), Blocking(cap)!Next
  PROVE  BlockingInv(cap)'
BY BlockingCallPut, BlockingWait, BlockingCallTake, BlockingPut, BlockingTake, Zenon
   DEF Blocking!Next, Blocking!ProducerStep, Blocking!ConsumerStep, Threads

LEMMA BlockingInit ==
  ASSUME NEW cap \in Nat, Blocking(cap)!Init
  PROVE  BlockingInv(cap)
<1>1. RoleInv(pc)
  BY Zenon DEF Blocking!Init, RoleInv, Threads, Place
<1>2. Count(pc, "notEmpty") = 0 /\ Count(pc, "notFull") = 0
  <2>1. AtPlace(pc, "notEmpty") = {} /\ AtPlace(pc, "notFull") = {}
    BY Zenon DEF Blocking!Init, AtPlace, Threads
  <2> QED
    BY <2>1, FS_EmptySet, Zenon DEF Count
<1>3. queue \in Seq(Task)
  BY EmptySeq, Zenon DEF Blocking!Init
<1> QED
  BY <1>1, <1>2, <1>3 DEF Blocking!Init, BlockingInv, SleepInv, Threads

LEMMA BlockingAgrees ==
  ASSUME NEW cap \in Nat, BlockingInv(cap)
  PROVE  Blocking(cap)!NoneLeftSleeping
<1>1. \A a \in Place : Blocking(cap)!At(a) = Count(pc, a)
  <2>1. DOMAIN pc = Threads
    BY Zenon DEF BlockingInv, RoleInv
  <2>2. \A a : {t \in DOMAIN pc : pc[t] = a} = AtPlace(pc, a)
    BY <2>1, Zenon DEF AtPlace
  <2>3. \A S : Blocking(cap)!Cardinality(S) = Cardinality(S)
    BY Zenon DEF Blocking!Cardinality, Cardinality
  <2> QED
    BY <2>2, <2>3, Zenon DEF Blocking!At, Count
<1> QED
  BY <1>1, Zenon DEF BlockingInv, SleepInv, Blocking!NoneLeftSleeping, Place
-----------------------------------------------------------------------------
(* ThreadPool *)

WorkerPlace == {"new", "loop", "take", "notEmpty", "begin", "task", "exited"}
CallerPlace == {"idle", "run", "notFull"}

PoolInv ==
  /\ pc \in [Threads -> WorkerPlace \cup CallerPlace]
  /\ \A w \in Worker : pc[w] \in WorkerPlace
  /\ \A c \in Caller : pc[c] \in CallerPlace
  /\ queue \in Seq(Task) /\ made \in Nat
  /\ task \in [Threads -> Task \cup {NoTask}]
  /\ \A c \in Caller : pc[c] \in {"run", "notFull"} => task[c] \in Task
  /\ NoWorkerLeftSleeping

LEMMA PoolInit == Init => PoolInv
<1> SUFFICES ASSUME Init PROVE PoolInv
  BY Zenon
<1>1. queue \in Seq(Task)
  BY EmptySeq, Zenon DEF Init
<1> QED
  BY <1>1, ThreadPoolAssumption, Zenon
  DEF Init, PoolInv, NoWorkerLeftSleeping, Threads, WorkerPlace, CallerPlace

LEMMA OwnerKeeps == ASSUME PoolInv, Start \/ Stop \/ Join PROVE PoolInv'
<1>1. CASE Start
  BY <1>1, Zenon DEF Start, NotifyAll, PoolInv, NoWorkerLeftSleeping, Threads, WorkerPlace, CallerPlace
<1>2. CASE Stop
  BY <1>2, Zenon DEF Stop, NotifyAll, PoolInv, NoWorkerLeftSleeping, Threads, WorkerPlace, CallerPlace
<1>3. CASE Join
  BY <1>3, Zenon DEF Join, PoolInv, NoWorkerLeftSleeping
<1> QED
  BY <1>1, <1>2, <1>3, Zenon

LEMMA CallerKeeps ==
  ASSUME PoolInv, NEW c \in Caller, Run(c) \/ WaitNotFull(c) \/ Put(c)
  PROVE  PoolInv'
<1>1. c \in Threads /\ c \notin Worker
  BY ThreadPoolAssumption, Zenon DEF Threads
<1>2. CASE Run(c)
  <2>1. made' \in Task /\ made' \in Nat
    BY <1>2, ThreadPoolAssumption DEF Run, PoolInv, Task
  <2>2. CASE started
    BY <1>1, <1>2, <2>1, <2>2, Zenon DEF Run, PoolInv, NoWorkerLeftSleeping, Threads, CallerPlace
  <2>3. CASE ~started
    BY <1>2, <2>1, <2>3, Zenon DEF Run, PoolInv, NoWorkerLeftSleeping
  <2> QED
    BY <2>2, <2>3, Zenon
<1>3. CASE WaitNotFull(c)
  BY <1>1, <1>3, Zenon DEF WaitNotFull, PoolInv, NoWorkerLeftSleeping, Threads, CallerPlace
<1>4. CASE Put(c)
  <2>1. queue' \in Seq(Task)
    BY <1>4, AppendProperties, Zenon DEF Put, PoolInv
  <2>2. /\ pc' \in [Threads -> WorkerPlace \cup CallerPlace]
        /\ \A w \in Worker : pc'[w] \in WorkerPlace /\ pc'[w] # "notEmpty"
        /\ \A d \in Caller : pc'[d] = IF d = c THEN "idle" ELSE pc[d]
    BY <1>1, <1>4, ThreadPoolAssumption, Zenon DEF Put, NotifyAll, PoolInv, Threads, WorkerPlace, CallerPlace
  <2>3. \A d \in Caller : pc'[d] \in {"run", "notFull"} => task'[d] \in Task
    BY <1>4, <2>2, Zenon DEF Put, PoolInv, Threads
  <2> QED
    BY <1>4, <2>1, <2>2, <2>3, Zenon DEF Put, PoolInv, NoWorkerLeftSleeping, CallerPlace
<1> QED
  BY <1>2, <1>3, <1>4, Zenon

LEMMA WorkerKeeps == ASSUME PoolInv, NEW w \in Worker, WorkerStep(w) PROVE PoolInv'
<1>1. w \in Threads /\ w \notin Caller
  BY ThreadPoolAssumption, Zenon DEF Threads
<1>2. CASE CheckRunning(w)
  BY <1>1, <1>2, Zenon DEF CheckRunning, PoolInv, NoWorkerLeftSleeping, Threads, WorkerPlace
<1>3. CASE WaitNotEmpty(w)
  BY <1>1, <1>3, Zenon DEF WaitNotEmpty, PoolInv, NoWorkerLeftSleeping, Threads, WorkerPlace
<1>4. CASE Take(w)
  <2> DEFINE after == [pc EXCEPT ![w] = "begin"]
  <2>1. Head(queue) \in Task /\ queue' \in Seq(Task)
    BY <1>4, HeadTailProperties, Zenon DEF Take, PoolInv
  <2>2. after \in [Threads -> WorkerPlace \cup CallerPlace]
    BY <1>1, Zenon DEF PoolInv, WorkerPlace
  <2>3. pc' = after \/ \E t \in Threads : after[t] = "notFull" /\ pc' = [after EXCEPT ![t] = "run"]
    <3>1. pc' \in IF MaxQueueSize > 0 THEN Notify(after, "notFull", "run") ELSE {after}
      BY <1>4, Zenon DEF Take
    <3>2. DOMAIN after = Threads
      BY <2>2, Zenon
    <3> HIDE DEF after
    <3> QED
      BY <3>1, <3>2, Zenon DEF Notify
  <2>4. /\ pc' \in [Threads -> WorkerPlace \cup CallerPlace]
        /\ \A v \in Worker : pc'[v] = after[v]
        /\ \A c \in Caller : pc'[c] \in CallerPlace
        /\ \A c \in Caller : pc'[c] \in {"run", "notFull"} => pc[c] \in {"run", "notFull"}
    <3>1. CASE pc' = after
      BY <1>1, <2>2, <3>1 DEF PoolInv
    <3>2. ASSUME NEW t \in Threads, after[t] = "notFull", pc' = [after EXCEPT ![t] = "run"]
          PROVE  /\ pc' \in [Threads -> WorkerPlace \cup CallerPlace]
                 /\ \A v \in Worker : pc'[v] = after[v]
                 /\ \A c \in Caller : pc'[c] \in CallerPlace
                 /\ \A c \in Caller : pc'[c] \in {"run", "notFull"} => pc[c] \in {"run", "notFull"}
      BY <1>1, <2>2, <3>2, Zenon DEF PoolInv, Threads, WorkerPlace, CallerPlace
    <3> QED
      BY <2>3, <3>1, <3>2, Zenon
  <2>5. \A v \in Worker : pc'[v] \in WorkerPlace /\ (pc'[v] = "notEmpty" => pc[v] = "notEmpty")
    BY <1>1, <2>4 DEF PoolInv, WorkerPlace
  <2>6. NoWorkerLeftSleeping'
    BY <1>4, <2>5, Zenon DEF Take, PoolInv, NoWorkerLeftSleeping
  <2>7. /\ task' \in [Threads -> Task \cup {NoTask}]
        /\ \A c \in Caller : task'[c] = task[c]
    BY <1>1, <1>4, <2>1, Zenon DEF Take, PoolInv, Threads
  <2> QED
    BY <1>4, <2>1, <2>4, <2>5, <2>6, <2>7, Zenon DEF Take, PoolInv
<1>5. CASE TakeNothing(w)
  BY <1>1, <1>5, Zenon DEF TakeNothing, PoolInv, NoWorkerLeftSleeping, Threads, WorkerPlace
<1>6. CASE TaskReturns(w)
  BY <1>1, <1>6, Zenon DEF TaskReturns, PoolInv, NoWorkerLeftSleeping, Threads, WorkerPlace
<1>7. CASE Begin(w)
  BY <1>1, <1>7, Zenon DEF Begin, PoolInv, NoWorkerLeftSleeping, Threads, WorkerPlace
<1> QED
  BY <1>2, <1>3, <1>4, <1>5, <1>6, <1>7, Zenon DEF WorkerStep

LEMMA PoolNext == ASSUME PoolInv, Next PROVE PoolInv'
<1>1. ASSUME NEW t \in Threads, SpuriousWakeup(t) PROVE PoolInv'
  BY <1>1, ThreadPoolAssumption, Zenon
  DEF SpuriousWakeup, PoolInv, NoWorkerLeftSleeping, Threads, WorkerPlace, CallerPlace
<1> QED
  BY <1>1, OwnerKeeps, CallerKeeps, WorkerKeeps, Zenon DEF Next, CallerStep, Threads
-----------------------------------------------------------------------------
(* CountDownLatch *)

\* Those who have still to count down.
ToCount == {w \in Worker : pc[w] = "idle"}

LatchInv ==
  /\ pc \in [Threads -> {"idle", "wait", "sleeping", "returned", "counted"}]
  /\ count = Cardinality(ToCount)
  /\ Latch!NoneLeftSleeping

LEMMA ToCountFinite == IsFiniteSet(ToCount) /\ Cardinality(ToCount) \in Nat
<1>1. IsFiniteSet(ToCount)
  BY QueuesAssumption, FS_Subset, Zenon DEF ToCount
<1> QED
  BY <1>1, FS_CardinalityType, Zenon

LEMMA LatchInit == Latch!Init => LatchInv
<1> SUFFICES ASSUME Latch!Init PROVE LatchInv
  BY Zenon
<1>1. ToCount = Worker
  BY Zenon DEF Latch!Init, ToCount
<1>2. Latch!Cardinality(Worker) = Cardinality(Worker)
  BY Zenon DEF Latch!Cardinality, Cardinality
<1> QED
  BY <1>1, <1>2, Zenon DEF Latch!Init, LatchInv, Latch!NoneLeftSleeping, Threads

LEMMA LatchNext == ASSUME LatchInv, Latch!Next PROVE LatchInv'
<1>1. ASSUME NEW w \in Caller, Latch!CallWait(w) \/ Latch!WaiterStep(w) \/ Latch!SpuriousWakeup(w)
      PROVE  LatchInv'
  <2>1. w \in Threads /\ w \notin Worker
    BY ThreadPoolAssumption, Zenon DEF Threads
  <2>2. PICK b \in {"wait", "sleeping", "returned"} :
          /\ pc' = [pc EXCEPT ![w] = b] /\ count' = count
          /\ b = "sleeping" => count > 0
          /\ b = "returned" => count = 0
    BY <1>1, Zenon DEF Latch!CallWait, Latch!WaiterStep, Latch!Sleep, Latch!Return, Latch!SpuriousWakeup
  <2>3. ToCount' = ToCount
    BY <2>1, <2>2, Zenon DEF ToCount, LatchInv, Threads
  <2>4. Latch!NoneLeftSleeping'
    BY <2>1, <2>2, Zenon DEF LatchInv, Latch!NoneLeftSleeping, Threads
  <2> QED
    BY <2>1, <2>2, <2>3, <2>4, Zenon DEF LatchInv
<1>2. ASSUME NEW c \in Worker, Latch!CountDown(c) PROVE LatchInv'
  <2>1. c \in ToCount /\ c \in Threads /\ c \notin Caller
    BY <1>2, ThreadPoolAssumption, Zenon DEF Latch!CountDown, ToCount, Threads
  <2>2. /\ count' = count - 1
        /\ pc' = [t \in Threads |-> IF t = c THEN "counted"
                                    ELSE IF count' = 0 /\ pc[t] = "sleeping" THEN "wait" ELSE pc[t]]
    BY <1>2, Zenon DEF Latch!CountDown, LatchInv
  <2>3. ToCount' = ToCount \ {c}
    BY <2>1, <2>2, Zenon DEF ToCount, Threads
  <2>4. count' = Cardinality(ToCount') /\ count' \in Nat /\ count > 0
    <3>1. Cardinality(ToCount') = Cardinality(ToCount) - 1
      BY <2>1, <2>3, ToCountFinite, FS_RemoveElement, Zenon
    <3>2. Cardinality(ToCount') \in Nat
      BY <2>3, ToCountFinite, FS_RemoveElement, FS_CardinalityType, Zenon
    <3> QED
      BY <2>2, <3>1, <3>2, ToCountFinite DEF LatchInv
  <2>5. Latch!NoneLeftSleeping'
    BY <2>1, <2>2, <2>4 DEF LatchInv, Latch!NoneLeftSleeping, Threads
  <2>6. pc' \in [Threads -> {"idle", "wait", "sleeping", "returned", "counted"}]
    BY <2>2, Zenon DEF LatchInv
  <2> QED
    BY <2>4, <2>5, <2>6, Zenon DEF LatchInv
<1> QED
  BY <1>1, <1>2, Zenon DEF Latch!Next
-----------------------------------------------------------------------------
(* The theorems *)

QueuesInv ==
  \/ kind = "pool" /\ PoolInv
  \/ kind = "blocking" /\ BlockingInv(0)
  \/ kind = "bounded" /\ BlockingInv(MaxQueueSize)
  \/ kind = "latch" /\ LatchInv

LEMMA QueuesInvariant == QueuesSpec => []QueuesInv
<1>1. QueuesInit => QueuesInv
  BY PoolInit, BlockingInit, LatchInit, ThreadPoolAssumption, Zenon DEF QueuesInit, QueuesInv
<1>2. QueuesInv /\ [QueuesNext]_queuesVars => QueuesInv'
  <2> SUFFICES ASSUME QueuesInv, [QueuesNext]_queuesVars PROVE QueuesInv'
    BY Zenon
  <2>1. CASE Pool(Next)
    BY <2>1, PoolNext, Zenon DEF Pool, QueuesInv
  <2>2. CASE Queue("blocking", Blocking(0)!Next)
    BY <2>2, BlockingNext, Zenon DEF Queue, QueuesInv
  <2>3. CASE Queue("bounded", Blocking(MaxQueueSize)!Next)
    BY <2>3, BlockingNext, ThreadPoolAssumption, Zenon DEF Queue, QueuesInv
  <2>4. CASE OfLatch(Latch!Next)
    BY <2>4, LatchNext, Zenon DEF OfLatch, QueuesInv
  <2>5. CASE UNCHANGED queuesVars
    BY <2>5, Zenon DEF queuesVars, vars, QueuesInv, PoolInv, NoWorkerLeftSleeping, BlockingInv, LatchInv,
                ToCount, Latch!NoneLeftSleeping
  <2> QED
    BY <2>1, <2>2, <2>3, <2>4, <2>5, Zenon DEF QueuesNext
<1> QED
  BY <1>1, <1>2, PTL DEF QueuesSpec

\* run(), put(), take(), stop(), wait() and countDown(): no notification is missed,
\* for any number of threads, tasks and places.
THEOREM NobodySleepsForNothing == QueuesSpec => []NoneLeftSleeping
<1>1. QueuesInv => NoneLeftSleeping
  <2> SUFFICES ASSUME QueuesInv PROVE NoneLeftSleeping
    BY Zenon
  <2>1. kind = "blocking" => Blocking(0)!NoneLeftSleeping
    BY BlockingAgrees, Zenon DEF QueuesInv
  <2>2. kind = "bounded" => Blocking(MaxQueueSize)!NoneLeftSleeping
    BY BlockingAgrees, ThreadPoolAssumption, Zenon DEF QueuesInv
  <2>3. kind = "pool" => NoWorkerLeftSleeping
    BY Zenon DEF QueuesInv, PoolInv
  <2>4. kind = "latch" => Latch!NoneLeftSleeping
    BY Zenon DEF QueuesInv, LatchInv
  <2> QED
    BY <2>1, <2>2, <2>3, <2>4, Zenon DEF NoneLeftSleeping
<1> QED
  BY <1>1, QueuesInvariant, PTL

-----------------------------------------------------------------------------
(* The turn of the tasks of a pool *)

\* The number of tasks that left the queue.
Gone == Len(entered) - Len(queue)

\* The caller has a task that is not in the queue yet.
Waits(c) == pc[c] \in {"run", "notFull"}

\* Tasks are numbered, and a number enters the queue once; the queue is the end of
\* what entered it, and what left it has begun or is in the hands of one worker.
TurnInv ==
  /\ entered \in Seq(Task) /\ Gone \in Nat
  /\ \A i \in 1..Len(entered) : entered[i] <= made
  /\ \A i, j \in 1..Len(entered) : entered[i] = entered[j] => i = j
  /\ \A c \in Caller : Waits(c) => task[c] <= made /\ \A i \in 1..Len(entered) : entered[i] # task[c]
  /\ \A c, d \in Caller : Waits(c) /\ Waits(d) /\ task[c] = task[d] => c = d
  /\ \A k \in 1..Len(queue) : queue[k] = entered[Gone + k]
  /\ \A i \in 1..Gone : entered[i] \in begun \cup InHand
  /\ \A x \in begun \cup InHand : \E i \in 1..Gone : entered[i] = x
  /\ begun \cap InHand = {}
  /\ \A v, w \in Worker : pc[v] = "begin" /\ pc[w] = "begin" /\ task[v] = task[w] => v = w

LEMMA TurnInit == Init => TurnInv
<1> SUFFICES ASSUME Init PROVE TurnInv
  BY Zenon
<1>1. /\ entered = <<>> /\ queue = <<>> /\ begun = {}
      /\ \A w \in Worker : pc[w] = "new"
      /\ \A c \in Caller : pc[c] = "idle"
  BY ThreadPoolAssumption, Zenon DEF Init
<1>2. InHand = {}
  BY <1>1 DEF InHand
<1>3. Len(entered) = 0 /\ Gone = 0 /\ entered \in Seq(Task)
  BY <1>1, EmptySeq DEF Gone
<1>4. \A c \in Caller : ~Waits(c)
  BY <1>1 DEF Waits
<1> QED
  BY <1>1, <1>2, <1>3, <1>4 DEF TurnInv

\* A step that leaves the queue alone, and the tasks of those who wait or begin.
LEMMA TurnKept ==
  ASSUME TurnInv, UNCHANGED <<queue, history, made>>,
         \A c \in Caller : Waits(c)' => Waits(c) /\ task'[c] = task[c],
         \A w \in Worker : pc'[w] = "begin" <=> pc[w] = "begin",
         \A w \in Worker : pc[w] = "begin" => task'[w] = task[w]
  PROVE  TurnInv'
<1>1. InHand' = InHand
  BY Zenon DEF InHand
<1>2. Gone' = Gone /\ entered' = entered /\ begun' = begun
  BY Zenon DEF Gone, history
<1> QED
  BY <1>1, <1>2, Zenon DEF TurnInv

\* The owner, and the waiting of workers and callers.
LEMMA TurnRest ==
  ASSUME PoolInv, TurnInv,
         \/ Start \/ Stop \/ Join
         \/ \E t \in Threads : SpuriousWakeup(t)
         \/ \E c \in Caller : WaitNotFull(c)
         \/ \E w \in Worker : CheckRunning(w) \/ WaitNotEmpty(w) \/ TakeNothing(w) \/ TaskReturns(w)
  PROVE  TurnInv'
<1>0. /\ pc \in [Threads -> WorkerPlace \cup CallerPlace] /\ task \in [Threads -> Task \cup {NoTask}]
      /\ Worker \subseteq Threads /\ Caller \subseteq Threads /\ Worker \cap Caller = {}
      /\ \A w \in Worker : pc[w] \in WorkerPlace
      /\ \A c \in Caller : pc[c] \in CallerPlace
  BY ThreadPoolAssumption, Zenon DEF PoolInv, Threads
<1>1. CASE Start
  BY <1>0, <1>1, TurnKept, Zenon DEF Start, NotifyAll, Waits, WorkerPlace, CallerPlace
<1>2. CASE Stop
  BY <1>0, <1>2, TurnKept, Zenon DEF Stop, NotifyAll, Waits, WorkerPlace, CallerPlace
<1>3. CASE Join
  BY <1>0, <1>3, TurnKept, Zenon DEF Join, Waits
<1>4. ASSUME NEW t \in Threads, SpuriousWakeup(t) PROVE TurnInv'
  <2>1. /\ pc[t] \in {"notEmpty", "notFull"} /\ UNCHANGED <<queue, history, made, task>>
        /\ pc'[t] \in {"take", "run"} /\ (t \in Worker => pc'[t] = "take")
        /\ \A x \in Threads \ {t} : pc'[x] = pc[x]
    BY <1>0, <1>4, Zenon DEF SpuriousWakeup
  <2>2. \A c \in Caller : Waits(c)' => Waits(c)
    <3>1. t \in Caller => pc[t] = "notFull"
      BY <1>0, <2>1, Zenon DEF CallerPlace
    <3> QED
      BY <1>0, <2>1, <3>1, Zenon DEF Waits
  <2>3. \A w \in Worker : pc'[w] = "begin" <=> pc[w] = "begin"
    BY <1>0, <2>1, Zenon
  <2> QED
    BY <2>1, <2>2, <2>3, TurnKept, Zenon
<1>5. ASSUME NEW c \in Caller, WaitNotFull(c) PROVE TurnInv'
  BY <1>0, <1>5, TurnKept, Zenon DEF WaitNotFull, Waits
<1>6. ASSUME NEW w \in Worker, CheckRunning(w) PROVE TurnInv'
  BY <1>0, <1>6, TurnKept, Zenon DEF CheckRunning, Waits
<1>7. ASSUME NEW w \in Worker, WaitNotEmpty(w) PROVE TurnInv'
  BY <1>0, <1>7, TurnKept, Zenon DEF WaitNotEmpty, Waits
<1>8. ASSUME NEW w \in Worker, TakeNothing(w) PROVE TurnInv'
  BY <1>0, <1>8, TurnKept, Zenon DEF TakeNothing, Waits
<1>9. ASSUME NEW w \in Worker, TaskReturns(w) PROVE TurnInv'
  BY <1>0, <1>9, TurnKept, Zenon DEF TaskReturns, Waits
<1> QED
  BY <1>1, <1>2, <1>3, <1>4, <1>5, <1>6, <1>7, <1>8, <1>9, Zenon

\* A new task has a new number.
LEMMA TurnRun == ASSUME PoolInv, TurnInv, NEW c \in Caller, Run(c) PROVE TurnInv'
<1>1. /\ made \in Nat /\ made' = made + 1 /\ UNCHANGED <<queue, entered, begun>>
      /\ entered \in Seq(Task) /\ Len(entered) \in Nat
      /\ \A i \in 1..Len(entered) : entered[i] \in Nat
  <2>1. entered \in Seq(Task) /\ made \in Nat
    BY Zenon DEF PoolInv, TurnInv
  <2>2. Len(entered) \in Nat /\ \A i \in 1..Len(entered) : entered[i] \in Task
    BY <2>1, LenProperties, ElementOfSeq, Zenon
  <2>3. Task \subseteq Nat
    BY ThreadPoolAssumption DEF Task
  <2> QED
    BY <2>1, <2>2, <2>3, Zenon DEF Run, history
<1>2. \A d \in Caller : Waits(d) => task[d] \in Nat
  BY ThreadPoolAssumption DEF PoolInv, Waits, Task
<1>3. /\ \A w \in Worker : pc'[w] = pc[w] /\ task'[w] = task[w]
      /\ \A d \in Caller \ {c} : pc'[d] = pc[d] /\ task'[d] = task[d]
      /\ Waits(c)' => task'[c] = made'
  BY ThreadPoolAssumption, Zenon DEF Run, PoolInv, Threads, Waits
<1>4. InHand' = InHand /\ Gone' = Gone
  BY <1>1, <1>3, Zenon DEF InHand, Gone
<1>5. \A i \in 1..Len(entered) : entered[i] <= made' /\ entered[i] # made'
  BY <1>1 DEF TurnInv
<1>6. \A d \in Caller \ {c} : Waits(d)' => Waits(d) /\ task'[d] <= made' /\ task'[d] # made'
  BY <1>1, <1>2, <1>3 DEF TurnInv, Waits
<1>7. \A d \in Caller : Waits(d)' => task'[d] <= made' /\ \A i \in 1..Len(entered') : entered'[i] # task'[d]
  BY <1>1, <1>3, <1>5, <1>6 DEF TurnInv
<1>8. \A d, e \in Caller : Waits(d)' /\ Waits(e)' /\ task'[d] = task'[e] => d = e
  BY <1>3, <1>6, Zenon DEF TurnInv
<1> QED
  BY <1>1, <1>3, <1>4, <1>5, <1>7, <1>8 DEF TurnInv

\* The task enters the queue.
LEMMA TurnPut == ASSUME PoolInv, TurnInv, NEW c \in Caller, Put(c) PROVE TurnInv'
<1> DEFINE n == Len(entered)  m == Len(queue)  t == task[c]
<1>1. /\ t \in Task /\ Waits(c) /\ entered' = Append(entered, t) /\ queue' = Append(queue, t)
      /\ begun' = begun /\ made' = made
  BY Zenon DEF Put, PoolInv, Waits
<1>0. entered \in Seq(Task) /\ queue \in Seq(Task)
  BY Zenon DEF TurnInv, PoolInv
<1>2. /\ n \in Nat /\ entered' \in Seq(Task) /\ Len(entered') = n + 1
      /\ \A i \in 1..n : entered'[i] = entered[i]
      /\ entered'[n + 1] = t
  BY <1>0, <1>1, LenProperties, AppendProperties
<1>3. /\ m \in Nat /\ Len(queue') = m + 1
      /\ \A i \in 1..m : queue'[i] = queue[i]
      /\ queue'[m + 1] = t
  BY <1>0, <1>1, LenProperties, AppendProperties
<1>4. /\ \A w \in Worker : (pc'[w] = "begin" <=> pc[w] = "begin") /\ task'[w] = task[w]
      /\ \A d \in Caller : Waits(d)' => d # c /\ Waits(d) /\ task'[d] = task[d]
  BY <1>1, ThreadPoolAssumption, Zenon DEF Put, NotifyAll, PoolInv, Threads, Waits, WorkerPlace, CallerPlace
<1>5. InHand' = InHand
  BY <1>4, Zenon DEF InHand
<1>6. Gone' = Gone /\ Gone = n - m /\ Gone \in Nat
  BY <1>2, <1>3 DEF Gone, TurnInv
<1>7. t <= made /\ \A i \in 1..n : entered[i] # t
  BY <1>1, Zenon DEF TurnInv
<1> HIDE DEF n, m, t
<1>8. \A i \in 1..Len(entered') : i \in 1..n \/ i = n + 1
  BY <1>2
<1>9. \A i \in 1..Len(entered') : entered'[i] <= made'
  BY <1>1, <1>2, <1>7, <1>8, Zenon DEF TurnInv, n
<1>10. \A i, j \in 1..Len(entered') : entered'[i] = entered'[j] => i = j
  <2>1. \A i, j \in 1..n : entered[i] = entered[j] => i = j
    BY Zenon DEF TurnInv, n
  <2>2. \A i, j \in 1..n : entered'[i] = entered'[j] => i = j
    BY <1>2, <2>1, Zenon
  <2>3. \A i \in 1..n : entered'[i] # entered'[n + 1]
    BY <1>2, <1>7
  <2> QED
    BY <1>8, <2>2, <2>3, Zenon
<1>11. ASSUME NEW d \in Caller, Waits(d)'
       PROVE  task'[d] <= made' /\ \A i \in 1..Len(entered') : entered'[i] # task'[d]
  <2>1. d # c /\ Waits(d) /\ task'[d] = task[d] /\ task[d] # t
    BY <1>1, <1>4, <1>11, Zenon DEF TurnInv, t
  <2>2. task[d] <= made /\ \A i \in 1..n : entered[i] # task[d]
    BY <2>1, Zenon DEF TurnInv, n
  <2> QED
    BY <1>1, <1>2, <1>8, <2>1, <2>2
<1>12. \A k \in 1..Len(queue') : queue'[k] = entered'[Gone' + k]
  <2> SUFFICES ASSUME NEW k \in 1..Len(queue') PROVE queue'[k] = entered'[Gone + k]
    BY <1>6, Zenon
  <2>1. CASE k = m + 1
    <3>1. Gone + k = n + 1
      BY <1>2, <1>3, <1>6, <2>1
    <3> QED
      BY <1>2, <1>3, <2>1, <3>1, Zenon
  <2>2. CASE k \in 1..m
    <3>1. Gone + k \in 1..n
      BY <1>2, <1>3, <1>6, <2>2
    <3> QED
      BY <1>2, <1>3, <2>2, <3>1, Zenon DEF TurnInv, m
  <2> QED
    BY <1>3, <2>1, <2>2
<1>13. \A i \in 1..Gone' : i \in 1..n /\ entered'[i] = entered[i]
  BY <1>2, <1>3, <1>6
<1>14. \A i \in 1..Gone' : entered'[i] \in begun' \cup InHand'
  BY <1>1, <1>5, <1>6, <1>13, Zenon DEF TurnInv
<1>15. \A x \in begun' \cup InHand' : \E i \in 1..Gone' : entered'[i] = x
  <2>1. \A x \in begun \cup InHand : \E i \in 1..Gone : entered[i] = x
    BY Zenon DEF TurnInv
  <2>2. begun' \cup InHand' = begun \cup InHand
    BY <1>1, <1>5, Zenon
  <2>3. \A i \in 1..Gone : i \in 1..Gone' /\ entered'[i] = entered[i]
    BY <1>6, <1>13, Zenon
  <2> QED
    BY <2>1, <2>2, <2>3, Zenon
<1>16. \A d, e \in Caller : Waits(d)' /\ Waits(e)' /\ task'[d] = task'[e] => d = e
  BY <1>4, Zenon DEF TurnInv
<1>17. \A v, w \in Worker : pc'[v] = "begin" /\ pc'[w] = "begin" /\ task'[v] = task'[w] => v = w
  BY <1>4, Zenon DEF TurnInv
<1>18. begun' \cap InHand' = {}
  BY <1>1, <1>5, Zenon DEF TurnInv
<1> QED
  BY <1>2, <1>6, <1>9, <1>10, <1>11, <1>12, <1>14, <1>15, <1>16, <1>17, <1>18, Zenon DEF TurnInv

\* The task at the head goes into the hands of the worker.
LEMMA TurnTake == ASSUME PoolInv, TurnInv, NEW w \in Worker, Take(w) PROVE TurnInv'
<1> DEFINE n == Len(entered)  m == Len(queue)  t == Head(queue)  g == Gone + 1
<1>1. /\ queue # <<>> /\ queue' = Tail(queue) /\ UNCHANGED <<entered, begun, made>>
      /\ task' = [task EXCEPT ![w] = t] /\ pc[w] = "take"
  BY Zenon DEF Take, history
<1>2. queue \in Seq(Task) /\ entered \in Seq(Task) /\ Gone \in Nat
  BY Zenon DEF PoolInv, TurnInv
<1>3. /\ n \in Nat /\ m \in Nat /\ m > 0 /\ Len(queue') = m - 1 /\ t = queue[1]
      /\ \A k \in 1..(m - 1) : queue'[k] = queue[k + 1]
  BY <1>1, <1>2, EmptySeq, LenProperties, HeadTailProperties
<1>4. Gone' = g /\ Gone = n - m /\ g \in 1..n /\ g \in Nat
  BY <1>1, <1>2, <1>3 DEF Gone
<1>5. t = entered[g]
  <2>1. 1 \in 1..m
    BY <1>3
  <2> QED
    BY <1>3, <2>1, Zenon DEF TurnInv
<1>6. /\ \A v \in Worker : pc'[v] = "begin" <=> pc[v] = "begin" \/ v = w
      /\ \A c \in Caller : Waits(c)' => Waits(c)
  <2> DEFINE after == [pc EXCEPT ![w] = "begin"]
  <2>1. pc \in [Threads -> WorkerPlace \cup CallerPlace] /\ w \in Threads /\ w \notin Caller
        /\ Worker \subseteq Threads /\ Caller \subseteq Threads
    BY ThreadPoolAssumption, Zenon DEF PoolInv, Threads
  <2>2. after \in [Threads -> WorkerPlace \cup CallerPlace] /\ after[w] = "begin"
        /\ \A x \in Threads \ {w} : after[x] = pc[x]
    BY <2>1, Zenon DEF WorkerPlace
  <2>3. pc' \in IF MaxQueueSize > 0 THEN Notify(after, "notFull", "run") ELSE {after}
    BY Zenon DEF Take
  <2>4. DOMAIN after = Threads
    BY <2>2, Zenon
  <2> HIDE DEF after
  <2>5. pc' = after \/ \E x \in Threads : after[x] = "notFull" /\ pc' = [after EXCEPT ![x] = "run"]
    BY <2>3, <2>4, Zenon DEF Notify
  <2>6. CASE pc' = after
    BY <2>1, <2>2, <2>6, Zenon DEF Waits
  <2>7. ASSUME NEW x \in Threads, after[x] = "notFull", pc' = [after EXCEPT ![x] = "run"]
        PROVE  /\ \A v \in Worker : pc'[v] = "begin" <=> pc[v] = "begin" \/ v = w
               /\ \A c \in Caller : Waits(c)' => Waits(c)
    <3>1. pc'[x] = "run" /\ \A y \in Threads \ {x} : pc'[y] = after[y]
      BY <2>2, <2>7, Zenon
    <3>2. x \in Caller /\ x # w /\ x \notin Worker
      BY <2>1, <2>2, <2>7, ThreadPoolAssumption, Zenon DEF PoolInv, Threads, WorkerPlace
    <3> QED
      BY <2>1, <2>2, <2>7, <3>1, <3>2, Zenon DEF Waits
  <2> QED
    BY <2>5, <2>6, <2>7, Zenon
<1>7. /\ task'[w] = t
      /\ \A v \in Worker \ {w} : task'[v] = task[v]
      /\ \A c \in Caller : task'[c] = task[c]
  BY <1>1, ThreadPoolAssumption, Zenon DEF PoolInv, Threads
<1>8. InHand' = InHand \cup {t}
  BY <1>1, <1>6, <1>7 DEF InHand
<1> HIDE DEF n, m, t, g
<1>9. t \notin begun \cup InHand
  <2>1. \A i \in 1..Gone : i # g /\ i \in 1..n
    BY <1>3, <1>4 DEF g
  <2> QED
    BY <1>4, <1>5, <2>1, Zenon DEF TurnInv, n
<1>10. \A k \in 1..Len(queue') : queue'[k] = entered'[Gone' + k]
  <2> SUFFICES ASSUME NEW k \in 1..Len(queue') PROVE queue'[k] = entered[g + k]
    BY <1>1, <1>4, Zenon
  <2>1. k + 1 \in 1..m /\ Gone + (k + 1) = g + k /\ queue'[k] = queue[k + 1]
    BY <1>2, <1>3 DEF g
  <2> QED
    BY <2>1, Zenon DEF TurnInv, m
<1>11. \A i \in 1..g : i \in 1..Gone \/ i = g
  BY <1>2 DEF g
<1>12. g \in 1..g /\ \A i \in 1..Gone : i \in 1..g
  BY <1>2 DEF g
<1>13. \A i \in 1..Gone' : entered'[i] \in begun' \cup InHand'
  BY <1>1, <1>4, <1>5, <1>8, <1>11, Zenon DEF TurnInv
<1>14. \A x \in begun' \cup InHand' : \E i \in 1..Gone' : entered'[i] = x
  BY <1>1, <1>4, <1>5, <1>8, <1>12, Zenon DEF TurnInv
<1>15. \A u, v \in Worker : pc'[u] = "begin" /\ pc'[v] = "begin" /\ task'[u] = task'[v] => u = v
  <2>1. \A v \in Worker \ {w} : pc'[v] = "begin" => pc[v] = "begin" /\ task'[v] = task[v] /\ task[v] \in InHand
    BY <1>6, <1>7, Zenon DEF InHand
  <2> QED
    BY <1>7, <1>9, <2>1, Zenon DEF TurnInv
<1>16. begun' \cap InHand' = {}
  BY <1>1, <1>8, <1>9, Zenon DEF TurnInv
<1> QED
  <2>1. \A c \in Caller : Waits(c)' => task'[c] <= made' /\ \A i \in 1..Len(entered') : entered'[i] # task'[c]
    <3>1. \A c \in Caller : Waits(c) => task[c] <= made /\ \A i \in 1..Len(entered) : entered[i] # task[c]
      BY Zenon DEF TurnInv
    <3> QED
      BY <1>1, <1>6, <1>7, <3>1
  <2>2. \A c, d \in Caller : Waits(c)' /\ Waits(d)' /\ task'[c] = task'[d] => c = d
    BY <1>6, <1>7, Zenon DEF TurnInv
  <2>3. Gone' \in Nat
    BY <1>4, Zenon
  <2>4. entered' \in Seq(Task) /\ \A i \in 1..Len(entered') : entered'[i] <= made'
    BY <1>1, Zenon DEF TurnInv
  <2>5. \A i, j \in 1..Len(entered') : entered'[i] = entered'[j] => i = j
    BY <1>1, Zenon DEF TurnInv
  <2> QED
    BY <1>10, <1>13, <1>14, <1>15, <1>16, <2>1, <2>2, <2>3, <2>4, <2>5, Zenon DEF TurnInv

\* The worker begins its task.
LEMMA TurnBegin == ASSUME PoolInv, TurnInv, NEW w \in Worker, Begin(w) PROVE TurnInv'
<1>1. /\ pc[w] = "begin" /\ pc' = [pc EXCEPT ![w] = "task"] /\ begun' = begun \cup {task[w]}
      /\ UNCHANGED <<queue, task, entered, made>>
  BY Zenon DEF Begin
<1>2. /\ pc'[w] = "task" /\ \A v \in Worker \ {w} : pc'[v] = pc[v]
      /\ \A c \in Caller : pc'[c] = pc[c]
  BY <1>1, ThreadPoolAssumption, Zenon DEF PoolInv, Threads
<1>3. InHand' = InHand \ {task[w]} /\ task[w] \in InHand
  <2>1. \A x : x \in InHand <=> \E v \in Worker : pc[v] = "begin" /\ task[v] = x
    BY Zenon DEF InHand
  <2>2. \A x : x \in InHand' <=> \E v \in Worker : pc'[v] = "begin" /\ task[v] = x
    BY <1>1, Zenon DEF InHand
  <2>3. \A x : x \in InHand' <=> \E v \in Worker \ {w} : pc[v] = "begin" /\ task[v] = x
    BY <1>2, <2>2 
  <2>4. \A v \in Worker \ {w} : pc[v] = "begin" => task[v] # task[w]
    BY <1>1, Zenon DEF TurnInv
  <2> QED
    BY <1>1, <2>1, <2>3, <2>4, Zenon
<1>4. begun' \cup InHand' = begun \cup InHand /\ begun' \cap InHand' = {}
  BY <1>1, <1>3, Zenon DEF TurnInv
<1>5. Gone' = Gone
  BY <1>1, Zenon DEF Gone
<1>6. \A c \in Caller : Waits(c)' <=> Waits(c)
  BY <1>2, Zenon DEF Waits
<1>7. \A u, v \in Worker : pc'[u] = "begin" /\ pc'[v] = "begin" /\ task'[u] = task'[v] => u = v
  <2>1. \A v \in Worker : pc'[v] = "begin" => pc[v] = "begin"
    BY <1>1, <1>2, Zenon
  <2> QED
    BY <1>1, <2>1, Zenon DEF TurnInv
<1> QED
  BY <1>1, <1>4, <1>5, <1>6, <1>7, Zenon DEF TurnInv

LEMMA TurnNext == ASSUME PoolInv, TurnInv, Next PROVE TurnInv'
BY TurnRest, TurnRun, TurnPut, TurnTake, TurnBegin, Zenon DEF Next, CallerStep, WorkerStep, Threads

LEMMA TurnSuffices == ASSUME PoolInv, TurnInv PROVE TasksBeginInTurn
<1> DEFINE n == Len(entered)  m == Len(queue)
<1>1. n \in Nat /\ m \in Nat /\ Gone \in Nat /\ Gone = n - m
  BY LenProperties, Zenon DEF PoolInv, TurnInv, Gone
<1> HIDE DEF n, m
<1>2. ASSUME NEW i \in 1..n
      PROVE  entered[i] \in begun \cup InHand \cup {queue[k] : k \in 1..m}
  <2>1. CASE i \in 1..Gone
    BY <2>1, Zenon DEF TurnInv
  <2>2. CASE i \notin 1..Gone
    <3>1. i - Gone \in 1..m /\ Gone + (i - Gone) = i
      BY <1>1, <2>2
    <3>2. queue[i - Gone] = entered[Gone + (i - Gone)]
      BY <3>1, Zenon DEF TurnInv, m
    <3> QED
      BY <3>1, <3>2
  <2> QED
    BY <2>1, <2>2, Zenon
<1>3. ASSUME NEW i \in 1..n, entered[i] \in begun
      PROVE  /\ entered[i] \notin InHand /\ \A k \in 1..m : queue[k] # entered[i]
             /\ \A j \in 1..(i - 1) : entered[j] \in begun \cup InHand
  <2>1. i \in 1..Gone
    <3>1. \A j \in 1..Gone : j \in 1..n
      BY <1>1
    <3> QED
      <4>1. \E j \in 1..Gone : entered[j] = entered[i]
        BY <1>3, Zenon DEF TurnInv
      <4>2. \A j, k \in 1..n : entered[j] = entered[k] => j = k
        BY Zenon DEF TurnInv, n
      <4> QED
        BY <3>1, <4>1, <4>2, Zenon
  <2>2. \A k \in 1..m : Gone + k \in 1..n /\ Gone + k # i
    BY <1>1, <2>1
  <2>3. \A k \in 1..m : queue[k] # entered[i]
    <3>1. \A k \in 1..m : queue[k] = entered[Gone + k]
      BY Zenon DEF TurnInv, m
    <3>2. \A j, k \in 1..n : entered[j] = entered[k] => j = k
      BY Zenon DEF TurnInv, n
    <3> QED
      BY <2>2, <3>1, <3>2
  <2>4. \A j \in 1..(i - 1) : j \in 1..Gone
    BY <1>1, <2>1
  <2> QED
    BY <1>3, <2>3, <2>4, Zenon DEF TurnInv
<1> QED
  BY <1>2, <1>3, Zenon DEF TurnInv, TasksBeginInTurn, n, m

\* The histories of a pool, and none elsewhere.
HistoryInv ==
  /\ kind = "pool" => TurnInv
  /\ kind # "pool" => entered = <<>>

\* The workers of the pool begin the tasks in turn: of those that entered the queue none
\* is lost or begun twice, and none begins before one ahead of it has left the queue
\* (TasksBeginInTurn of ThreadPool), for any number of workers, callers, tasks and places.
THEOREM TasksBegin == QueuesSpec => []TasksBeginInTurn
<1>1. QueuesInit => HistoryInv
  BY TurnInit, Zenon DEF QueuesInit, NoPool, HistoryInv
<1>2. QueuesInv /\ HistoryInv /\ [QueuesNext]_queuesVars => HistoryInv'
  <2> SUFFICES ASSUME QueuesInv, HistoryInv, [QueuesNext]_queuesVars PROVE HistoryInv'
    BY Zenon
  <2>1. CASE Pool(Next)
    BY <2>1, TurnNext, Zenon DEF Pool, QueuesInv, HistoryInv
  <2>2. CASE UNCHANGED <<kind, entered>> /\ kind # "pool"
    BY <2>2, Zenon DEF HistoryInv
  <2>3. CASE UNCHANGED queuesVars
    <3>1. UNCHANGED <<kind, queue, history, made, pc, task>> /\ entered' = entered
      BY <2>3, Zenon DEF queuesVars, vars, history
    <3>2. TurnInv => TurnInv'
      BY <3>1, TurnKept, Zenon DEF Waits
    <3> QED
      BY <3>1, <3>2, Zenon DEF HistoryInv
  <2> QED
    BY <2>1, <2>2, <2>3, Zenon DEF QueuesNext, Queue, OfLatch, poolVars, history
<1>3. QueuesInv /\ HistoryInv => TasksBeginInTurn
  <2> SUFFICES ASSUME QueuesInv, HistoryInv PROVE TasksBeginInTurn
    BY Zenon
  <2>1. CASE kind = "pool"
    BY <2>1, TurnSuffices, Zenon DEF QueuesInv, HistoryInv
  <2>2. CASE kind # "pool"
    <3>1. entered = <<>> /\ Len(entered) = 0
      BY <2>2, EmptySeq, Zenon DEF HistoryInv
    <3>2. \A w \in Worker : pc[w] # "begin"
      <4>1. CASE kind \in {"blocking", "bounded"}
        <5>1. RoleInv(pc)
          BY <4>1, Zenon DEF QueuesInv, BlockingInv
        <5> QED
          BY <5>1, Zenon DEF RoleInv
      <4>2. CASE kind = "latch"
        <5>1. pc \in [Threads -> {"idle", "wait", "sleeping", "returned", "counted"}]
          BY <4>2 DEF QueuesInv, LatchInv
        <5> QED
          BY <5>1 DEF Threads
      <4> QED
        BY <2>2, <4>1, <4>2, Zenon DEF QueuesInv
    <3> QED
      BY <3>1, <3>2 DEF TasksBeginInTurn
  <2> QED
    BY <2>1, <2>2, Zenon
<1> QED
  BY <1>1, <1>2, <1>3, QueuesInvariant, PTL DEF QueuesSpec
=============================================================================
