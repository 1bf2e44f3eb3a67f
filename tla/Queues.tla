------------------------------- MODULE Queues -------------------------------
(***************************************************************************)
(* The ways in which utils/ lets threads wait for each other: ThreadPool,  *)
(* BlockingQueue, BoundedBlockingQueue and CountDownLatch.  A behaviour is *)
(* about one of them; the threads and the queue have the same variables in *)
(* all of them, and those that only another one has keep their values.     *)
(***************************************************************************)
EXTENDS ThreadPool, FiniteSets

ASSUME QueuesAssumption == IsFiniteSet(Worker) /\ IsFiniteSet(Caller)

VARIABLES
  kind,   \* "pool", "blocking", "bounded" or "latch"
  count   \* count_ of the latch

poolVars == <<started, running, owner, history>>
queueVars == <<queue, task, made>>

Blocking(capacity) == INSTANCE BlockingQueue
  WITH Producer <- Caller, Consumer <- Worker, Capacity <- capacity, MaxItems <- MaxTasks,
       NoItem <- NoTask, item <- task
Latch == INSTANCE CountDownLatch WITH Waiter <- Caller, Counter <- Worker

\* The variables of the pool where there is none.
NoPool == started = TRUE /\ running = TRUE /\ owner = "none" /\ entered = <<>> /\ begun = {}

QueuesInit ==
  \/ kind = "pool" /\ Init /\ count = 0
  \/ kind = "blocking" /\ Blocking(0)!Init /\ NoPool /\ count = 0
  \/ kind = "bounded" /\ Blocking(MaxQueueSize)!Init /\ NoPool /\ count = 0
  \/ /\ kind = "latch" /\ Latch!Init /\ NoPool
     /\ queue = <<>> /\ made = 0 /\ task = [t \in Worker \cup Caller |-> NoTask]

Pool(A) == kind = "pool" /\ A /\ UNCHANGED <<kind, count>>
Queue(which, A) == kind = which /\ A /\ UNCHANGED <<kind, count, poolVars>>
OfLatch(A) == kind = "latch" /\ A /\ UNCHANGED <<kind, poolVars, queueVars>>

QueuesNext ==
  \/ Pool(Next)
  \/ Queue("blocking", Blocking(0)!Next)
  \/ Queue("bounded", Blocking(MaxQueueSize)!Next)
  \/ OfLatch(Latch!Next)

queuesVars == <<vars, kind, count>>

QueuesSpec == QueuesInit /\ [][QueuesNext]_queuesVars

\* The threads are scheduled and tasks return; consumers go on taking, and those
\* who count down do so.
QueuesFairSpec ==
  /\ QueuesSpec
  /\ WF_queuesVars(Pool(Join))
  /\ \A w \in Worker :
       WF_queuesVars(\/ Pool(WorkerStep(w)) \/ OfLatch(Latch!CountDown(w))
                     \/ Queue("blocking", Blocking(0)!ConsumerStep(w)) \/ Queue("bounded", Blocking(MaxQueueSize)!ConsumerStep(w)))
  /\ \A c \in Caller :
       WF_queuesVars(\/ Pool(CallerStep(c)) \/ OfLatch(Latch!WaiterStep(c))
                     \/ Queue("blocking", Blocking(0)!ProducerStep(c)) \/ Queue("bounded", Blocking(MaxQueueSize)!ProducerStep(c)))
-----------------------------------------------------------------------------
(* Properties *)

\* No notification is missed: no worker of the pool sleeps on notEmpty_ while there is
\* work or the pool is stopped.  notify() of the blocking queues wakes one thread
\* only: while some sleep there is one awake for every item and every free place.
\* Nobody sleeps at an open latch.
NoneLeftSleeping ==
  /\ kind = "pool" => NoWorkerLeftSleeping
  /\ kind = "blocking" => Blocking(0)!NoneLeftSleeping
  /\ kind = "bounded" => Blocking(MaxQueueSize)!NoneLeftSleeping
  /\ kind = "latch" => Latch!NoneLeftSleeping

\* Who waits in run(), in put() or in wait() of a latch returns, unless the pool is
\* stopped: stop() does not notify notFull_.
CallersReturn ==
  \A c \in Caller :
    (pc[c] \in {"run", "put", "notFull", "wait", "sleeping"} /\ running)
      ~> (pc[c] \in {"idle", "returned"} \/ ~running)
=============================================================================
