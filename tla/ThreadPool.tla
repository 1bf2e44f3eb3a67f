----------------------------- MODULE ThreadPool -----------------------------
(***************************************************************************)
(* utils/ThreadPool.cpp: worker threads take tasks from a queue, callers   *)
(* put them there and wait while it is full, and the owner starts and      *)
(* stops the pool.                                                         *)
(*                                                                         *)
(* What runs with mutex_ held is one step: it ends where the mutex is      *)
(* released, at the end of the scope or in wait().  A thread that is       *)
(* notified goes back to the place before its test.                        *)
(***************************************************************************)
EXTENDS Naturals, Sequences

CONSTANTS
  Worker,       \* the threads of the pool
  Caller,       \* threads that call run()
  MaxQueueSize, \* maxQueueSize_, 0 for no limit
  MaxTasks,     \* bound on the number of tasks
  NoTask        \* the empty boost::function

Task == 1..MaxTasks

ASSUME ThreadPoolAssumption ==
  MaxQueueSize \in Nat /\ MaxTasks \in Nat /\ Worker \cap Caller = {} /\ NoTask \notin Nat

VARIABLES
  started,  \* threads_ is not empty
  running,  \* running_
  queue,    \* queue_
  pc,       \* where the threads are
  task,     \* the task of a caller or of a worker
  entered,  \* history: the tasks that entered the queue, in order
  begun,    \* history: the tasks that workers have begun to run
  made,     \* number of tasks given to run()
  owner     \* where the owner of the pool is

history == <<entered, begun>>
vars == <<started, running, queue, pc, task, history, made, owner>>

Init ==
  /\ started = FALSE /\ running = FALSE
  /\ queue = <<>> /\ entered = <<>> /\ begun = {}
  /\ pc = [t \in Worker \cup Caller |-> IF t \in Worker THEN "new" ELSE "idle"]
  /\ task = [t \in Worker \cup Caller |-> NoTask]
  /\ made = 0
  /\ owner = "new"

\* notifyAll() wakes the threads that wait at a place, notify() one of them.
NotifyAll(pcs, place, test) == [t \in DOMAIN pcs |-> IF pcs[t] = place THEN test ELSE pcs[t]]
Notify(pcs, place, test) ==
  IF \E t \in DOMAIN pcs : pcs[t] = place
  THEN {[pcs EXCEPT ![t] = test] : t \in {x \in DOMAIN pcs : pcs[x] = place}}
  ELSE {pcs}
-----------------------------------------------------------------------------
(* The owner *)

\* start(): the pool is not shared before it returns.
Start ==
  /\ owner = "new"
  /\ owner' = "started" /\ started' = TRUE /\ running' = TRUE
  /\ pc' = NotifyAll(pc, "new", "loop")
  /\ UNCHANGED <<queue, task, history, made>>

\* Mutant: stop() wakes one worker only.
StopNotifiesOne ==
  /\ owner = "started"
  /\ owner' = "join" /\ running' = FALSE
  /\ pc' \in Notify(pc, "notEmpty", "take")
  /\ UNCHANGED <<started, queue, task, history, made>>

\* stop(), up to the joins.
Stop ==
  /\ owner = "started"
  /\ owner' = "join" /\ running' = FALSE
  /\ pc' = NotifyAll(pc, "notEmpty", "take")
  /\ UNCHANGED <<started, queue, task, history, made>>

\* All threads are joined.
Join ==
  /\ owner = "join" /\ \A w \in Worker : pc[w] = "exited"
  /\ owner' = "stopped"
  /\ UNCHANGED <<started, running, queue, pc, task, history, made>>
-----------------------------------------------------------------------------
(* run() *)

isFull == MaxQueueSize > 0 /\ Len(queue) >= MaxQueueSize

\* A caller makes a task; without threads it runs the task itself.
Run(c) ==
  /\ pc[c] = "idle" /\ made < MaxTasks
  /\ made' = made + 1
  /\ IF started
     THEN task' = [task EXCEPT ![c] = made'] /\ pc' = [pc EXCEPT ![c] = "run"]
     ELSE UNCHANGED <<pc, task>>
  /\ UNCHANGED <<started, running, queue, history, owner>>

\* The loop around notFull_.wait().
WaitNotFull(c) ==
  /\ pc[c] = "run" /\ isFull
  /\ pc' = [pc EXCEPT ![c] = "notFull"]
  /\ UNCHANGED <<started, running, queue, task, history, made, owner>>

\* Mutant: queue_.push_back() without a notification.
PutSilently(c) ==
  /\ pc[c] = "run" /\ ~isFull
  /\ queue' = Append(queue, task[c]) /\ entered' = Append(entered, task[c])
  /\ task' = [task EXCEPT ![c] = NoTask]
  /\ pc' = [pc EXCEPT ![c] = "idle"]
  /\ UNCHANGED <<started, running, begun, made, owner>>

\* queue_.push_back() and notEmpty_.notifyAll().
Put(c) ==
  /\ pc[c] = "run" /\ ~isFull
  /\ queue' = Append(queue, task[c]) /\ entered' = Append(entered, task[c])
  /\ task' = [task EXCEPT ![c] = NoTask]
  /\ pc' = NotifyAll([pc EXCEPT ![c] = "idle"], "notEmpty", "take")
  /\ UNCHANGED <<started, running, begun, made, owner>>
-----------------------------------------------------------------------------
(* runInThread() *)

\* A condition variable may wake a thread for no reason.
SpuriousWakeup(t) ==
  /\ pc[t] \in {"notEmpty", "notFull"}
  /\ pc' = [pc EXCEPT ![t] = IF t \in Worker THEN "take" ELSE "run"]
  /\ UNCHANGED <<started, running, queue, task, history, made, owner>>

\* while (running_), read without the mutex.
CheckRunning(w) ==
  /\ pc[w] = "loop"
  /\ pc' = [pc EXCEPT ![w] = IF running THEN "take" ELSE "exited"]
  /\ UNCHANGED <<started, running, queue, task, history, made, owner>>

\* The loop around notEmpty_.wait().
WaitNotEmpty(w) ==
  /\ pc[w] = "take" /\ queue = <<>> /\ running
  /\ pc' = [pc EXCEPT ![w] = "notEmpty"]
  /\ UNCHANGED <<started, running, queue, task, history, made, owner>>

\* Mutant: take() serves the newest task first.
TakeBack(w) ==
  /\ pc[w] = "take" /\ queue # <<>>
  /\ queue' = SubSeq(queue, 1, Len(queue) - 1)
  /\ task' = [task EXCEPT ![w] = queue[Len(queue)]]
  /\ LET after == [pc EXCEPT ![w] = "begin"]
     IN pc' \in IF MaxQueueSize > 0 THEN Notify(after, "notFull", "run") ELSE {after}
  /\ UNCHANGED <<started, running, history, made, owner>>

\* Mutant: take() does not notify notFull_.
TakeSilently(w) ==
  /\ pc[w] = "take" /\ queue # <<>>
  /\ queue' = Tail(queue)
  /\ task' = [task EXCEPT ![w] = Head(queue)]
  /\ pc' = [pc EXCEPT ![w] = "begin"]
  /\ UNCHANGED <<started, running, history, made, owner>>

\* take() returns the front of the queue and notifies one caller.
Take(w) ==
  /\ pc[w] = "take" /\ queue # <<>>
  /\ queue' = Tail(queue)
  /\ task' = [task EXCEPT ![w] = Head(queue)]
  /\ LET after == [pc EXCEPT ![w] = "begin"]
     IN pc' \in IF MaxQueueSize > 0 THEN Notify(after, "notFull", "run") ELSE {after}
  /\ UNCHANGED <<started, running, history, made, owner>>

\* take() returns an empty task, because the pool is stopped.
TakeNothing(w) ==
  /\ pc[w] = "take" /\ queue = <<>> /\ ~running
  /\ pc' = [pc EXCEPT ![w] = "loop"]
  /\ UNCHANGED <<started, running, queue, task, history, made, owner>>

\* "task()" begins, with the mutex released.
Begin(w) ==
  /\ pc[w] = "begin"
  /\ pc' = [pc EXCEPT ![w] = "task"]
  /\ begun' = begun \cup {task[w]}
  /\ UNCHANGED <<started, running, queue, task, entered, made, owner>>

\* The task returns.
TaskReturns(w) ==
  /\ pc[w] = "task"
  /\ task' = [task EXCEPT ![w] = NoTask]
  /\ pc' = [pc EXCEPT ![w] = "loop"]
  /\ UNCHANGED <<started, running, queue, history, made, owner>>

WorkerStep(w) ==
  \/ CheckRunning(w) \/ WaitNotEmpty(w) \/ Take(w) \/ TakeNothing(w)
  \/ Begin(w) \/ TaskReturns(w)
CallerStep(c) == WaitNotFull(c) \/ Put(c)

Next ==
  \/ Start \/ Stop \/ Join
  \/ \E c \in Caller : Run(c) \/ CallerStep(c)
  \/ \E w \in Worker : WorkerStep(w)
  \/ \E t \in Worker \cup Caller : SpuriousWakeup(t)

Spec == Init /\ [][Next]_vars
-----------------------------------------------------------------------------
(* Properties *)

\* The tasks that workers have taken and not begun.
InHand == {task[w] : w \in {v \in Worker : pc[v] = "begin"}}

\* Workers begin tasks after take() has released the mutex, and so in any order; but
\* of the tasks that entered the queue none is lost, none is begun twice, and when one
\* has begun, those ahead of it have begun or each is in the hands of a worker.
TasksBeginInTurn ==
  /\ \A i \in 1..Len(entered) :
       /\ entered[i] \in begun \cup InHand \cup {queue[k] : k \in 1..Len(queue)}
       /\ entered[i] \in begun =>
            /\ entered[i] \notin InHand /\ \A k \in 1..Len(queue) : queue[k] # entered[i]
            /\ \A j \in 1..(i - 1) : entered[j] \in begun \cup InHand
  /\ \A v, w \in Worker : pc[v] = "begin" /\ pc[w] = "begin" /\ task[v] = task[w] => v = w

\* No worker sleeps on notEmpty_ while there is work or the pool is stopped.
NoWorkerLeftSleeping ==
  (\E w \in Worker : pc[w] = "notEmpty") => queue = <<>> /\ running

\* stop() returns, whatever the workers were doing.
StopReturns == (owner = "join") ~> (owner = "stopped")
=============================================================================
