----------------------------- MODULE EPollPoller ----------------------------
(***************************************************************************)
(* EPollPoller (port/EPollPoller.cpp) under the calls of port/Channel.h:   *)
(* the interest of a channel, its index, the map from descriptors to       *)
(* channels and the interest list of the kernel.  Several channels may     *)
(* have the same descriptor one after the other.                           *)
(*                                                                         *)
(* A failed assert stores its line in "failed" and ends the program.       *)
(***************************************************************************)
EXTENDS Naturals, FiniteSets

CONSTANTS
  Channel, Fd,
  FdOf,         \* fd() of a channel
  MaxEvents,    \* bound on the size of events_
  None

Event == {"read", "write"}

VARIABLES
  events,       \* events_ of the channels
  index,        \* index_ of the channels
  channels,     \* channels_
  kernel,       \* the epoll set: [channel, events] of a descriptor, or None
  readyEvents,  \* the events that are ready, of each descriptor
  listSize,     \* events_.size()
  active,       \* what the last poll() returned
  failed

vars == <<events, index, channels, kernel, readyEvents, listSize, active, failed>>

Init ==
  /\ events = [c \in Channel |-> {}]
  /\ index = [c \in Channel |-> "kNew"]
  /\ channels = [f \in Fd |-> None]
  /\ kernel = [f \in Fd |-> None]
  /\ readyEvents = [f \in Fd |-> {}]
  /\ listSize = 1 /\ active = {} /\ failed = 0
-----------------------------------------------------------------------------
\* update(): EPOLL_CTL_ADD and EPOLL_CTL_MOD.
Watch(c, e) == kernel' = [kernel EXCEPT ![FdOf[c]] = [channel |-> c, events |-> e]]
\* update(): EPOLL_CTL_DEL.
Unwatch(c) == kernel' = [kernel EXCEPT ![FdOf[c]] = None]

Fail(line) == failed' = line /\ UNCHANGED <<index, channels, kernel>>

\* updateChannel(), once the channel has set its events to e.
UpdateChannel(c, e) ==
  IF index[c] \in {"kNew", "kDeleted"}
  THEN IF index[c] = "kNew" /\ channels[FdOf[c]] # None THEN Fail(100)
       ELSE IF index[c] = "kDeleted" /\ channels[FdOf[c]] # c THEN Fail(106)
       ELSE /\ channels' = [channels EXCEPT ![FdOf[c]] = c]
            /\ index' = [index EXCEPT ![c] = "kAdded"]
            /\ Watch(c, e)
            /\ UNCHANGED failed
  ELSE IF channels[FdOf[c]] # c THEN Fail(116)
  ELSE /\ IF e = {} THEN Unwatch(c) /\ index' = [index EXCEPT ![c] = "kDeleted"]
                    ELSE Watch(c, e) /\ UNCHANGED index
       /\ UNCHANGED <<channels, failed>>

\* Channel: enableReading(), enableWriting(), disableWriting(), disableAll().
SetEvents(c, e) ==
  /\ events' = [events EXCEPT ![c] = e]
  /\ UpdateChannel(c, e)
  /\ UNCHANGED <<readyEvents, listSize, active>>

\* One channel of a descriptor is used at a time: the others have been removed.
Exclusive(c) == \A d \in Channel \ {c} : FdOf[d] = FdOf[c] => index[d] = "kNew"

Enable(c, e) == failed = 0 /\ Exclusive(c) /\ SetEvents(c, events[c] \cup {e})
\* The callers disable what they have enabled: handleWrite() tests isWriting(), and
\* handleClose(), connectDestroyed() and removeAndResetChannel() disable once.  Only
\* ~Acceptor() may disable a new channel: it is added and deleted in the same call.
DisableWriting(c) == failed = 0 /\ "write" \in events[c] /\ SetEvents(c, events[c] \ {"write"})
DisableAll(c) == failed = 0 /\ events[c] # {} /\ SetEvents(c, {})

\* Channel::remove() and removeChannel(); the channel is disabled, and the loop
\* is not about to handle it.
Remove(c) ==
  /\ failed = 0 /\ index[c] # "kNew" /\ events[c] = {}
  /\ IF channels[FdOf[c]] # c THEN Fail(136)
     ELSE /\ channels' = [channels EXCEPT ![FdOf[c]] = None]
          /\ IF index[c] = "kAdded" THEN Unwatch(c) ELSE UNCHANGED kernel
          /\ index' = [index EXCEPT ![c] = "kNew"]
          /\ UNCHANGED failed
  /\ UNCHANGED <<events, readyEvents, listSize, active>>
-----------------------------------------------------------------------------
\* Something becomes ready on a descriptor, or is no longer.
Ready(f, e) ==
  /\ failed = 0
  /\ readyEvents' = [readyEvents EXCEPT ![f] = e]
  /\ UNCHANGED <<events, index, channels, kernel, listSize, active, failed>>

\* epoll_wait() returns some of the watched descriptors with an event, as many
\* as events_ holds if there are more.  A hang-up is reported to whoever watches,
\* even for no events.
Reportable == {f \in Fd : kernel[f] # None /\ (kernel[f].events \cup {"hup"}) \cap readyEvents[f] # {}}

Returned ==
  {F \in SUBSET Reportable : Cardinality(F) = IF Cardinality(Reportable) < listSize
                                              THEN Cardinality(Reportable) ELSE listSize}

\* poll() and fillActiveChannels(); events_ is doubled when it was full.
Poll ==
  /\ failed = 0 /\ Reportable # {}
  /\ \E F \in Returned :
       /\ active' = {kernel[f].channel : f \in F}
       /\ failed' = IF \A f \in F : channels[f] = kernel[f].channel THEN 0 ELSE 83
       /\ listSize' = IF Cardinality(F) = listSize /\ 2 * listSize <= MaxEvents THEN 2 * listSize ELSE listSize
  /\ UNCHANGED <<events, index, channels, kernel, readyEvents>>

Next ==
  \/ \E c \in Channel :
       \/ \E e \in Event : Enable(c, e)
       \/ DisableWriting(c) \/ DisableAll(c) \/ Remove(c)
  \/ \E f \in Fd, e \in SUBSET (Event \cup {"hup"}) : Ready(f, e)
  \/ Poll

Spec == Init /\ [][Next]_vars
-----------------------------------------------------------------------------
(* Properties *)

\* The kernel watches exactly the channels that are kAdded, for exactly the
\* events they ask for, and gives back the channel that asked: no assert of
\* updateChannel(), removeChannel() and fillActiveChannels() fails, also when
\* a descriptor is used again.
KernelAgrees ==
  /\ failed = 0
  /\ \A c \in Channel :
      IF index[c] = "kAdded" THEN kernel[FdOf[c]] = [channel |-> c, events |-> events[c]]
      ELSE kernel[FdOf[c]] = None \/ kernel[FdOf[c]].channel # c
=============================================================================
