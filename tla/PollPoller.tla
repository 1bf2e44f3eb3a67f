----------------------------- MODULE PollPoller -----------------------------
(***************************************************************************)
(* PollPoller (port/PollPoller.cpp), the poller chosen by the environment  *)
(* variable DBDKY_USE_POLL, under the calls of port/Channel.h: the array   *)
(* pollfds_, the position each channel remembers in it, and the removal    *)
(* that moves the last entry.  Descriptors are natural numbers, because    *)
(* the entry of a disabled channel holds -fd - 1.                          *)
(*                                                                         *)
(* A failed assert stores its line in "failed" and ends the program.       *)
(***************************************************************************)
EXTENDS Integers, Sequences, FiniteSets

CONSTANTS
  Fd,            \* the descriptors, each with one channel at a time
  Uses           \* "reenable": a disabled channel may be enabled again;
                 \* "unused": a channel may be disabled that was never enabled

Event == {"read", "write"}

VARIABLES
  events,       \* events_ of the channel of a descriptor
  index,        \* index_ of the channel, -1 for a new one
  channels,     \* the keys of channels_
  pollfds,      \* pollfds_: [fd, events]
  readyEvents,  \* the events that are ready, of each descriptor
  active,       \* the channels the last poll() returned
  failed

vars == <<events, index, channels, pollfds, readyEvents, active, failed>>

Init ==
  /\ events = [f \in Fd |-> {}]
  /\ index = [f \in Fd |-> -1]
  /\ channels = {} /\ pollfds = <<>>
  /\ readyEvents = [f \in Fd |-> {}]
  /\ active = {} /\ failed = 0
-----------------------------------------------------------------------------
Fail(line) == failed' = line /\ UNCHANGED <<index, channels, pollfds>>

Disabled(f) == -f - 1

\* The descriptor of an entry, whether it is enabled or not.
Owner(fd) == IF fd < 0 THEN -fd - 1 ELSE fd

\* pollfds_[i] of the code, which counts from 0.
Entry(i) == pollfds[i + 1]

\* updateChannel(), once the channel of f has set its events to e.
UpdateChannel(f, e) ==
  IF index[f] < 0
  THEN IF f \in channels THEN Fail(67)
       ELSE /\ pollfds' = Append(pollfds, [fd |-> f, events |-> e])
            /\ index' = [index EXCEPT ![f] = Len(pollfds)]
            /\ channels' = channels \cup {f}
            /\ UNCHANGED failed
  ELSE IF f \notin channels THEN Fail(79)
  ELSE IF index[f] >= Len(pollfds) THEN Fail(82)
  ELSE IF Entry(index[f]).fd \notin {f, Disabled(f)} THEN Fail(84)
  ELSE /\ pollfds' = [pollfds EXCEPT ![index[f] + 1] =
                        [fd |-> IF e = {} THEN Disabled(f) ELSE @.fd, events |-> e]]
       /\ UNCHANGED <<index, channels, failed>>

SetEvents(f, e) ==
  /\ failed = 0
  /\ events' = [events EXCEPT ![f] = e]
  /\ UpdateChannel(f, e)
  /\ UNCHANGED <<readyEvents, active>>

\* Channel: enableReading(), enableWriting(), disableWriting(), disableAll().
Enable(f, e) ==
  /\ "reenable" \in Uses \/ index[f] < 0 \/ events[f] # {}
  /\ SetEvents(f, events[f] \cup {e})
DisableWriting(f) == "write" \in events[f] /\ SetEvents(f, events[f] \ {"write"})
DisableAll(f) ==
  /\ events[f] # {} \/ ("unused" \in Uses /\ index[f] < 0)
  /\ SetEvents(f, {})

\* Mutant: the entry that moves keeps its old position in its channel.
RemoveChannelStale(f) ==
  LET i == index[f] IN
  /\ pollfds' = SubSeq([pollfds EXCEPT ![i + 1] = pollfds[Len(pollfds)]], 1, Len(pollfds) - 1)
  /\ channels' = channels \ {f} /\ index' = [index EXCEPT ![f] = -1]
  /\ UNCHANGED failed

\* removeChannel(): the last entry takes the place of the removed one.  The
\* channel is destroyed after it; the next one of the descriptor has index -1.
RemoveChannel(f) ==
  LET i == index[f] IN
  IF f \notin channels THEN Fail(98)
  ELSE IF ~ (0 <= i /\ i < Len(pollfds)) THEN Fail(102)
  ELSE IF Entry(i) # [fd |-> Disabled(f), events |-> events[f]] THEN Fail(105)
  ELSE LET atEnd == Owner(pollfds[Len(pollfds)].fd)
       IN /\ pollfds' = SubSeq([pollfds EXCEPT ![i + 1] = pollfds[Len(pollfds)]], 1, Len(pollfds) - 1)
          /\ channels' = channels \ {f}
          /\ index' = [g \in Fd |-> IF g = f THEN -1 ELSE IF g = atEnd THEN i ELSE index[g]]
          /\ UNCHANGED failed

\* Channel::remove() of a registered and disabled channel.
Remove(f) ==
  /\ failed = 0 /\ index[f] >= 0 /\ events[f] = {}
  /\ RemoveChannel(f)
  /\ UNCHANGED <<events, readyEvents, active>>
-----------------------------------------------------------------------------
\* Something becomes ready on a descriptor, or is no longer.
Ready(f, e) ==
  /\ failed = 0
  /\ readyEvents' = [readyEvents EXCEPT ![f] = e]
  /\ UNCHANGED <<events, index, channels, pollfds, active, failed>>

\* The positions of the entries for which ::poll() has events; it ignores the
\* entries whose descriptor is negative.
HasRevents ==
  {i \in DOMAIN pollfds : pollfds[i].fd >= 0 /\ pollfds[i].events \cap readyEvents[pollfds[i].fd] # {}}

\* The entries fillActiveChannels() visits: it counts numEvents down at the
\* entries with events, whatever their revents.
Visited ==
  LET interested == {i \in DOMAIN pollfds : pollfds[i].events # {}}
  IN {i \in interested : Cardinality({j \in interested : j < i}) < Cardinality(HasRevents)}

\* poll() and fillActiveChannels().
Poll ==
  /\ failed = 0 /\ HasRevents # {}
  /\ IF \A i \in Visited : pollfds[i].fd \in channels
     THEN active' = {pollfds[i].fd : i \in Visited} /\ UNCHANGED failed
     ELSE failed' = 52 /\ UNCHANGED active
  /\ UNCHANGED <<events, index, channels, pollfds, readyEvents>>

Next ==
  \/ \E f \in Fd :
       \/ \E e \in Event : Enable(f, e)
       \/ DisableWriting(f) \/ DisableAll(f) \/ Remove(f)
       \/ \E e \in SUBSET Event : Ready(f, e)
  \/ Poll

Spec == Init /\ [][Next]_vars
-----------------------------------------------------------------------------
(* Properties *)

\* Every registered channel finds its own entry at its index, with its events,
\* and there are no other entries: the swaps of removeChannel() keep the array
\* and the channels in agreement, and no assert fails as long as a channel is
\* enabled first and disabled last, as those of TcpConnection, Connector and
\* TimerQueue are.
IndexesAgree ==
  /\ failed = 0
  /\ Len(pollfds) = Cardinality(channels)
  /\ \A f \in channels :
       /\ index[f] \in 0 .. Len(pollfds) - 1
       /\ Owner(Entry(index[f]).fd) = f
       /\ Entry(index[f]).events = events[f]
=============================================================================
