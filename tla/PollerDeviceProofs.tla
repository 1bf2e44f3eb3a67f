------------------------- MODULE PollerDeviceProofs -------------------------
(***************************************************************************)
(* Of two parts of the program that share no state.  Both pollers keep     *)
(* their books in agreement with the kernel and with their channels, for   *)
(* any number of channels and descriptors; and load() of DeviceManager     *)
(* inserts the units of any files with all that belongs to them.           *)
(***************************************************************************)
EXTENDS DefaultPoller, DeviceManager, FiniteSetTheorems, TLAPS

-----------------------------------------------------------------------------
(* EPollPoller *)

FdUsed == {FdOf[c] : c \in Channel}

EPollTypes ==
  /\ events \in [Channel -> SUBSET EPoll!Event]
  /\ index \in [Channel -> {"kNew", "kAdded", "kDeleted"}]
  /\ channels \in [FdUsed -> Channel \cup {None}]
  /\ kernel \in [FdUsed -> [channel : Channel, events : SUBSET EPoll!Event] \cup {None}]

\* A channel has its entry in channels_ from its first update to its removal,
\* and no other entry is there.
MapInv ==
  /\ \A c \in Channel : index[c] # "kNew" => channels[FdOf[c]] = c
  /\ \A f \in FdUsed : channels[f] = None \/ (channels[f] \in Channel /\ FdOf[channels[f]] = f
                                              /\ index[channels[f]] # "kNew")

\* The epoll set holds exactly the channels that are kAdded, with their events.
KernelInv ==
  /\ \A c \in Channel : index[c] = "kAdded" => kernel[FdOf[c]] = [channel |-> c, events |-> events[c]]
  /\ \A f \in FdUsed :
       kernel[f] = None \/ \E c \in Channel : FdOf[c] = f /\ index[c] = "kAdded"

\* Only a channel in the epoll set asks for events.
EventsInv == \A c \in Channel : events[c] # {} => index[c] = "kAdded"

EPollInv == EPollTypes /\ MapInv /\ KernelInv /\ EventsInv /\ failed = 0

\* The invariant implies KernelAgrees: the channel of an entry of the kernel is
\* kAdded, so that no other one finds itself there.
LEMMA EPollInvAgrees == EPollInv => EPoll!KernelAgrees
<1> SUFFICES ASSUME EPollInv, NEW c \in Channel, index[c] # "kAdded"
             PROVE  kernel[FdOf[c]] = None \/ kernel[FdOf[c]].channel # c
  BY Zenon DEF EPollInv, KernelInv, EPoll!KernelAgrees
<1>1. FdOf[c] \in FdUsed
  BY Zenon DEF FdUsed
<1>2. CASE kernel[FdOf[c]] # None
  <2>1. PICK d \in Channel : index[d] = "kAdded" /\ kernel[FdOf[c]] = [channel |-> d, events |-> events[d]]
    <3>1. PICK d \in Channel : FdOf[d] = FdOf[c] /\ index[d] = "kAdded"
      BY <1>1, <1>2, Zenon DEF EPollInv, KernelInv
    <3> QED
      BY <3>1 DEF EPollInv, KernelInv
  <2>2. kernel[FdOf[c]].channel = d
    BY <2>1
  <2> QED
    BY <2>1, <2>2, Zenon
<1> QED
  BY <1>2, Zenon

LEMMA EPollInit == EPoll!Init => EPollInv
BY Zenon DEF EPoll!Init, EPollInv, EPollTypes, MapInv, KernelInv, EventsInv, FdUsed

\* Where a channel goes from kNew or kDeleted to kAdded, no assert fails: an entry
\* of its descriptor that is another channel's contradicts Exclusive.
LEMMA EPollAdd ==
  ASSUME EPollInv, NEW c \in Channel, EPoll!Exclusive(c), index[c] # "kAdded",
         NEW e \in SUBSET EPoll!Event, EPoll!SetEvents(c, e)
  PROVE  EPollInv'
<1>1. FdOf[c] \in FdUsed
  BY Zenon DEF FdUsed
<1>2. index[c] = "kNew" => channels[FdOf[c]] = None
  BY <1>1, Zenon DEF EPollInv, MapInv, EPoll!Exclusive
<1>3. index[c] = "kDeleted" => channels[FdOf[c]] = c
  BY Zenon DEF EPollInv, MapInv
<1>4. index[c] \in {"kNew", "kDeleted"}
  BY Zenon DEF EPollInv, EPollTypes
<1>5. /\ events' = [events EXCEPT ![c] = e]
      /\ channels' = [channels EXCEPT ![FdOf[c]] = c]
      /\ index' = [index EXCEPT ![c] = "kAdded"]
      /\ kernel' = [kernel EXCEPT ![FdOf[c]] = [channel |-> c, events |-> e]]
      /\ failed' = failed
  BY <1>2, <1>3, <1>4, Zenon DEF EPoll!SetEvents, EPoll!UpdateChannel, EPoll!Watch
<1>6. EPollTypes'
  BY <1>1, <1>5, Zenon DEF EPollInv, EPollTypes
<1>7. MapInv'
  BY <1>1, <1>5, Zenon DEF EPollInv, EPollTypes, MapInv, EPoll!Exclusive, FdUsed
<1>8. KernelInv'
  <2>1. ASSUME NEW d \in Channel, index'[d] = "kAdded"
        PROVE  kernel'[FdOf[d]] = [channel |-> d, events |-> events'[d]]
    <3>1. CASE d = c
      BY <1>1, <1>5, <3>1, Zenon DEF EPollInv, EPollTypes
    <3>2. CASE d # c
      <4>1. index[d] = "kAdded" /\ FdOf[d] # FdOf[c] /\ FdOf[d] \in FdUsed
        BY <1>5, <2>1, <3>2 DEF EPollInv, EPollTypes, EPoll!Exclusive, FdUsed
      <4> QED
        BY <1>5, <3>2, <4>1, Zenon DEF EPollInv, EPollTypes, KernelInv
    <3> QED
      BY <3>1, <3>2, Zenon
  <2>2. ASSUME NEW f \in FdUsed, kernel'[f] # None
        PROVE  \E d \in Channel : FdOf[d] = f /\ index'[d] = "kAdded"
    <3>1. CASE f = FdOf[c]
      BY <1>5, <3>1, Zenon DEF EPollInv, EPollTypes
    <3>2. CASE f # FdOf[c]
      <4>1. PICK d \in Channel : FdOf[d] = f /\ index[d] = "kAdded"
        BY <1>5, <2>2, <3>2, Zenon DEF EPollInv, EPollTypes, KernelInv
      <4> QED
        BY <1>5, <3>2, <4>1, Zenon DEF EPollInv, EPollTypes
    <3> QED
      BY <3>1, <3>2, Zenon
  <2> QED
    BY <2>1, <2>2, Zenon DEF KernelInv
<1>9. EventsInv'
  BY <1>5, Zenon DEF EPollInv, EPollTypes, EventsInv
<1> QED
  BY <1>5, <1>6, <1>7, <1>8, <1>9, Zenon DEF EPollInv

\* A channel that is in the epoll set takes its new events there, or leaves it
\* when it asks for none.
LEMMA EPollModify ==
  ASSUME EPollInv, NEW c \in Channel, index[c] = "kAdded",
         NEW e \in SUBSET EPoll!Event, EPoll!SetEvents(c, e)
  PROVE  EPollInv'
<1>1. FdOf[c] \in FdUsed /\ channels[FdOf[c]] = c
  BY Zenon DEF EPollInv, MapInv, FdUsed
<1>2. \A d \in Channel : d # c /\ index[d] # "kNew" => FdOf[d] # FdOf[c]
  BY <1>1, Zenon DEF EPollInv, MapInv
<1>3. /\ events' = [events EXCEPT ![c] = e]
      /\ channels' = channels /\ failed' = failed
      /\ IF e = {} THEN /\ kernel' = [kernel EXCEPT ![FdOf[c]] = None]
                        /\ index' = [index EXCEPT ![c] = "kDeleted"]
                   ELSE /\ kernel' = [kernel EXCEPT ![FdOf[c]] = [channel |-> c, events |-> e]]
                        /\ index' = index
  BY <1>1, Zenon DEF EPoll!SetEvents, EPoll!UpdateChannel, EPoll!Watch, EPoll!Unwatch
<1>4. EPollTypes'
  <2>1. CASE e = {}
    BY <1>1, <1>3, <2>1, Zenon DEF EPollInv, EPollTypes
  <2>2. CASE e # {}
    BY <1>1, <1>3, <2>2 DEF EPollInv, EPollTypes
  <2> QED
    BY <2>1, <2>2, Zenon
<1>5. MapInv'
  BY <1>1, <1>3 DEF EPollInv, EPollTypes, MapInv
<1>6. KernelInv'
  <2>1. ASSUME NEW d \in Channel, index'[d] = "kAdded"
        PROVE  kernel'[FdOf[d]] = [channel |-> d, events |-> events'[d]]
    <3>1. CASE d = c
      BY <1>1, <1>3, <2>1, <3>1, Zenon DEF EPollInv, EPollTypes
    <3>2. CASE d # c
      <4>1. index[d] = "kAdded" /\ FdOf[d] # FdOf[c] /\ FdOf[d] \in FdUsed
        BY <1>2, <1>3, <2>1, <3>2, Zenon DEF EPollInv, EPollTypes, FdUsed
      <4> QED
        BY <1>3, <3>2, <4>1 DEF EPollInv, EPollTypes, KernelInv
    <3> QED
      BY <3>1, <3>2, Zenon
  <2>2. ASSUME NEW f \in FdUsed, kernel'[f] # None
        PROVE  \E d \in Channel : FdOf[d] = f /\ index'[d] = "kAdded"
    <3>1. CASE f = FdOf[c]
      BY <1>3, <2>2, <3>1, Zenon DEF EPollInv, EPollTypes
    <3>2. CASE f # FdOf[c]
      <4>1. PICK d \in Channel : FdOf[d] = f /\ index[d] = "kAdded"
        BY <1>3, <2>2, <3>2 DEF EPollInv, EPollTypes, KernelInv
      <4> QED
        BY <1>3, <3>2, <4>1, Zenon DEF EPollInv, EPollTypes
    <3> QED
      BY <3>1, <3>2, Zenon
  <2> QED
    BY <2>1, <2>2, Zenon DEF KernelInv
<1>7. EventsInv'
  BY <1>3, Zenon DEF EPollInv, EPollTypes, EventsInv
<1> QED
  BY <1>3, <1>4, <1>5, <1>6, <1>7, Zenon DEF EPollInv

\* A channel that is removed leaves channels_ and, if it is there, the epoll set.
LEMMA EPollRemove ==
  ASSUME EPollInv, NEW c \in Channel, EPoll!Remove(c)
  PROVE  EPollInv'
<1>1. FdOf[c] \in FdUsed /\ channels[FdOf[c]] = c
  BY Zenon DEF EPollInv, MapInv, EPoll!Remove, FdUsed
<1>2. \A d \in Channel : d # c /\ index[d] # "kNew" => FdOf[d] # FdOf[c]
  BY <1>1, Zenon DEF EPollInv, MapInv
<1>3. /\ channels' = [channels EXCEPT ![FdOf[c]] = None]
      /\ index' = [index EXCEPT ![c] = "kNew"]
      /\ kernel' = IF index[c] = "kAdded" THEN [kernel EXCEPT ![FdOf[c]] = None] ELSE kernel
      /\ events' = events /\ failed' = failed /\ events[c] = {}
  BY <1>1, Zenon DEF EPoll!Remove, EPoll!Unwatch
<1>4. EPollTypes'
  BY <1>1, <1>3, Zenon DEF EPollInv, EPollTypes
<1>5. MapInv'
  BY <1>1, <1>2, <1>3, Zenon DEF EPollInv, EPollTypes, MapInv, FdUsed
<1>6. KernelInv'
  <2>1. ASSUME NEW d \in Channel, index'[d] = "kAdded"
        PROVE  kernel'[FdOf[d]] = [channel |-> d, events |-> events'[d]]
    <3>1. d # c /\ index[d] = "kAdded" /\ FdOf[d] \in FdUsed
      BY <1>3, <2>1, Zenon DEF EPollInv, EPollTypes, FdUsed
    <3> QED
      BY <1>2, <1>3, <3>1, Zenon DEF EPollInv, EPollTypes, KernelInv
  <2>2. ASSUME NEW f \in FdUsed, kernel'[f] # None
        PROVE  \E d \in Channel : FdOf[d] = f /\ index'[d] = "kAdded"
    <3>1. PICK d \in Channel : FdOf[d] = f /\ index[d] = "kAdded"
      BY <1>1, <1>3, <2>2, Zenon DEF EPollInv, EPollTypes, KernelInv
    <3>2. d # c
      BY <1>1, <1>3, <2>2, <3>1, Zenon DEF EPollInv, EPollTypes
    <3> QED
      BY <1>3, <3>1, <3>2, Zenon DEF EPollInv, EPollTypes
  <2> QED
    BY <2>1, <2>2, Zenon DEF KernelInv
<1>7. EventsInv'
  BY <1>3, Zenon DEF EPollInv, EPollTypes, EventsInv
<1> QED
  BY <1>3, <1>4, <1>5, <1>6, <1>7, Zenon DEF EPollInv

\* What epoll_wait() returns are channels of channels_: the assert of
\* fillActiveChannels() holds, also when a descriptor is used again.
LEMMA EPollPoll ==
  ASSUME EPollInv, EPoll!Poll
  PROVE  EPollInv'
<1>1. ASSUME NEW f \in EPoll!Reportable
      PROVE  channels[f] = kernel[f].channel
  <2>1. f \in FdUsed /\ kernel[f] # None
    BY <1>1, Zenon DEF EPoll!Reportable, FdUsed
  <2>2. PICK d \in Channel : FdOf[d] = f /\ index[d] = "kAdded"
    BY <2>1, Zenon DEF EPollInv, KernelInv
  <2>3. channels[f] = d /\ kernel[f] = [channel |-> d, events |-> events[d]]
    BY <2>2, Zenon DEF EPollInv, KernelInv, MapInv
  <2> QED
    BY <2>3
<1>2. failed' = 0
  BY <1>1, Zenon DEF EPoll!Poll, EPoll!Returned
<1> QED
  BY <1>2 DEF EPoll!Poll, EPollInv, EPollTypes, MapInv, KernelInv, EventsInv

LEMMA EPollNext ==
  ASSUME EPollInv, EPoll!Next
  PROVE  EPollInv'
<1>1. ASSUME NEW c \in Channel, NEW e \in EPoll!Event, EPoll!Enable(c, e)
      PROVE  EPollInv'
  <2>1. events[c] \cup {e} \in SUBSET EPoll!Event
    BY <1>1, Zenon DEF EPollInv, EPollTypes
  <2>2. EPoll!Exclusive(c) /\ EPoll!SetEvents(c, events[c] \cup {e})
    BY <1>1, Zenon DEF EPoll!Enable
  <2> QED
    BY <2>1, <2>2, EPollAdd, EPollModify, Zenon
<1>2. ASSUME NEW c \in Channel, EPoll!DisableWriting(c)
      PROVE  EPollInv'
  <2>1. index[c] = "kAdded" /\ events[c] \ {"write"} \in SUBSET EPoll!Event
    BY <1>2, Zenon DEF EPoll!DisableWriting, EPollInv, EPollTypes, EventsInv
  <2> QED
    BY <1>2, <2>1, EPollModify, Zenon DEF EPoll!DisableWriting
<1>3. ASSUME NEW c \in Channel, EPoll!DisableAll(c)
      PROVE  EPollInv'
  <2>1. index[c] = "kAdded" /\ {} \in SUBSET EPoll!Event
    BY <1>3, Zenon DEF EPoll!DisableAll, EPollInv, EventsInv
  <2> QED
    BY <1>3, <2>1, EPollModify, Zenon DEF EPoll!DisableAll
<1>4. ASSUME NEW f, NEW e, EPoll!Ready(f, e)
      PROVE  EPollInv'
  BY <1>4 DEF EPoll!Ready, EPollInv, EPollTypes, MapInv, KernelInv, EventsInv
<1> QED
  BY <1>1, <1>2, <1>3, <1>4, EPollRemove, EPollPoll, Zenon DEF EPoll!Next
-----------------------------------------------------------------------------
(* PollPoller *)

PollFd == [fd : Int, events : SUBSET Poll!Event]

PollTypes ==
  /\ events \in [Fd -> SUBSET Poll!Event]
  /\ index \in [Fd -> Int]
  /\ channels \subseteq Fd /\ IsFiniteSet(channels)
  /\ pollfds \in Seq(PollFd) /\ Len(pollfds) = Cardinality(channels)

\* The entry of the channel of f: its descriptor is negated while it asks for no
\* events.
EntryOf(f, e) == [fd |-> IF e = {} THEN Poll!Disabled(f) ELSE f, events |-> e]

PositionsInv ==
  \A f \in Fd :
    IF f \in channels
    THEN /\ index[f] \in 0 .. Len(pollfds) - 1
         /\ pollfds[index[f] + 1] = EntryOf(f, events[f])
    ELSE index[f] = -1 /\ events[f] = {}

\* Every entry is the one of a registered channel.
OwnedInv == \A i \in 1 .. Len(pollfds) : \E f \in channels : index[f] = i - 1

PollInv == PollTypes /\ PositionsInv /\ OwnedInv /\ failed = 0

\* The entry of a channel gives back its descriptor, enabled or not.
LEMMA OwnerOfEntry ==
  ASSUME NEW f \in Nat, NEW e
  PROVE  /\ EntryOf(f, e) \in [fd : Int, events : {e}]
         /\ EntryOf(f, e).events = e
         /\ EntryOf(f, e).fd \in {f, Poll!Disabled(f)}
         /\ Poll!Owner(EntryOf(f, e).fd) = f
<1>1. EntryOf(f, e).events = e /\ EntryOf(f, e).fd = IF e = {} THEN -f - 1 ELSE f
  BY Zenon DEF EntryOf, Poll!Disabled
<1>2. EntryOf(f, e) \in [fd : Int, events : {e}]
  BY DEF EntryOf, Poll!Disabled
<1> QED
  BY <1>1, <1>2 DEF Poll!Owner, Poll!Disabled

\* The invariant implies IndexesAgree.
LEMMA PollInvAgrees == PollInv => Poll!IndexesAgree
<1> SUFFICES ASSUME PollInv PROVE Poll!IndexesAgree
  BY Zenon
<1>1. ASSUME NEW f \in channels
      PROVE  /\ index[f] \in 0 .. Len(pollfds) - 1
             /\ Poll!Owner(Poll!Entry(index[f]).fd) = f
             /\ Poll!Entry(index[f]).events = events[f]
  <2>1. f \in Fd /\ f \in Nat
    BY DefaultPollerAssumption, Zenon DEF PollInv, PollTypes
  <2>2. index[f] \in 0 .. Len(pollfds) - 1 /\ Poll!Entry(index[f]) = EntryOf(f, events[f])
    BY <2>1, Zenon DEF PollInv, PositionsInv, Poll!Entry
  <2> QED
    BY <2>1, <2>2, OwnerOfEntry, Zenon
<1>2. failed = 0 /\ Len(pollfds) = Cardinality(channels)
  BY Zenon DEF PollInv, PollTypes
<1>3. Poll!Cardinality(channels) = Cardinality(channels)
  BY Zenon DEF Poll!Cardinality, Cardinality
<1> QED
  BY <1>1, <1>2, <1>3, Zenon DEF Poll!IndexesAgree

\* Two registered channels have different positions: the entry there gives back
\* one descriptor only.
LEMMA PositionsDiffer ==
  ASSUME PollInv, NEW f \in channels, NEW g \in channels, f # g
  PROVE  index[f] # index[g]
<1> SUFFICES ASSUME index[f] = index[g] PROVE FALSE
  BY Zenon
<1>1. f \in Fd /\ g \in Fd /\ f \in Nat /\ g \in Nat
  BY DefaultPollerAssumption, Zenon DEF PollInv, PollTypes
<1>2. EntryOf(f, events[f]) = EntryOf(g, events[g])
  BY <1>1, Zenon DEF PollInv, PositionsInv
<1>3. Poll!Owner(EntryOf(f, events[f]).fd) = f /\ Poll!Owner(EntryOf(g, events[g]).fd) = g
  BY <1>1, OwnerOfEntry, Zenon
<1> QED
  BY <1>2, <1>3, Zenon

LEMMA PollInit == Poll!Init => PollInv
<1> SUFFICES ASSUME Poll!Init PROVE PollInv
  BY Zenon
<1>1. IsFiniteSet(channels) /\ Cardinality(channels) = 0
  BY FS_EmptySet, Zenon DEF Poll!Init
<1>2. pollfds \in Seq(PollFd) /\ Len(pollfds) = 0
  BY DEF Poll!Init
<1> QED
  BY <1>1, <1>2 DEF Poll!Init, PollInv, PollTypes, PositionsInv, OwnedInv

\* The entry of a new channel is put at the end.
LEMMA PollAdd ==
  ASSUME PollInv, NEW f \in Fd, index[f] < 0,
         NEW e \in SUBSET Poll!Event, e # {}, Poll!SetEvents(f, e)
  PROVE  PollInv'
<1>1. f \notin channels /\ f \in Nat
  BY DefaultPollerAssumption DEF PollInv, PollTypes, PositionsInv
<1>2. /\ events' = [events EXCEPT ![f] = e]
      /\ pollfds' = Append(pollfds, [fd |-> f, events |-> e])
      /\ index' = [index EXCEPT ![f] = Len(pollfds)]
      /\ channels' = channels \cup {f}
      /\ failed' = failed
  BY <1>1, Zenon DEF Poll!SetEvents, Poll!UpdateChannel
<1>3. Len(pollfds) \in Nat /\ [fd |-> f, events |-> e] \in PollFd
  BY <1>1 DEF PollInv, PollTypes, PollFd
<1>4. /\ pollfds' \in Seq(PollFd) /\ Len(pollfds') = Len(pollfds) + 1
      /\ pollfds'[Len(pollfds) + 1] = [fd |-> f, events |-> e]
      /\ \A i \in 1 .. Len(pollfds) : pollfds'[i] = pollfds[i]
  BY <1>2, <1>3 DEF PollInv, PollTypes
<1>5. PollTypes'
  <2>1. IsFiniteSet(channels') /\ Cardinality(channels') = Cardinality(channels) + 1
    BY <1>1, <1>2, FS_AddElement, Zenon DEF PollInv, PollTypes
  <2>2. index' \in [Fd -> Int] /\ events' \in [Fd -> SUBSET Poll!Event] /\ channels' \subseteq Fd
    BY <1>2, <1>3 DEF PollInv, PollTypes
  <2> QED
    BY <1>4, <2>1, <2>2, Zenon DEF PollInv, PollTypes
<1>6. PositionsInv'
  <2> SUFFICES ASSUME NEW g \in Fd
               PROVE  IF g \in channels'
                      THEN /\ index'[g] \in 0 .. Len(pollfds') - 1
                           /\ pollfds'[index'[g] + 1] = EntryOf(g, events'[g])
                      ELSE index'[g] = -1 /\ events'[g] = {}
    BY Zenon DEF PositionsInv
  <2>1. CASE g = f
    <3>1. index'[g] = Len(pollfds) /\ events'[g] = e /\ g \in channels'
      BY <1>2, <2>1, Zenon DEF PollInv, PollTypes
    <3> QED
      BY <1>3, <1>4, <2>1, <3>1 DEF EntryOf
  <2>2. CASE g # f
    <3>1. index'[g] = index[g] /\ events'[g] = events[g] /\ (g \in channels' <=> g \in channels)
      BY <1>2, <2>2, Zenon DEF PollInv, PollTypes
    <3>2. CASE g \in channels
      <4>1. index[g] \in 0 .. Len(pollfds) - 1 /\ pollfds[index[g] + 1] = EntryOf(g, events[g])
        BY <3>2, Zenon DEF PollInv, PositionsInv
      <4>2. index[g] + 1 \in 1 .. Len(pollfds) /\ index[g] \in 0 .. Len(pollfds') - 1
        BY <1>3, <1>4, <4>1
      <4> QED
        BY <1>4, <3>1, <3>2, <4>1, <4>2, Zenon
    <3>3. CASE g \notin channels
      BY <3>1, <3>3, Zenon DEF PollInv, PositionsInv
    <3> QED
      BY <3>2, <3>3, Zenon
  <2> QED
    BY <2>1, <2>2, Zenon
<1>7. OwnedInv'
  <2> SUFFICES ASSUME NEW i \in 1 .. Len(pollfds') PROVE \E g \in channels' : index'[g] = i - 1
    BY Zenon DEF OwnedInv
  <2>1. CASE i = Len(pollfds) + 1
    BY <1>2, <1>3, <2>1 DEF PollInv, PollTypes
  <2>2. CASE i # Len(pollfds) + 1
    <3>0. i \in 1 .. Len(pollfds)
      BY <1>3, <1>4, <2>2
    <3>1. PICK g \in channels : index[g] = i - 1
      BY <3>0, Zenon DEF PollInv, OwnedInv
    <3>2. g # f /\ g \in Fd
      BY <1>1, Zenon DEF PollInv, PollTypes
    <3> QED
      BY <1>2, <3>1, <3>2, Zenon DEF PollInv, PollTypes
  <2> QED
    BY <2>1, <2>2, Zenon
<1> QED
  BY <1>2, <1>5, <1>6, <1>7, Zenon DEF PollInv

\* The entry of a registered channel that asks for events takes the new ones, in
\* its place.
LEMMA PollModify ==
  ASSUME PollInv, NEW f \in Fd, events[f] # {},
         NEW e \in SUBSET Poll!Event, Poll!SetEvents(f, e)
  PROVE  PollInv'
<1>1. f \in channels /\ f \in Nat /\ Len(pollfds) \in Nat
  BY DefaultPollerAssumption DEF PollInv, PollTypes, PositionsInv
<1>2. index[f] \in 0 .. Len(pollfds) - 1 /\ pollfds[index[f] + 1] = [fd |-> f, events |-> events[f]]
  BY <1>1, Zenon DEF PollInv, PositionsInv, EntryOf
<1>3. Poll!Entry(index[f]).fd = f
  BY <1>2 DEF Poll!Entry
<1>4. /\ events' = [events EXCEPT ![f] = e]
      /\ index' = index /\ channels' = channels /\ failed' = failed
      /\ pollfds' = [pollfds EXCEPT ![index[f] + 1] = EntryOf(f, e)]
  <2>1. ~ (index[f] < 0) /\ ~ (index[f] >= Len(pollfds))
    BY <1>1, <1>2
  <2>2. /\ events' = [events EXCEPT ![f] = e]
        /\ index' = index /\ channels' = channels /\ failed' = failed
        /\ pollfds' = [pollfds EXCEPT ![index[f] + 1] =
                         [fd |-> IF e = {} THEN Poll!Disabled(f) ELSE pollfds[index[f] + 1].fd, events |-> e]]
    BY <1>1, <1>3, <2>1, Zenon DEF Poll!SetEvents, Poll!UpdateChannel
  <2> QED
    BY <1>2, <2>2 DEF EntryOf
<1>5. EntryOf(f, e) \in PollFd
  BY <1>1 DEF EntryOf, PollFd, Poll!Disabled
<1>6. /\ pollfds' \in Seq(PollFd) /\ Len(pollfds') = Len(pollfds)
      /\ pollfds'[index[f] + 1] = EntryOf(f, e)
      /\ \A i \in 1 .. Len(pollfds) : i # index[f] + 1 => pollfds'[i] = pollfds[i]
  BY <1>1, <1>2, <1>4, <1>5 DEF PollInv, PollTypes
<1>7. PollTypes'
  BY <1>4, <1>6, Zenon DEF PollInv, PollTypes
<1>8. PositionsInv'
  <2> SUFFICES ASSUME NEW g \in Fd
               PROVE  IF g \in channels'
                      THEN /\ index'[g] \in 0 .. Len(pollfds') - 1
                           /\ pollfds'[index'[g] + 1] = EntryOf(g, events'[g])
                      ELSE index'[g] = -1 /\ events'[g] = {}
    BY Zenon DEF PositionsInv
  <2>1. CASE g = f
    <3>1. events'[g] = e
      BY <1>4, <2>1, Zenon DEF PollInv, PollTypes
    <3> QED
      BY <1>1, <1>2, <1>4, <1>6, <2>1, <3>1, Zenon
  <2>2. CASE g # f
    <3>1. events'[g] = events[g] /\ index'[g] = index[g]
      BY <1>4, <2>2, Zenon DEF PollInv, PollTypes
    <3>2. CASE g \in channels
      <4>1. index[g] \in 0 .. Len(pollfds) - 1 /\ pollfds[index[g] + 1] = EntryOf(g, events[g])
        BY <3>2, Zenon DEF PollInv, PositionsInv
      <4>2. index[g] # index[f]
        BY <1>1, <2>2, <3>2, PositionsDiffer, Zenon
      <4>3. index[g] + 1 \in 1 .. Len(pollfds) /\ index[g] + 1 # index[f] + 1
        BY <1>1, <1>2, <4>1, <4>2
      <4> QED
        BY <1>4, <1>6, <3>1, <3>2, <4>1, <4>3, Zenon
    <3>3. CASE g \notin channels
      BY <1>4, <3>1, <3>3, Zenon DEF PollInv, PositionsInv
    <3> QED
      BY <3>2, <3>3, Zenon
  <2> QED
    BY <2>1, <2>2, Zenon
<1>9. OwnedInv'
  BY <1>4, <1>6, Zenon DEF PollInv, OwnedInv
<1> QED
  BY <1>4, <1>7, <1>8, <1>9, Zenon DEF PollInv

\* The entry at the end takes the place of the removed one, and its channel the
\* position: every other channel keeps its own.
LEMMA PollRemove ==
  ASSUME PollInv, NEW f \in Fd, Poll!Remove(f)
  PROVE  PollInv'
<1> DEFINE n == Len(pollfds)
           i == index[f]
<1>1. f \in Nat /\ n \in Nat /\ f \in channels /\ events[f] = {}
  BY DefaultPollerAssumption DEF PollInv, PollTypes, PositionsInv, Poll!Remove
<1>2. i \in 0 .. n - 1 /\ pollfds[i + 1] = EntryOf(f, {})
  BY <1>1, Zenon DEF PollInv, PositionsInv
<1>3. PICK h \in channels : index[h] = n - 1
  <2>1. n \in 1 .. n
    BY <1>1, <1>2
  <2> QED
    BY <2>1, Zenon DEF PollInv, OwnedInv
<1>4. h \in Fd /\ h \in Nat /\ pollfds[n] = EntryOf(h, events[h])
  <2>1. h \in Fd /\ h \in Nat
    BY DefaultPollerAssumption, Zenon DEF PollInv, PollTypes
  <2>2. pollfds[index[h] + 1] = EntryOf(h, events[h])
    BY <2>1, Zenon DEF PollInv, PositionsInv
  <2> QED
    BY <1>1, <1>3, <2>1, <2>2
<1>5. Poll!Owner(pollfds[n].fd) = h
  BY <1>4, OwnerOfEntry, Zenon
<1>6. /\ pollfds' = SubSeq([pollfds EXCEPT ![i + 1] = pollfds[n]], 1, n - 1)
      /\ channels' = channels \ {f}
      /\ index' = [g \in Fd |-> IF g = f THEN -1 ELSE IF g = h THEN i ELSE index[g]]
      /\ events' = events /\ failed' = failed
  <2>1. Poll!Entry(i) = [fd |-> Poll!Disabled(f), events |-> events[f]]
    BY <1>1, <1>2, Zenon DEF Poll!Entry, EntryOf
  <2>2. 0 <= i /\ i < n
    BY <1>1, <1>2
  <2> QED
    BY <1>1, <1>5, <2>1, <2>2, Zenon DEF Poll!Remove, Poll!RemoveChannel
<1>7. /\ pollfds' \in Seq(PollFd) /\ Len(pollfds') = n - 1
      /\ \A j \in 1 .. n - 1 : pollfds'[j] = IF j = i + 1 THEN pollfds[n] ELSE pollfds[j]
  <2> DEFINE moved == [pollfds EXCEPT ![i + 1] = pollfds[n]]
  <2>1. n \in 1 .. n /\ i + 1 \in 1 .. n
    BY <1>1, <1>2
  <2>2. pollfds[n] \in PollFd
    BY <2>1 DEF PollInv, PollTypes
  <2>3. /\ moved \in Seq(PollFd) /\ Len(moved) = n
        /\ \A j \in 1 .. n : moved[j] = IF j = i + 1 THEN pollfds[n] ELSE pollfds[j]
    BY <2>1, <2>2 DEF PollInv, PollTypes
  <2> HIDE DEF moved
  <2>4. SubSeq(moved, 1, n - 1) \in Seq(PollFd) /\ Len(SubSeq(moved, 1, n - 1)) = n - 1
    BY <1>1, <2>1, <2>3
  <2>5. \A j \in 1 .. n - 1 : SubSeq(moved, 1, n - 1)[j] = moved[j]
    BY <1>1, <2>1, <2>3
  <2>6. \A j \in 1 .. n - 1 : j \in 1 .. n
    BY <1>1
  <2> QED
    BY <1>6, <2>3, <2>4, <2>5, <2>6, Zenon DEF moved
<1>8. ASSUME NEW g \in channels, g # f
      PROVE  index[g] # i /\ (g # h => index[g] # n - 1)
  BY <1>1, <1>3, <1>8, PositionsDiffer, Zenon
<1>9. PollTypes'
  <2>1. IsFiniteSet(channels') /\ Cardinality(channels') = Cardinality(channels) - 1
    BY <1>1, <1>6, FS_RemoveElement, Zenon DEF PollInv, PollTypes
  <2>2. index' \in [Fd -> Int]
    BY <1>2, <1>6 DEF PollInv, PollTypes
  <2> QED
    BY <1>6, <1>7, <2>1, <2>2, Zenon DEF PollInv, PollTypes
<1>10. PositionsInv'
  <2> SUFFICES ASSUME NEW g \in Fd
               PROVE  IF g \in channels'
                      THEN /\ index'[g] \in 0 .. Len(pollfds') - 1
                           /\ pollfds'[index'[g] + 1] = EntryOf(g, events'[g])
                      ELSE index'[g] = -1 /\ events'[g] = {}
    BY Zenon DEF PositionsInv
  <2>1. CASE g \notin channels
    BY <1>3, <1>6, <2>1, Zenon DEF PollInv, PositionsInv
  <2>2. CASE g = f
    BY <1>1, <1>6, <2>2, Zenon
  <2>3. CASE g \in channels /\ g # f /\ g = h
    <3>1. index'[g] = i /\ g \in channels' /\ i # n - 1
      BY <1>3, <1>6, <1>8, <2>3, Zenon
    <3>2. i + 1 \in 1 .. n - 1 /\ i \in 0 .. (n - 1) - 1
      BY <1>1, <1>2, <3>1
    <3> QED
      BY <1>4, <1>6, <1>7, <2>3, <3>1, <3>2, Zenon
  <2>4. CASE g \in channels /\ g # f /\ g # h
    <3>1. index'[g] = index[g] /\ g \in channels' /\ index[g] # i /\ index[g] # n - 1
      BY <1>6, <1>8, <2>4, Zenon
    <3>2. index[g] \in 0 .. n - 1 /\ pollfds[index[g] + 1] = EntryOf(g, events[g])
      BY <2>4, Zenon DEF PollInv, PositionsInv
    <3>3. /\ index[g] + 1 \in 1 .. n - 1 /\ index[g] \in 0 .. (n - 1) - 1
          /\ index[g] + 1 # i + 1
      BY <1>1, <1>2, <3>1, <3>2
    <3> QED
      BY <1>6, <1>7, <3>1, <3>2, <3>3, Zenon
  <2> QED
    BY <2>1, <2>2, <2>3, <2>4, Zenon
<1>11. OwnedInv'
  <2> SUFFICES ASSUME NEW j \in 1 .. n - 1 PROVE \E g \in channels' : index'[g] = j - 1
    BY <1>7, Zenon DEF OwnedInv
  <2>1. CASE j = i + 1
    <3>1. h # f
      BY <1>1, <1>2, <1>3, <2>1
    <3>2. index'[h] = i /\ h \in channels'
      BY <1>4, <1>6, <3>1, Zenon
    <3> QED
      BY <1>1, <1>2, <2>1, <3>2
  <2>2. CASE j # i + 1
    <3>1. j \in 1 .. n
      BY <1>1
    <3>2. PICK g \in channels : index[g] = j - 1
      BY <3>1, Zenon DEF PollInv, OwnedInv
    <3>3. g # f /\ g # h
      BY <1>1, <1>2, <1>3, <2>2, <3>2
    <3>4. g \in Fd
      BY Zenon DEF PollInv, PollTypes
    <3> QED
      BY <1>6, <3>2, <3>3, <3>4, Zenon
  <2> QED
    BY <2>1, <2>2, Zenon
<1> QED
  BY <1>6, <1>9, <1>10, <1>11, Zenon DEF PollInv

\* fillActiveChannels() finds the channel of every entry it visits.
LEMMA PollPoll ==
  ASSUME PollInv, Poll!Poll
  PROVE  PollInv'
<1>1. ASSUME NEW i \in Poll!Visited
      PROVE  pollfds[i].fd \in channels
  <2>1. i \in 1 .. Len(pollfds) /\ pollfds[i].events # {}
    BY DEF Poll!Visited, PollInv, PollTypes
  <2>2. PICK g \in channels : index[g] = i - 1
    BY <2>1, Zenon DEF PollInv, OwnedInv
  <2>3. pollfds[index[g] + 1] = EntryOf(g, events[g])
    BY Zenon DEF PollInv, PollTypes, PositionsInv
  <2>4. pollfds[i] = EntryOf(g, events[g])
    BY <2>1, <2>2, <2>3
  <2> QED
    BY <2>1, <2>4 DEF EntryOf
<1>2. failed' = failed
  BY <1>1, Zenon DEF Poll!Poll
<1> QED
  BY <1>2, Zenon DEF Poll!Poll, PollInv, PollTypes, PositionsInv, OwnedInv

LEMMA PollNext ==
  ASSUME Uses = {}, PollInv, Poll!Next
  PROVE  PollInv'
<1>1. ASSUME NEW f \in Fd, NEW e \in Poll!Event, Poll!Enable(f, e)
      PROVE  PollInv'
  <2>1. events[f] \cup {e} \in SUBSET Poll!Event /\ events[f] \cup {e} # {}
    BY <1>1, Zenon DEF PollInv, PollTypes
  <2>2. Poll!SetEvents(f, events[f] \cup {e}) /\ (index[f] < 0 \/ events[f] # {})
    BY <1>1, Zenon DEF Poll!Enable
  <2> QED
    BY <2>1, <2>2, PollAdd, PollModify, Zenon
<1>2. ASSUME NEW f \in Fd, Poll!DisableWriting(f)
      PROVE  PollInv'
  <2>1. events[f] # {} /\ events[f] \ {"write"} \in SUBSET Poll!Event
    BY <1>2, Zenon DEF Poll!DisableWriting, PollInv, PollTypes
  <2> QED
    BY <1>2, <2>1, PollModify, Zenon DEF Poll!DisableWriting
<1>3. ASSUME NEW f \in Fd, Poll!DisableAll(f)
      PROVE  PollInv'
  <2>1. events[f] # {} /\ {} \in SUBSET Poll!Event
    BY <1>3, Zenon DEF Poll!DisableAll
  <2> QED
    BY <1>3, <2>1, PollModify, Zenon DEF Poll!DisableAll
<1>4. ASSUME NEW f, NEW e, Poll!Ready(f, e)
      PROVE  PollInv'
  BY <1>4, Zenon DEF Poll!Ready, PollInv, PollTypes, PositionsInv, OwnedInv
<1> QED
  BY <1>1, <1>2, <1>3, <1>4, PollRemove, PollPoll, Zenon DEF Poll!Next
-----------------------------------------------------------------------------
(* newDefaultPoller() *)

PollersInv == usePoll \in BOOLEAN /\ IF usePoll THEN PollInv ELSE EPollInv

\* Whichever poller newDefaultPoller() chooses, and for any channels and
\* descriptors, its books agree and none of its asserts fails, if no disabled
\* channel of a PollPoller is enabled again and none is disabled first.
THEOREM PollersCorrect == ASSUME Uses = {} PROVE PollerSpec => []PollersAgree
<1>1. PollerInit => PollersInv
  BY EPollInit, PollInit, Zenon DEF PollerInit, NewDefaultPoller, PollersInv
<1>2. PollersInv /\ [PollerNext]_<<usePoll, EPoll!vars, Poll!vars>> => PollersInv'
  <2> SUFFICES ASSUME PollersInv, [PollerNext]_<<usePoll, EPoll!vars, Poll!vars>>
               PROVE  PollersInv'
    BY Zenon
  <2>1. CASE usePoll /\ Poll!Next /\ UNCHANGED <<usePoll, epollOnly>>
    BY <2>1, PollNext, Zenon DEF PollersInv
  <2>2. CASE ~usePoll /\ EPoll!Next /\ UNCHANGED <<usePoll, pollfds>>
    BY <2>2, EPollNext, Zenon DEF PollersInv
  <2>3. CASE UNCHANGED <<usePoll, EPoll!vars, Poll!vars>>
    <3>1. CASE usePoll
      <4>1. PollInv /\ UNCHANGED <<usePoll, events, index, channels, pollfds, failed>>
        BY <2>3, <3>1, Zenon DEF PollersInv, Poll!vars
      <4>2. PollInv'
        BY <4>1, Zenon DEF PollInv, PollTypes, PositionsInv, OwnedInv
      <4> QED
        BY <3>1, <4>1, <4>2, Zenon DEF PollersInv
    <3>2. CASE ~usePoll
      <4>1. EPollInv /\ UNCHANGED <<usePoll, EPoll!vars>>
        BY <2>3, <3>2, Zenon DEF PollersInv
      <4>2. EPollInv'
        BY <4>1 DEF EPoll!vars, EPollInv, EPollTypes, MapInv, KernelInv, EventsInv
      <4> QED
        BY <3>2, <4>1, <4>2, Zenon DEF PollersInv
    <3> QED
      BY <3>1, <3>2, Zenon
  <2> QED
    BY <2>1, <2>2, <2>3, Zenon DEF PollerNext
<1>3. PollersInv => PollersAgree
  BY EPollInvAgrees, PollInvAgrees, Zenon DEF PollersInv, PollersAgree
<1> QED
  BY <1>1, <1>2, <1>3, PTL DEF PollerSpec
-----------------------------------------------------------------------------
(* DeviceManager::load() *)

\* insertParam() takes every parameter of the files: each one has a name.
ParamsNamed ==
  \A f \in File : \A u \in Elems(f.units) : \A p \in Elems(u.points) : "" \notin Elems(p.params)

UnitElement == UNION {Elems(f.units) : f \in File}
PointElement == UNION {Elems(u.points) : u \in UnitElement}
Param == UNION {Elems(p.params) : p \in PointElement}

In(x, s) == \E i \in 1 .. Len(s) : s[i] = x

UnitKey(u) == <<u.port, Key(u)>>
PointKey(u, p) == <<u.port, Key(u), p.deviceid>>
ParamKey(u, p, n) == <<u.port, Key(u), p.deviceid, n>>

Own(f, u) == f.rs485 # "" /\ u.port = f.rs485 /\ "" \notin {u.name, u.protocolname, u.mac}

\* Inserted, or still to come in the loops that load() is in.
ParamKept(u, p, n) == Has(paramList, ParamKey(u, p, n)) \/ (unit = u /\ point = p /\ In(n, params))
PointKept(u, p) ==
  \/ unit = u /\ In(p, points)
  \/ p.deviceid # 0 => /\ Has(measurePoints, PointKey(u, p))
                       /\ \A n \in Elems(p.params) : ParamKept(u, p, n)
UnitKept(u) == Has(monitorUnits, UnitKey(u)) /\ \A p \in Elems(u.points) : PointKept(u, p)
FileKept(f) ==
  f.rs485 # "" => /\ Has(serialPorts, <<f.rs485>>)
                  /\ \A u \in Elems(f.units) : Own(f, u) => In(u, units) \/ UnitKept(u)

CursorTypes ==
  /\ files \in Seq(File) /\ units \in Seq(UnitElement)
  /\ points \in Seq(PointElement) /\ params \in Seq(Param)

NothingLeft == serialPorts = {} /\ files = <<>> /\ units = <<>> /\ points = <<>> /\ params = <<>>

LoadInv ==
  /\ CursorTypes
  /\ ~created => NothingLeft
  /\ NothingLeft \/ \A f \in File : In(f, files) \/ FileKept(f)
-----------------------------------------------------------------------------
\* What the assumption says of the elements.
LEMMA ElementTypes ==
  /\ \A f \in File : f.units \in Seq(UnitElement)
  /\ \A u \in UnitElement : u.points \in Seq(PointElement)
  /\ \A p \in PointElement : p.params \in Seq(Param)
<1>1. ASSUME NEW S, NEW T, S \subseteq T, NEW s \in Seq(S) PROVE s \in Seq(T)
  <2>1. Len(s) \in Nat /\ s \in [1 .. Len(s) -> S]
    OBVIOUS
  <2>2. s \in [1 .. Len(s) -> T]
    BY <1>1, <2>1
  <2> QED
    BY <2>1, <2>2
<1>2. ASSUME NEW f \in File PROVE f.units \in Seq(UnitElement)
  <2>1. Elems(f.units) \subseteq UnitElement
    BY Zenon DEF UnitElement
  <2> QED
    BY <1>1, <2>1, DeviceManagerAssumption, Zenon
<1>3. ASSUME NEW u \in UnitElement PROVE u.points \in Seq(PointElement)
  <2>1. Elems(u.points) \subseteq PointElement
    BY Zenon DEF PointElement
  <2>2. u.points \in Seq(Elems(u.points))
    BY DeviceManagerAssumption, Zenon DEF UnitElement
  <2> QED
    BY <1>1, <2>1, <2>2, Zenon
<1>4. ASSUME NEW p \in PointElement PROVE p.params \in Seq(Param)
  <2>1. Elems(p.params) \subseteq Param
    BY Zenon DEF Param
  <2>2. p.params \in Seq(Elems(p.params))
    BY DeviceManagerAssumption, Zenon DEF UnitElement, PointElement
  <2> QED
    BY <1>1, <2>1, <2>2, Zenon
<1> QED
  BY <1>2, <1>3, <1>4, Zenon

\* The elements of a sequence are those that a cursor has to visit.
LEMMA InSet ==
  ASSUME NEW S, NEW s \in Seq(S), NEW x
  PROVE  In(x, s) <=> x \in Elems(s)
BY Zenon DEF In, Elems

\* The cursor moves on.
LEMMA InTail ==
  ASSUME NEW S, NEW s \in Seq(S), s # <<>>
  PROVE  /\ Tail(s) \in Seq(S) /\ Head(s) \in S
         /\ \A x : In(x, s) => x = Head(s) \/ In(x, Tail(s))
<1>1. /\ Tail(s) \in Seq(S) /\ Len(s) \in Nat /\ Len(Tail(s)) = Len(s) - 1
      /\ \A i \in 1 .. Len(s) - 1 : Tail(s)[i] = s[i + 1]
      /\ Head(s) = s[1] /\ Head(s) \in S
  OBVIOUS
<1>2. \A i \in 1 .. Len(s) : i = 1 \/ (i - 1 \in 1 .. Len(s) - 1 /\ (i - 1) + 1 = i)
  BY <1>1
<1>3. ASSUME NEW x, In(x, s) PROVE x = Head(s) \/ In(x, Tail(s))
  <2>1. PICK i \in 1 .. Len(s) : s[i] = x
    BY <1>3, Zenon DEF In
  <2>2. CASE i = 1
    BY <1>1, <2>1, <2>2, Zenon
  <2>3. CASE i - 1 \in 1 .. Len(s) - 1 /\ (i - 1) + 1 = i
    BY <1>1, <2>1, <2>3, Zenon DEF In
  <2> QED
    BY <1>2, <2>2, <2>3, Zenon
<1> QED
  BY <1>1, <1>3, Zenon

LEMMA InEmpty == \A x : ~In(x, <<>>)
BY DEF In

\* Add() keeps what the map has, and has the key afterwards.
LEMMA AddHas ==
  ASSUME NEW list, NEW key, NEW value
  PROVE  Has(Add(list, key, value), key) /\ \A k : Has(list, k) => Has(Add(list, key, value), k)
<1>1. [key |-> key, value |-> value].key = key
  OBVIOUS
<1> QED
  BY <1>1, Zenon DEF Has, Add

\* readdir() returns each file.
LEMMA AllFiles ==
  ASSUME NEW s \in ReadDir
  PROVE  s \in Seq(File) /\ \A f \in File : In(f, s)
<1> DEFINE n == Cardinality(File)
<1>1. n \in Nat
  BY DeviceManagerAssumption, FS_CardinalityType, Zenon
<1>2. s \in [1 .. n -> File] /\ \A f \in File : \E i \in DOMAIN s : s[i] = f
  BY Zenon DEF ReadDir
<1> HIDE DEF n
<1>3. s \in Seq(File) /\ DOMAIN s = 1 .. Len(s)
  BY <1>1, <1>2
<1> QED
  BY <1>2, <1>3, Zenon DEF In
-----------------------------------------------------------------------------
\* The maps only grow.
Grow ==
  /\ \A k : Has(serialPorts, k) => Has(serialPorts', k)
  /\ \A k : Has(monitorUnits, k) => Has(monitorUnits', k)
  /\ \A k : Has(measurePoints, k) => Has(measurePoints', k)
  /\ \A k : Has(paramList, k) => Has(paramList', k)

LEMMA LoadsGrow == ASSUME LoadFile \/ LoadUnit \/ LoadPoint \/ LoadParam PROVE Grow
<1>1. CASE LoadFile
  <2>1. serialPorts' = serialPorts \/ serialPorts' = Add(serialPorts, <<file'.rs485>>, file')
    BY <1>1, Zenon DEF LoadFile
  <2>2. \A k : Has(serialPorts, k) => Has(serialPorts', k)
    BY <2>1, AddHas
  <2>3. UNCHANGED <<monitorUnits, measurePoints, paramList>>
    BY <1>1, Zenon DEF LoadFile
  <2> QED
    BY <2>2, <2>3, Zenon DEF Grow
<1>2. CASE LoadUnit
  <2>1. monitorUnits' = monitorUnits \/ monitorUnits' = Add(monitorUnits, UnitKey(unit'), unit')
    BY <1>2, Zenon DEF LoadUnit, InsertMonitorUnit, UnitKey
  <2>2. \A k : Has(monitorUnits, k) => Has(monitorUnits', k)
    BY <2>1, AddHas
  <2>3. UNCHANGED <<serialPorts, measurePoints, paramList>>
    BY <1>2, Zenon DEF LoadUnit
  <2> QED
    BY <2>2, <2>3, Zenon DEF Grow
<1>3. CASE LoadPoint
  <2>1. measurePoints' = measurePoints \/ measurePoints' = Add(measurePoints, PointKey(unit, point'), point')
    BY <1>3, Zenon DEF LoadPoint, PointKey
  <2>2. \A k : Has(measurePoints, k) => Has(measurePoints', k)
    BY <2>1, AddHas
  <2>3. UNCHANGED <<serialPorts, monitorUnits, paramList>>
    BY <1>3, Zenon DEF LoadPoint
  <2> QED
    BY <2>2, <2>3, Zenon DEF Grow
<1>4. CASE LoadParam
  <2>1. paramList' = paramList \/ paramList' = Add(paramList, ParamKey(unit, point, Head(params)), GetFullParams(point, Head(params)))
    BY <1>4, Zenon DEF LoadParam, ParamKey
  <2>2. \A k : Has(paramList, k) => Has(paramList', k)
    BY <2>1, AddHas
  <2>3. UNCHANGED <<serialPorts, monitorUnits, measurePoints>>
    BY <1>4, Zenon DEF LoadParam
  <2> QED
    BY <2>2, <2>3, Zenon DEF Grow
<1> QED
  BY <1>1, <1>2, <1>3, <1>4, Zenon

LEMMA LoadInit == Init => LoadInv
BY DEF Init, LoadInv, CursorTypes, NothingLeft

LEMMA LoadKeeps == ASSUME LoadInv, Load PROVE LoadInv'
<1>1. NothingLeft
  BY Zenon DEF Load, LoadInv
<1>2. CursorTypes'
  <2>1. <<>> \in Seq(File)
    OBVIOUS
  <2> QED
    BY <2>1, AllFiles, Zenon DEF Load, LoadInv, CursorTypes
<1>3. CASE files' = <<>>
  BY <1>1, <1>2, <1>3, Zenon DEF Load, LoadInv, NothingLeft, lists
<1>4. CASE files' \in ReadDir
  BY <1>2, <1>4, AllFiles, Zenon DEF Load, LoadInv
<1> QED
  BY <1>3, <1>4, Zenon DEF Load

\* The next file is told its port, and all its units are to come.
LEMMA LoadFileKeeps == ASSUME LoadInv, LoadFile PROVE LoadInv'
<1>1. /\ CursorTypes /\ created /\ created' = created /\ Grow
      /\ \A f \in File : In(f, files) \/ FileKept(f)
  BY LoadsGrow, Zenon DEF LoadFile, LoadInv, NothingLeft
<1>2. /\ file' \in File /\ files' \in Seq(File)
      /\ \A f : In(f, files) => f = file' \/ In(f, files')
  BY <1>1, InTail, Zenon DEF LoadFile, CursorTypes
<1>3. CursorTypes'
  BY <1>1, <1>2, ElementTypes, Zenon DEF LoadFile, CursorTypes
<1>4. /\ units = <<>> /\ points = <<>> /\ params = <<>>
      /\ UNCHANGED <<unit, point, points, params, monitorUnits, measurePoints, paramList>>
  BY Zenon DEF LoadFile
<1>5. ASSUME NEW f \in File, f = file' PROVE FileKept(f)'
  <2>1. CASE f.rs485 = ""
    BY <2>1, Zenon DEF FileKept
  <2>2. CASE f.rs485 # ""
    <3>1. Has(serialPorts', <<f.rs485>>) /\ units' = f.units
      <4>1. serialPorts' = Add(serialPorts, <<f.rs485>>, f) /\ units' = f.units
        BY <1>5, <2>2, Zenon DEF LoadFile
      <4> QED
        BY <4>1, AddHas, Zenon
    <3>2. \A u \in Elems(f.units) : In(u, units')
      BY <3>1, Zenon DEF In, Elems
    <3> QED
      BY <3>1, <3>2, Zenon DEF FileKept
  <2> QED
    BY <2>1, <2>2, Zenon
<1>6. ASSUME NEW f \in File, FileKept(f) PROVE FileKept(f)'
  BY <1>1, <1>4, <1>6, InEmpty, Zenon DEF FileKept, UnitKept, PointKept, ParamKept, Grow
<1> QED
  BY <1>1, <1>2, <1>3, <1>5, <1>6, Zenon DEF LoadInv

\* The next unit: inserted if its port is known, and then all its points are to come.
LEMMA LoadUnitKeeps == ASSUME LoadInv, LoadUnit PROVE LoadInv'
<1>1. /\ CursorTypes /\ created /\ created' = created /\ Grow
      /\ \A f \in File : In(f, files) \/ FileKept(f)
  BY LoadsGrow, Zenon DEF LoadUnit, LoadInv, NothingLeft
<1>2. /\ unit' \in UnitElement /\ units' \in Seq(UnitElement)
      /\ \A u : In(u, units) => u = unit' \/ In(u, units')
  BY <1>1, InTail, Zenon DEF LoadUnit, CursorTypes
<1>3. CursorTypes'
  BY <1>1, <1>2, ElementTypes, Zenon DEF LoadUnit, CursorTypes
<1>4. /\ points = <<>> /\ params = <<>>
      /\ UNCHANGED <<files, params, serialPorts, measurePoints, paramList>>
  BY Zenon DEF LoadUnit
<1>5. ASSUME NEW u, UnitKept(u) PROVE UnitKept(u)'
  BY <1>1, <1>4, <1>5, InEmpty, Zenon DEF UnitKept, PointKept, ParamKept, Grow
<1>6. ASSUME NEW f \in File, NEW u, u = unit', Own(f, u), Has(serialPorts, <<f.rs485>>) PROVE UnitKept(u)'
  <2>1. monitorUnits' = Add(monitorUnits, UnitKey(u), u) /\ points' = u.points
    BY <1>6, Zenon DEF LoadUnit, Own, InsertMonitorUnit, UnitKey
  <2>2. Has(monitorUnits', UnitKey(u))
    BY <2>1, AddHas
  <2>3. \A p \in Elems(u.points) : In(p, points')
    BY <2>1, Zenon DEF In, Elems
  <2> QED
    BY <1>6, <2>2, <2>3, Zenon DEF UnitKept, PointKept, UnitKey
<1>7. ASSUME NEW f \in File, FileKept(f) PROVE FileKept(f)'
  BY <1>1, <1>2, <1>5, <1>6, <1>7, Zenon DEF FileKept, Grow, Own
<1> QED
  BY <1>1, <1>3, <1>4, <1>7, Zenon DEF LoadInv

\* The next point: inserted into its unit, which is there if it is of the file's port.
LEMMA LoadPointKeeps == ASSUME LoadInv, LoadPoint PROVE LoadInv'
<1>1. /\ CursorTypes /\ created /\ created' = created /\ Grow
      /\ \A f \in File : In(f, files) \/ FileKept(f)
  BY LoadsGrow, Zenon DEF LoadPoint, LoadInv, NothingLeft
<1>2. /\ point' \in PointElement /\ points' \in Seq(PointElement)
      /\ \A p : In(p, points) => p = point' \/ In(p, points')
  BY <1>1, InTail, Zenon DEF LoadPoint, CursorTypes
<1>3. CursorTypes'
  BY <1>1, <1>2, ElementTypes, Zenon DEF LoadPoint, CursorTypes
<1>4. params = <<>> /\ UNCHANGED <<files, units, unit, serialPorts, monitorUnits, paramList>>
  BY Zenon DEF LoadPoint
<1>5. ASSUME NEW u, u = unit, Has(monitorUnits, UnitKey(u)), NEW p, p = point' PROVE PointKept(u, p)'
  <2>1. params' = p.params /\ (p.deviceid # 0 => Has(measurePoints', PointKey(u, p)))
    <3>1. /\ params' = p.params
          /\ p.deviceid # 0 => measurePoints' = Add(measurePoints, PointKey(u, p), p)
      BY <1>5, Zenon DEF LoadPoint, UnitKey, PointKey
    <3> QED
      BY <3>1, AddHas
  <2>2. \A n \in Elems(p.params) : In(n, params')
    BY <2>1, Zenon DEF In, Elems
  <2> QED
    BY <1>4, <1>5, <2>1, <2>2, Zenon DEF PointKept, ParamKept, PointKey
<1>6. ASSUME NEW u, NEW p, PointKept(u, p), ~(u = unit /\ In(p, points)) PROVE PointKept(u, p)'
  BY <1>1, <1>4, <1>6, InEmpty, Zenon DEF PointKept, ParamKept, Grow, PointKey, ParamKey
<1>7. ASSUME NEW u, UnitKept(u) PROVE UnitKept(u)'
  <2>1. Has(monitorUnits, UnitKey(u)) /\ Has(monitorUnits', UnitKey(u))
    BY <1>1, <1>7, Zenon DEF UnitKept, Grow
  <2>2. ASSUME NEW p \in Elems(u.points) PROVE PointKept(u, p)'
    <3>1. CASE u = unit /\ In(p, points')
      BY <1>4, <3>1, Zenon DEF PointKept
    <3>2. CASE u = unit /\ p = point'
      BY <1>5, <2>1, <3>2, Zenon
    <3>3. CASE ~(u = unit /\ In(p, points))
      BY <1>6, <1>7, <3>3, Zenon DEF UnitKept
    <3> QED
      BY <1>2, <3>1, <3>2, <3>3, Zenon
  <2> QED
    BY <2>1, <2>2, Zenon DEF UnitKept, UnitKey
<1>8. ASSUME NEW f \in File, FileKept(f) PROVE FileKept(f)'
  BY <1>1, <1>4, <1>7, <1>8, Zenon DEF FileKept, Grow, Own
<1> QED
  BY <1>1, <1>3, <1>4, <1>8, Zenon DEF LoadInv

\* The next parameter, which has a name: inserted into its point.
LEMMA LoadParamKeeps == ASSUME ParamsNamed, LoadInv, LoadParam PROVE LoadInv'
<1>1. /\ CursorTypes /\ created /\ created' = created /\ Grow
      /\ \A f \in File : In(f, files) \/ FileKept(f)
  BY LoadsGrow, Zenon DEF LoadParam, LoadInv, NothingLeft
<1> DEFINE name == Head(params)
<1>2. /\ name \in Param /\ params' \in Seq(Param)
      /\ \A n : In(n, params) => n = name \/ In(n, params')
  BY <1>1, InTail, Zenon DEF LoadParam, CursorTypes
<1>3. CursorTypes'
  BY <1>1, <1>2, Zenon DEF LoadParam, CursorTypes
<1>4. UNCHANGED <<files, units, points, unit, point, serialPorts, monitorUnits, measurePoints>>
  BY Zenon DEF LoadParam
<1>5. name # ""
  <2>1. PICK p \in PointElement : name \in Elems(p.params)
    BY <1>2, Zenon DEF Param
  <2>2. PICK u \in UnitElement : p \in Elems(u.points)
    BY Zenon DEF PointElement
  <2>3. PICK f \in File : u \in Elems(f.units)
    BY Zenon DEF UnitElement
  <2> QED
    BY <2>1, <2>2, <2>3, Zenon DEF ParamsNamed
<1>6. ASSUME Has(measurePoints, PointKey(unit, point)) PROVE Has(paramList', ParamKey(unit, point, name))
  <2>1. paramList' = Add(paramList, ParamKey(unit, point, name), GetFullParams(point, name))
    BY <1>5, <1>6, Zenon DEF LoadParam, PointKey, ParamKey
  <2> QED
    BY <2>1, AddHas, Zenon
<1> HIDE DEF name
<1>7. ASSUME NEW u, NEW p, PointKept(u, p) PROVE PointKept(u, p)'
  <2>1. CASE unit = u /\ In(p, points)
    BY <1>4, <2>1, Zenon DEF PointKept
  <2>2. CASE p.deviceid # 0 => /\ Has(measurePoints, PointKey(u, p))
                               /\ \A n \in Elems(p.params) : ParamKept(u, p, n)
    <3>1. ASSUME p.deviceid # 0, NEW n \in Elems(p.params) PROVE ParamKept(u, p, n)'
      <4>1. ParamKept(u, p, n) /\ Has(measurePoints, PointKey(u, p))
        BY <2>2, <3>1, Zenon
      <4>2. CASE Has(paramList, ParamKey(u, p, n))
        BY <1>1, <4>2, Zenon DEF Grow, ParamKept, ParamKey
      <4>3. CASE unit = u /\ point = p /\ In(n, params)
        BY <1>2, <1>4, <1>6, <4>1, <4>3, Zenon DEF ParamKept, ParamKey
      <4> QED
        BY <4>1, <4>2, <4>3, Zenon DEF ParamKept
    <3> QED
      BY <1>4, <2>2, <3>1, Zenon DEF PointKept, PointKey
  <2> QED
    BY <1>7, <2>1, <2>2, Zenon DEF PointKept
<1>8. ASSUME NEW f \in File, FileKept(f) PROVE FileKept(f)'
  BY <1>4, <1>7, <1>8, Zenon DEF FileKept, UnitKept, Own, UnitKey
<1> QED
  BY <1>1, <1>3, <1>4, <1>8, Zenon DEF LoadInv

\* start() and steps of others change nothing of this.
LEMMA LoadStands == ASSUME LoadInv, UNCHANGED <<cursors, lists, created>> PROVE LoadInv'
BY Zenon DEF LoadInv, CursorTypes, NothingLeft, FileKept, UnitKept, PointKept, ParamKept, cursors, lists

\* DeviceManager::load(): for any finite set of files, whatever the order of
\* readdir() and whichever elements of the files repeat each other, a unit that
\* names the port of its own file is there with its points and parameters.
THEOREM UnitsAreLoaded == ParamsNamed => (LoadSpec => []OwnUnitsLoaded)
<1>1. CASE ParamsNamed
  <2>1. Init => LoadInv
    BY LoadInit, Zenon
  <2>2. LoadInv /\ [Next]_vars => LoadInv'
    <3>1. ASSUME LoadInv, UNCHANGED vars PROVE LoadInv'
      <4>1. UNCHANGED <<cursors, lists, created>>
        BY <3>1, Zenon DEF vars, cursors, lists
      <4> QED
        BY <3>1, <4>1, LoadStands, Zenon
    <3>2. ASSUME LoadInv, Start PROVE LoadInv'
      BY <3>2, LoadStands, Zenon DEF Start
    <3> QED
      BY <1>1, <3>1, <3>2, LoadKeeps, LoadFileKeeps, LoadUnitKeeps, LoadPointKeeps, LoadParamKeeps, Zenon DEF Next
  <2>3. LoadInv => OwnUnitsLoaded
    <3>1. ASSUME LoadInv, Loaded, serialPorts # {}, NEW f \in File, NEW u \in Elems(f.units), Own(f, u)
          PROVE  /\ Has(monitorUnits, UnitKey(u))
                 /\ \A p \in Elems(u.points) : p.deviceid # 0 =>
                      /\ Has(measurePoints, PointKey(u, p))
                      /\ \A n \in Elems(p.params) : Has(paramList, ParamKey(u, p, n))
      BY <3>1, InEmpty, Zenon DEF LoadInv, Loaded, NothingLeft, FileKept, UnitKept, PointKept, ParamKept, Own
    <3>2. \A q, i : i \in 1 .. Len(q) => q[i] \in Elems(q)
      BY Zenon DEF Elems
    <3>3. ASSUME LoadInv, Loaded, serialPorts # {}, NEW f \in File, NEW i \in 1 .. Len(f.units),
                 Own(f, f.units[i])
          PROVE  LET u == f.units[i] IN
                 /\ Has(monitorUnits, UnitKey(u))
                 /\ \A j \in 1 .. Len(u.points) : u.points[j].deviceid # 0 =>
                      /\ Has(measurePoints, PointKey(u, u.points[j]))
                      /\ \A k \in 1 .. Len(u.points[j].params) :
                           Has(paramList, ParamKey(u, u.points[j], u.points[j].params[k]))
      BY <3>1, <3>2, <3>3, Zenon
    <3> QED
      BY <3>3, Zenon DEF OwnUnitsLoaded, Own, UnitKey, PointKey, ParamKey
  <2> QED
    BY <2>1, <2>2, <2>3, PTL DEF LoadSpec
<1> QED
  BY <1>1, Zenon
=============================================================================
