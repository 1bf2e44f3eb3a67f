--------------------------- MODULE DefaultPoller ----------------------------
(***************************************************************************)
(* Poller::newDefaultPoller() (port/DefaultPoller.cpp): a loop has an      *)
(* EPollPoller, or a PollPoller if DBDKY_USE_POLL is set, for its whole    *)
(* life.  The two pollers share the names of their state; what only the    *)
(* other one has is None.                                                  *)
(***************************************************************************)
EXTENDS Integers, Sequences, FiniteSets

CONSTANTS Channel, FdOf, MaxEvents, None,   \* of EPollPoller
          Fd, Uses                          \* of PollPoller

ASSUME DefaultPollerAssumption ==
  /\ FdOf \in [Channel -> Fd] /\ MaxEvents \in Nat \ {0}
  /\ Fd \subseteq Nat /\ Uses \subseteq {"reenable", "unused"}

VARIABLES
  usePoll,                               \* DBDKY_USE_POLL is set
  events, index, channels, readyEvents, active, failed,
  kernel, listSize,                      \* of EPollPoller
  pollfds                                \* of PollPoller

epollOnly == <<kernel, listSize>>

EPoll == INSTANCE EPollPoller WITH Fd <- {FdOf[c] : c \in Channel}
Poll == INSTANCE PollPoller

NewDefaultPoller ==
  \/ usePoll /\ Poll!Init /\ kernel = None /\ listSize = None
  \/ ~usePoll /\ EPoll!Init /\ pollfds = None

PollerInit == usePoll \in BOOLEAN /\ NewDefaultPoller

PollerNext ==
  \/ usePoll /\ Poll!Next /\ UNCHANGED <<usePoll, epollOnly>>
  \/ ~usePoll /\ EPoll!Next /\ UNCHANGED <<usePoll, pollfds>>

PollerSpec == PollerInit /\ [][PollerNext]_<<usePoll, EPoll!vars, Poll!vars>>
-----------------------------------------------------------------------------
(* Properties *)

\* The epoll set of the kernel, index_ and channels_ of EPollPoller agree, or the
\* entries of PollPoller and the positions its channels remember do, and no assert
\* of either fails.
PollersAgree == IF usePoll THEN Poll!IndexesAgree ELSE EPoll!KernelAgrees
=============================================================================
