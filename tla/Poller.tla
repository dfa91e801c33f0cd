------------------------------- MODULE Poller -------------------------------
(***************************************************************************)
(* The two pollers of muduo, EPollPoller and PollPoller (src/muduo/net/    *)
(* poller), given the same calls of Channel (src/muduo/net/Channel.h):     *)
(* what each keeps in channels_, in Channel::index_ and in the kernel's    *)
(* epoll set or in the array pollfds_.  newDefaultPoller picks one.        *)
(* Descriptors are small numbers, as the kernel hands out the lowest one,  *)
(* and are reused once the Channel and its descriptor are gone.            *)
(***************************************************************************)
EXTENDS Integers, Sequences, FiniteSets

CONSTANTS Channel, NoChannel, MaxFd    \* bound: descriptors are 0..MaxFd

VARIABLES
    fd_,            \* descriptor of each channel that exists, -1 otherwise
    removed,        \* channels that remove() has been called for
    events_,        \* its interest
    channels_,      \* fd to channel, kept alike by both pollers
    epIndex,        \* index_ under EPollPoller
    epollfd_,       \* the kernel's set: fd to pointer and interest
    epFailed,       \* an epoll_ctl failed: LOG_SYSFATAL or LOG_SYSERR
    ppIndex,        \* index_ under PollPoller
    pollfds_,
    onceIdle        \* history: channels whose one update() asked for nothing

pollerVars == <<fd_, removed, events_, channels_, epIndex, epollfd_,
                epFailed, ppIndex, pollfds_, onceIdle>>

Fd == 0..MaxFd
Interest == SUBSET {"read", "write"}
kNew == -1
kAdded == 1
kDeleted == 2
Unwatched == [ptr |-> NoChannel, events |-> {}]

\* The tables of both pollers; indices lie within them.
PollerTypeOK ==
    /\ fd_ \in [Channel -> Fd \cup {-1}] /\ removed \subseteq Channel
    /\ events_ \in [Channel -> Interest]
    /\ channels_ \in [Fd -> Channel \cup {NoChannel}]
    /\ epIndex \in [Channel -> {kNew, kAdded, kDeleted}]
    /\ epollfd_ \in [Fd -> [ptr : Channel \cup {NoChannel}, events : Interest]]
    /\ epFailed \in BOOLEAN
    /\ ppIndex \in [Channel -> -1..MaxFd]
    /\ pollfds_ \in Seq([fd : -(MaxFd + 1)..MaxFd, events : Interest])
    /\ onceIdle \subseteq Channel

PollerInit ==
    /\ fd_ = [c \in Channel |-> -1] /\ removed = {}
    /\ events_ = [c \in Channel |-> {}]
    /\ channels_ = [f \in Fd |-> NoChannel]
    /\ epIndex = [c \in Channel |-> kNew]
    /\ epollfd_ = [f \in Fd |-> Unwatched]
    /\ epFailed = FALSE
    /\ ppIndex = [c \in Channel |-> -1]
    /\ pollfds_ = <<>>
    /\ onceIdle = {}

-----------------------------------------------------------------------------
(* EPollPoller.  epoll_ctl is the kernel's.                                *)
EpollCtl(op, c, ev) ==
    LET fails == (op = "ADD") = (epollfd_[fd_[c]] # Unwatched) IN
    /\ epFailed' = (epFailed \/ fails)
    /\ epollfd_' = IF fails THEN epollfd_
                   ELSE [epollfd_ EXCEPT ![fd_[c]] =
                            IF op = "DEL" THEN Unwatched
                            ELSE [ptr |-> c, events |-> ev]]

\* Fault: a channel is added once, and modified when it is enabled again.
epOperationAddsOnce(c, ev) ==
    IF epIndex[c] = kNew THEN "ADD" ELSE IF ev = {} THEN "DEL" ELSE "MOD"

\* The operation updateChannel asks for.
epOperation(c, ev) ==
    IF epIndex[c] \in {kNew, kDeleted} THEN "ADD"
    ELSE IF ev = {} THEN "DEL" ELSE "MOD"

epUpdateChannel(c, ev) ==
    /\ EpollCtl(epOperation(c, ev), c, ev)
    /\ epIndex' = [epIndex EXCEPT ![c] =
                      IF epOperation(c, ev) = "DEL" THEN kDeleted ELSE kAdded]

\* Fault: removeChannel leaves a watched descriptor to close().
epRemoveChannelLazily(c) ==
    /\ UNCHANGED <<epollfd_, epFailed>>
    /\ epIndex' = [epIndex EXCEPT ![c] = kNew]

epRemoveChannel(c) ==
    /\ IF epIndex[c] = kAdded THEN EpollCtl("DEL", c, {})
       ELSE UNCHANGED <<epollfd_, epFailed>>
    /\ epIndex' = [epIndex EXCEPT ![c] = kNew]

\* fillActiveChannels for the descriptors in ready that have an event asked for.
epActive(ready) ==
    {epollfd_[f].ptr : f \in {g \in ready : epollfd_[g].events # {}}}

-----------------------------------------------------------------------------
(* PollPoller.  An ignored entry of pollfds_ has fd -fd-1.                 *)

\* Fault: the sign alone marks an ignored entry, which descriptor 0 has not.
IgnoredMinus(f) == -f

Ignored(f) == -f - 1

\* Fault: the index of a new entry is one past it.
NewIndexPastEnd == Len(pollfds_) + 1

NewIndex == Len(pollfds_)

ppUpdateChannel(c, ev) ==
    IF ppIndex[c] < 0
    THEN /\ pollfds_' = Append(pollfds_, [fd |-> fd_[c], events |-> ev])
         /\ ppIndex' = [ppIndex EXCEPT ![c] = NewIndex]
    ELSE /\ pollfds_' = [pollfds_ EXCEPT ![ppIndex[c] + 1] =
                [fd |-> IF ev = {} THEN Ignored(fd_[c]) ELSE fd_[c],
                 events |-> ev]]
         /\ UNCHANGED ppIndex

\* The descriptor of the entry that removeChannel moves into the gap.
FdAtEnd(f) == IF f < 0 THEN -f - 1 ELSE f

\* The last entry takes the place of the one that goes.  index_ keeps its value
\* in the removed channel, which is destroyed next.
ppRemoveChannel(c) ==
    LET last == Len(pollfds_)
        idx == ppIndex[c] + 1
        moved == channels_[FdAtEnd(pollfds_[last].fd)] IN
    /\ pollfds_' = SubSeq([pollfds_ EXCEPT ![idx] = pollfds_[last]], 1, last - 1)
    /\ ppIndex' = IF idx = last THEN ppIndex
                  ELSE [ppIndex EXCEPT ![moved] = ppIndex[c]]

ppActive(ready) ==
    {channels_[f] : f \in {g \in ready : \E i \in DOMAIN pollfds_ :
                                pollfds_[i].fd = g /\ pollfds_[i].events # {}}}

-----------------------------------------------------------------------------
(* Channel.                                                                *)
exists(c) == fd_[c] # -1
hasChannel(c) == exists(c) /\ channels_[fd_[c]] = c

NewChannel(c, f) ==
    /\ ~exists(c)
    /\ \A d \in Channel : fd_[d] # f
    /\ fd_' = [fd_ EXCEPT ![c] = f]
    /\ events_' = [events_ EXCEPT ![c] = {}]
    /\ epIndex' = [epIndex EXCEPT ![c] = kNew]
    /\ ppIndex' = [ppIndex EXCEPT ![c] = -1]
    /\ UNCHANGED <<removed, channels_, epollfd_, epFailed, pollfds_, onceIdle>>

\* enableReading and its like, each with update().
Calls(ev) == {ev \cup {"read"}, ev \ {"read"}, ev \cup {"write"},
              ev \ {"write"}, {}}

\* No caller enables a channel again after remove(): PollPoller::removeChannel
\* leaves index_ as it is, and would take the old place for the channel's.
Update(c, ev) ==
    /\ exists(c) /\ c \notin removed
    /\ ev \in Calls(events_[c])
    /\ events_' = [events_ EXCEPT ![c] = ev]
    /\ channels_' = [channels_ EXCEPT ![fd_[c]] = c]
    /\ epUpdateChannel(c, ev)
    /\ ppUpdateChannel(c, ev)
    /\ onceIdle' = IF ~hasChannel(c) /\ ev = {} THEN onceIdle \cup {c}
                   ELSE onceIdle \ {c}
    /\ UNCHANGED <<fd_, removed>>

\* remove(): its callers have called disableAll() before.  The assert of
\* PollPoller.cc:122 is a conjunct of PollfdsMirrorChannels.
Remove(c) ==
    /\ hasChannel(c)
    /\ events_[c] = {}
    /\ channels_' = [channels_ EXCEPT ![fd_[c]] = NoChannel]
    /\ epRemoveChannel(c)
    /\ ppRemoveChannel(c)
    /\ removed' = removed \cup {c}
    /\ onceIdle' = onceIdle \ {c}
    /\ UNCHANGED <<fd_, events_>>

\* ~Channel, and close() of the descriptor by its owner: the kernel forgets it.
DeleteChannel(c) ==
    /\ exists(c) /\ ~hasChannel(c)
    /\ epollfd_' = [epollfd_ EXCEPT ![fd_[c]] = Unwatched]
    /\ fd_' = [fd_ EXCEPT ![c] = -1]
    /\ removed' = removed \ {c}
    /\ UNCHANGED <<events_, channels_, epIndex, epFailed, ppIndex, pollfds_,
                   onceIdle>>

PollerNext ==
    \E c \in Channel :
        \/ \E f \in Fd : NewChannel(c, f)
        \/ \E ev \in Interest : Update(c, ev)
        \/ Remove(c) \/ DeleteChannel(c)

PollerSpec == PollerInit /\ [][PollerNext]_pollerVars

-----------------------------------------------------------------------------
(***************************************************************************)
(* index_ and the kernel's set tell the same story (EPollPoller.cc:107):   *)
(* the kernel holds the pointer and the interest of exactly the channels   *)
(* that are kAdded, so that poll never hands out a channel that has been   *)
(* removed, and no epoll_ctl fails.                                        *)
(***************************************************************************)
EpollMirrorsChannels ==
    /\ ~epFailed
    /\ \A f \in Fd : epollfd_[f] =
           LET c == channels_[f] IN
           IF c # NoChannel /\ epIndex[c] = kAdded
           THEN [ptr |-> c, events |-> events_[c]] ELSE Unwatched

(***************************************************************************)
(* index_ is the place of the channel in pollfds_ and nobody else's        *)
(* (PollPoller.cc:112), after any sequence of removals that swap the last  *)
(* entry, ignored or not, into the gap.  The entry of a channel that asks  *)
(* for nothing is marked as ignored, as removeChannel asserts (:122), but  *)
(* for one whose first update() is disableAll(): updateChannel adds it     *)
(* unmarked (:84).  ~Acceptor of a server that never listened makes one    *)
(* (Acceptor.cc:42), and fails the assert in a debug build; a release      *)
(* build goes on and takes the entry out.                                  *)
(***************************************************************************)
PollfdsMirrorChannels ==
    /\ Len(pollfds_) = Cardinality({c \in Channel : hasChannel(c)})
    /\ \A c \in {d \in Channel : hasChannel(d)} :
           /\ ppIndex[c] \in 0..(Len(pollfds_) - 1)
           /\ pollfds_[ppIndex[c] + 1] =
                  [fd |-> IF events_[c] = {} /\ c \notin onceIdle
                          THEN Ignored(fd_[c]) ELSE fd_[c],
                   events |-> events_[c]]

(***************************************************************************)
(* The pollers are interchangeable (newDefaultPoller, DefaultPoller.cc:17) *)
(* in what they report of the events asked for, if not in what they assert:*)
(* whichever descriptors become ready, both report the same channels, and  *)
(* these are the registered ones that have an interest.                    *)
(***************************************************************************)
PollersAgree ==
    \A ready \in SUBSET Fd :
        /\ epActive(ready) = ppActive(ready)
        /\ epActive(ready) = {c \in Channel : hasChannel(c) /\ fd_[c] \in ready
                                                /\ events_[c] # {}}

(***************************************************************************)
(* Both pollers hold what the channels say, and so they agree.             *)
(***************************************************************************)
PollerInv ==
    /\ PollerTypeOK
    /\ EpollMirrorsChannels
    /\ PollfdsMirrorChannels
    /\ PollersAgree
=============================================================================
