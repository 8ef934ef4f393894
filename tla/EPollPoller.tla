----------------------------- MODULE EPollPoller -----------------------------
(***************************************************************************)
(* One EPollPoller (EPollPoller.cc, Poller.h) with the channels of its     *)
(* loop and the epoll instance behind it.  Everything runs on the loop     *)
(* thread; what is hard is the sequence of calls: three records of the     *)
(* same fact (index_, the map channels_, the kernel's interest list) kept  *)
(* in step across enable, disable, remove and the reuse of descriptors,    *)
(* and the raw pointers of a batch kept good while its callbacks run.      *)
(***************************************************************************)
EXTENDS Channel, Naturals, FiniteSets

CONSTANTS
    ChannelId,  \* Channel objects
    Tied,       \* those of TcpConnections, which tie() them
    Fd,         \* file descriptors
    NoChannel   \* the absence of a Channel*

ASSUME EPollPollerAssumption == NoChannel \notin ChannelId /\ Tied \subseteq ChannelId

VARIABLES
    live,             \* the Channel objects that exist, their fds open
    fd_,              \* [ChannelId -> Fd]
    channel,          \* [ChannelId -> ChannelValue]
    channels_,        \* the map: [Fd -> ChannelId or NoChannel]
    ptr,              \* epoll: the data.ptr registered for each fd, if any
    interest,         \* epoll: the events registered for each fd
    at,               \* what loop() is in: "poll", "handle" or "functors"
    activeChannels_,  \* reported by the last poll and not handled yet
    current,          \* the channel whose handleEvent runs, or NoChannel
    queued,           \* those with a connectDestroyed in pendingFunctors_
    cut,              \* those that a destructor removed within this batch
    exited            \* LOG_FATAL has ended the process

records == <<channel, channels_, ptr, interest>>
round == <<at, activeChannels_, current>>
vars == <<live, fd_, records, round, queued, cut, exited>>

TypeOK ==
    /\ live \subseteq ChannelId
    /\ fd_ \in [ChannelId -> Fd]
    /\ channel \in [ChannelId -> ChannelValue]
    /\ channels_ \in [Fd -> ChannelId \cup {NoChannel}]
    /\ ptr \in [Fd -> ChannelId \cup {NoChannel}]
    /\ interest \in [Fd -> Events]
    /\ at \in {"poll", "handle", "functors"}
    /\ current \in ChannelId \cup {NoChannel}
    /\ activeChannels_ \subseteq ChannelId
    /\ queued \subseteq Tied
    /\ cut \subseteq ChannelId
    /\ exited \in BOOLEAN

Init ==
    /\ live = {}
    /\ fd_ \in [ChannelId -> Fd]
    /\ channel = [ch \in ChannelId |-> NewChannel]
    /\ channels_ = [fd \in Fd |-> NoChannel]
    /\ ptr = [fd \in Fd |-> NoChannel]
    /\ interest = [fd \in Fd |-> kNoneEvent]
    /\ at = "poll"
    /\ activeChannels_ = {}
    /\ current = NoChannel
    /\ queued = {}
    /\ cut = {}
    /\ exited = FALSE
-----------------------------------------------------------------------------
\* The loop's thread runs code that makes calls: a callback, a functor, or what
\* comes before and after loop().
InCode == ~exited /\ (at = "handle" => current # NoChannel)

\* A channel is made for a descriptor the kernel has just handed out.
construct(ch, fd) ==
    /\ ~exited
    /\ ch \notin live
    /\ \A other \in live : fd_[other] # fd
    /\ live' = live \cup {ch}
    /\ fd_' = [fd_ EXCEPT ![ch] = fd]
    /\ channel' = [channel EXCEPT ![ch] = NewChannel]
    /\ UNCHANGED <<channels_, ptr, interest, round, queued, cut, exited>>

\* EPollPoller::update: epoll_ctl refuses to add what it has and to modify or
\* delete what it has not; the process then ends.
update(op, ch, events) ==
    LET fd == fd_[ch]
        succeeds == op = "ADD" <=> ptr[fd] = NoChannel
    IN  /\ exited' = ~succeeds
        /\ ptr' = IF succeeds
                    THEN [ptr EXCEPT ![fd] = IF op = "DEL" THEN NoChannel ELSE ch]
                    ELSE ptr
        /\ interest' = IF succeeds
                         THEN [interest EXCEPT ![fd] = IF op = "DEL" THEN kNoneEvent ELSE events]
                         ELSE interest

\* updateChannel(ch), c being ch with its new events_.
updateChannel(ch, c) ==
    /\ InCode
    /\ ch \in live
    /\ channels_' = IF c.index = kNew THEN [channels_ EXCEPT ![fd_[ch]] = ch] ELSE channels_
    /\ update(operation(c), ch, c.events)
    /\ channel' = [channel EXCEPT ![ch] = updated(c)]
    /\ UNCHANGED <<live, fd_, round, queued, cut>>

enableReading(ch)  == updateChannel(ch, readingEnabled(channel[ch]))
disableReading(ch) == updateChannel(ch, readingDisabled(channel[ch]))
enableWriting(ch)  == updateChannel(ch, writingEnabled(channel[ch]))
disableWriting(ch) == updateChannel(ch, writingDisabled(channel[ch]))
disableAll(ch)     == updateChannel(ch, allDisabled(channel[ch]))

\* Mutants of erased and ctlOnRemove: no erase; the index is reset first.
notErased(fd) == channels_
ctlOnRemoveAfterReset(c) == removed(c).index = kAdded

\* channels_ without its entry for fd.
erased(fd) == [channels_ EXCEPT ![fd] = NoChannel]

\* removeChannel calls epoll_ctl only for a channel that epoll has.
ctlOnRemove(c) == c.index = kAdded

\* removeChannel.
Removes(ch) ==
    /\ InCode
    /\ ch \in live
    /\ channels_' = erased(fd_[ch])
    /\ IF ctlOnRemove(channel[ch])
         THEN update("DEL", ch, kNoneEvent)
         ELSE UNCHANGED <<ptr, interest, exited>>
    /\ channel' = [channel EXCEPT ![ch] = removed(channel[ch])]
    /\ UNCHANGED <<live, fd_, round>>

\* A destructor removes a channel at once, wherever the loop is: ~TcpServer,
\* which runs the connectDestroyed of the base loop's connections in place,
\* ~Acceptor and ~EventLoop.
removeChannel(ch) ==
    /\ Removes(ch)
    /\ cut' = IF ch \in activeChannels_ \cup {current} THEN cut \cup {ch} ELSE cut
    /\ UNCHANGED queued

\* The server queues the end of a connection, from this loop or another one.
removeConnectionInLoop(ch) ==
    /\ ~exited
    /\ ch \in live \cap Tied
    /\ queued' = queued \cup {ch}
    /\ UNCHANGED <<live, fd_, records, round, cut, exited>>

\* Mutant of functorsRun: runInLoop where the code has queueInLoop.
functorsRunAtOnce == at \in {"handle", "functors"}

\* Functors run once the batch of channels has been handled.
functorsRun == at = "functors"

\* A connectDestroyed that was queued.  What it does ahead of the removal,
\* disableAll and a callback, are actions of their own.
connectDestroyed(ch) ==
    /\ functorsRun
    /\ ch \in queued
    /\ Removes(ch)
    /\ queued' = queued \ {ch}
    /\ UNCHANGED cut
-----------------------------------------------------------------------------
(***************************************************************************)
(* The loop: a batch of channels, then the functors.                       *)
(***************************************************************************)

\* epoll_wait reports some registered descriptors; fillActiveChannels turns
\* their data.ptr back into channels.
poll ==
    /\ ~exited
    /\ at = "poll"
    /\ at' = "handle"
    /\ \E ready \in SUBSET {fd \in Fd : ptr[fd] # NoChannel} :
          activeChannels_' = {ptr[fd] : fd \in ready}
    /\ UNCHANGED <<live, fd_, records, current, queued, cut, exited>>

\* The loop hands ch its revents; the calls its callbacks make on channels are
\* the other actions.  With a channel that is gone anything may follow: the
\* model stops.
handleEvent(ch) ==
    /\ ~exited
    /\ current = NoChannel
    /\ ch \in activeChannels_ \cap live
    /\ activeChannels_' = activeChannels_ \ {ch}
    /\ current' = ch
    /\ UNCHANGED <<live, fd_, records, at, queued, cut, exited>>

\* The callbacks have returned, and the share of the tie is dropped.
handleEventReturns ==
    /\ ~exited
    /\ current \in live
    /\ current' = NoChannel
    /\ UNCHANGED <<live, fd_, records, at, activeChannels_, queued, cut, exited>>

doPendingFunctors ==
    /\ ~exited
    /\ at = "handle" /\ activeChannels_ = {} /\ current = NoChannel
    /\ at' = "functors"
    /\ cut' = {}
    /\ UNCHANGED <<live, fd_, records, activeChannels_, current, queued, exited>>

\* Functors queued by functors are left for the next round.
roundEnds ==
    /\ ~exited
    /\ at = "functors"
    /\ at' = "poll"
    /\ UNCHANGED <<live, fd_, records, activeChannels_, current, queued, cut, exited>>

\* Who owns the connection of ch, apart from what its user holds: the server
\* until it was removed, a queued functor, and the tie while it is handled.
\* Acceptor and EventLoop own theirs until they have removed it.
shared(ch) ==
    \/ channel[ch].index # kNew
    \/ ch \in queued
    \/ ch \in Tied /\ ch = current

\* The channel goes and its descriptor is closed, which takes the descriptor
\* out of epoll if it was still there.
destroy(ch) ==
    /\ ~exited
    /\ ch \in live
    /\ ~shared(ch)
    /\ live' = live \ {ch}
    /\ ptr' = [ptr EXCEPT ![fd_[ch]] = NoChannel]
    /\ interest' = [interest EXCEPT ![fd_[ch]] = kNoneEvent]
    /\ UNCHANGED <<fd_, channel, channels_, round, queued, cut, exited>>
-----------------------------------------------------------------------------
Next ==
    \/ \E ch \in ChannelId :
          \/ \E fd \in Fd : construct(ch, fd)
          \/ enableReading(ch)
          \/ disableReading(ch)
          \/ enableWriting(ch)
          \/ disableWriting(ch)
          \/ disableAll(ch)
          \/ removeChannel(ch)
          \/ removeConnectionInLoop(ch)
          \/ connectDestroyed(ch)
          \/ handleEvent(ch)
          \/ destroy(ch)
    \/ poll
    \/ handleEventReturns
    \/ doPendingFunctors
    \/ roundEnds

Spec == Init /\ [][Next]_vars
-----------------------------------------------------------------------------
(***************************************************************************)
(* Properties.                                                             *)
(***************************************************************************)

\* Whatever the calls, epoll is never asked for something it refuses, so the
\* LOG_FATAL of EPollPoller::update (EPollPoller.cc:146-156) is not reached.
NeverExits == ~exited

\* The kernel's list is the channels' own view of it: a descriptor is
\* registered exactly when its channel is kAdded, for that channel and for
\* the events it wants (updateChannel, removeChannel, EPollPoller.cc:76-123).
\* TcpConnection relies on this to leave the poller out.
KernelMirrorsChannels ==
    \A ch \in live :
        IF channel[ch].index = kAdded
          THEN ptr[fd_[ch]] = ch /\ interest[fd_[ch]] = channel[ch].events
          ELSE ptr[fd_[ch]] = NoChannel

\* The map holds exactly the live channels that are not kNew, each under its
\* descriptor, though erase() is by descriptor and descriptors are reused
\* (EPollPoller.cc:86-89, 113-114).
MapIsExact ==
    \A fd \in Fd : \A ch \in ChannelId :
        channels_[fd] = ch <=> ch \in live /\ fd_[ch] = fd /\ channel[ch].index # kNew

\* The raw pointers of a batch stay good while its callbacks close, remove and
\* free connections: the queued connectDestroyed waits for the end of the batch
\* (TcpServer.cc:125, EventLoop.cc:90-101), the tie keeps the connection being
\* handled (Channel.cc:53-60).  Only what a destructor removes within the batch
\* is not covered: ~TcpServer called in a callback of its own loop
\* (TcpServer.cc:35-42, Acceptor.cc:35-39).
ActiveAreLive ==
    /\ activeChannels_ \ cut \subseteq live
    /\ current \in live \cup {NoChannel} \cup (cut \ Tied)
=============================================================================
