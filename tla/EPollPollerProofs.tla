-------------------------- MODULE EPollPollerProofs --------------------------
(***************************************************************************)
(* For any number of channels and descriptors and any sequence of calls:   *)
(* index_, channels_ and the kernel's interest list agree, epoll_ctl never *)
(* fails, and a batch keeps its channels.                                  *)
(***************************************************************************)
EXTENDS EPollPoller, TLAPS

\* Two live channels never share a descriptor: the kernel hands one out again
\* only after it was closed.
FdsAreDistinct == \A x, y \in live : fd_[x] = fd_[y] => x = y

\* Nothing is registered but the descriptor of a live channel, for it.
RegisteredAreLive ==
    \A fd \in Fd : ptr[fd] # NoChannel => ptr[fd] \in live /\ fd_[ptr[fd]] = fd

\* What the loop has in its hands is in the map still, for only functors and
\* destructors remove, and the tie keeps what is being handled.
Handled == (activeChannels_ \cup {current}) \ {NoChannel}

BatchSound ==
    /\ at # "handle" => activeChannels_ = {} /\ current = NoChannel
    /\ \A ch \in Handled \ cut : ch \in live /\ channel[ch].index # kNew
    /\ current \in Tied => current \in live

IInv ==
    /\ TypeOK
    /\ NeverExits
    /\ KernelMirrorsChannels
    /\ MapIsExact
    /\ BatchSound
    /\ FdsAreDistinct
    /\ RegisteredAreLive
-----------------------------------------------------------------------------
(***************************************************************************)
(* The channel values.                                                     *)
(***************************************************************************)

\* A value whose events_ have just been assigned, ahead of update().
AssignedFrom(c, d) == d \in ChannelValue /\ d.index = c.index

LEMMA Assignments ==
  ASSUME NEW c \in ChannelValue
  PROVE  /\ AssignedFrom(c, readingEnabled(c))
         /\ AssignedFrom(c, readingDisabled(c))
         /\ AssignedFrom(c, writingEnabled(c))
         /\ AssignedFrom(c, writingDisabled(c))
         /\ AssignedFrom(c, allDisabled(c))
<1> USE DEF AssignedFrom, ChannelValue, Events, kNoneEvent, kReadEvent, kWriteEvent
<1>1. AssignedFrom(c, readingEnabled(c))
  BY DEF readingEnabled
<1>2. AssignedFrom(c, readingDisabled(c))
  BY DEF readingDisabled
<1>3. AssignedFrom(c, writingEnabled(c))
  BY DEF writingEnabled
<1>4. AssignedFrom(c, writingDisabled(c))
  BY DEF writingDisabled
<1>5. AssignedFrom(c, allDisabled(c))
  BY DEF allDisabled
<1>6. QED
  BY <1>1, <1>2, <1>3, <1>4, <1>5

\* An update asks epoll to add what it has not, and otherwise leaves index_
\* at kAdded exactly when epoll keeps the channel.
LEMMA Updated ==
  ASSUME NEW c \in ChannelValue
  PROVE  /\ updated(c) \in ChannelValue
         /\ updated(c).events = c.events
         /\ operation(c) \in {"ADD", "DEL", "MOD"}
         /\ operation(c) = "ADD" <=> c.index # kAdded
         /\ updated(c).index = IF operation(c) = "DEL" THEN kDeleted ELSE kAdded
<1>1. /\ operation(c) \in {"ADD", "DEL", "MOD"}
      /\ operation(c) = "ADD" <=> c.index # kAdded
  BY DEF operation
<1>2. QED
  BY <1>1 DEF updated, ChannelValue

LEMMA IndexesDiffer == kNew # kAdded /\ kNew # kDeleted /\ kAdded # kDeleted
BY DEF kNew, kAdded, kDeleted
-----------------------------------------------------------------------------
(***************************************************************************)
(* updateChannel, whatever was assigned to events_ before.                 *)
(***************************************************************************)
LEMMA UpdateStep ==
  ASSUME IInv, NEW ch \in ChannelId, NEW c, AssignedFrom(channel[ch], c),
         updateChannel(ch, c)
  PROVE  IInv'
<1> USE DEF IInv, AssignedFrom
<1>1. /\ ch \in live /\ fd_[ch] \in Fd /\ channel[ch] \in ChannelValue
      /\ c \in ChannelValue /\ c.index = channel[ch].index
      /\ live' = live /\ fd_' = fd_ /\ cut' = cut /\ queued' = queued
      /\ at' = at /\ activeChannels_' = activeChannels_ /\ current' = current
      /\ channel' = [channel EXCEPT ![ch] = updated(c)]
  BY DEF updateChannel, round, TypeOK
<1>2. (operation(c) = "ADD") <=> (ptr[fd_[ch]] = NoChannel)
  <2>1. (operation(c) = "ADD") <=> (channel[ch].index # kAdded)
    BY <1>1, Updated
  <2>2. ch # NoChannel
    BY EPollPollerAssumption
  <2>3. QED
    BY <1>1, <2>1, <2>2 DEF KernelMirrorsChannels
<1>3. /\ exited' = FALSE
      /\ ptr' = [ptr EXCEPT ![fd_[ch]] = IF operation(c) = "DEL" THEN NoChannel ELSE ch]
      /\ interest' = [interest EXCEPT ![fd_[ch]] =
                        IF operation(c) = "DEL" THEN kNoneEvent ELSE c.events]
  BY <1>2 DEF updateChannel, update
<1>4. channels_' = [channels_ EXCEPT ![fd_[ch]] = ch]
  <2>1. CASE c.index = kNew
    BY <2>1 DEF updateChannel
  <2>2. CASE c.index # kNew
    <3>1. channels_[fd_[ch]] = ch
      BY <1>1, <2>2 DEF MapIsExact
    <3>2. QED
      BY <2>2, <3>1 DEF updateChannel, TypeOK
  <2>3. QED
    BY <2>1, <2>2
<1>5. TypeOK'
  <2>1. kNoneEvent \in Events /\ c.events \in Events
    BY <1>1 DEF Events, ChannelValue
  <2>2. QED
    BY <1>1, <1>3, <1>4, <2>1, Updated DEF TypeOK
<1>6. KernelMirrorsChannels'
  BY <1>1, <1>3, Updated, IndexesDiffer DEF KernelMirrorsChannels, FdsAreDistinct, TypeOK
<1>7. MapIsExact'
  BY <1>1, <1>4, Updated, IndexesDiffer DEF MapIsExact, FdsAreDistinct, TypeOK
<1>8. RegisteredAreLive'
  BY <1>1, <1>3 DEF RegisteredAreLive, TypeOK
<1>9. BatchSound'
  BY <1>1, Updated, IndexesDiffer DEF BatchSound, Handled, TypeOK
<1>10. QED
  BY <1>1, <1>3, <1>5, <1>6, <1>7, <1>8, <1>9 DEF NeverExits, FdsAreDistinct

\* removeChannel, called by a functor or by a destructor.
LEMMA RemoveStep ==
  ASSUME IInv, NEW ch \in ChannelId, Removes(ch),
         queued' \subseteq Tied,
         \/ functorsRun /\ cut' = cut
         \/ cut' = IF ch \in activeChannels_ \cup {current} THEN cut \cup {ch} ELSE cut
  PROVE  IInv'
<1> USE DEF IInv
<1>1. /\ ch \in live /\ fd_[ch] \in Fd /\ channel[ch] \in ChannelValue
      /\ live' = live /\ fd_' = fd_
      /\ at' = at /\ activeChannels_' = activeChannels_ /\ current' = current
      /\ channel' = [channel EXCEPT ![ch] = removed(channel[ch])]
      /\ channels_' = [channels_ EXCEPT ![fd_[ch]] = NoChannel]
  BY DEF Removes, round, erased, TypeOK
<1>2. /\ removed(channel[ch]) \in ChannelValue
      /\ removed(channel[ch]).index = kNew
  BY <1>1 DEF removed, ChannelValue
<1>3. ch # NoChannel
  BY EPollPollerAssumption
<1>4. /\ exited' = FALSE
      /\ ptr' = [ptr EXCEPT ![fd_[ch]] = NoChannel]
      /\ interest' = interest \/ interest' = [interest EXCEPT ![fd_[ch]] = kNoneEvent]
  <2>1. CASE ctlOnRemove(channel[ch])
    <3>1. ptr[fd_[ch]] = ch
      BY <1>1, <2>1 DEF ctlOnRemove, KernelMirrorsChannels
    <3>2. QED
      BY <1>3, <2>1, <3>1 DEF Removes, update
  <2>2. CASE ~ctlOnRemove(channel[ch])
    <3>1. ptr[fd_[ch]] = NoChannel
      BY <1>1, <2>2 DEF ctlOnRemove, KernelMirrorsChannels
    <3>2. QED
      BY <1>1, <2>2, <3>1 DEF Removes, NeverExits, TypeOK
  <2>3. QED
    BY <2>1, <2>2
<1>5. /\ interest' \in [Fd -> Events]
      /\ \A fd \in Fd : fd # fd_[ch] => interest'[fd] = interest[fd]
  BY <1>1, <1>4 DEF TypeOK, Events
<1>6. TypeOK'
  BY <1>1, <1>2, <1>4, <1>5 DEF TypeOK
<1>7. KernelMirrorsChannels'
  BY <1>1, <1>2, <1>4, <1>5, IndexesDiffer DEF KernelMirrorsChannels, FdsAreDistinct, TypeOK
<1>8. MapIsExact'
  BY <1>1, <1>2, EPollPollerAssumption DEF MapIsExact, FdsAreDistinct, TypeOK
<1>9. RegisteredAreLive'
  BY <1>1, <1>4 DEF RegisteredAreLive, TypeOK
<1>10. BatchSound'
  BY <1>1 DEF BatchSound, Handled, functorsRun, TypeOK
<1>11. QED
  BY <1>1, <1>4, <1>6, <1>7, <1>8, <1>9, <1>10 DEF NeverExits, FdsAreDistinct

LEMMA ConstructStep ==
  ASSUME IInv, NEW ch \in ChannelId, NEW fd \in Fd, construct(ch, fd)
  PROVE  IInv'
<1> USE DEF IInv, construct, round
<1>1. NewChannel \in ChannelValue /\ NewChannel.index = kNew
  BY DEF NewChannel, ChannelValue, Events
<1>2. ch # NoChannel
  BY EPollPollerAssumption
<1>3. ptr[fd] = NoChannel
  BY DEF RegisteredAreLive
<1>4. TypeOK'
  BY <1>1 DEF TypeOK
<1>5. KernelMirrorsChannels'
  BY <1>1, <1>3, IndexesDiffer DEF KernelMirrorsChannels, TypeOK
<1>6. MapIsExact'
  BY <1>1 DEF MapIsExact, TypeOK
<1>7. FdsAreDistinct'
  BY DEF FdsAreDistinct, TypeOK
<1>8. RegisteredAreLive'
  BY DEF RegisteredAreLive, TypeOK
<1>9. BatchSound'
  BY DEF BatchSound, Handled, TypeOK
<1>10. QED
  BY <1>4, <1>5, <1>6, <1>7, <1>8, <1>9 DEF NeverExits

LEMMA DestroyStep ==
  ASSUME IInv, NEW ch \in ChannelId, destroy(ch)
  PROVE  IInv'
<1> USE DEF IInv, destroy, shared, round
<1>1. fd_[ch] \in Fd /\ channel[ch].index = kNew
  BY DEF TypeOK
<1>2. TypeOK'
  <2>1. kNoneEvent \in Events
    BY DEF Events
  <2>2. QED
    BY <1>1, <2>1 DEF TypeOK
<1>3. KernelMirrorsChannels'
  BY <1>1 DEF KernelMirrorsChannels, FdsAreDistinct, TypeOK
<1>4. MapIsExact'
  BY <1>1 DEF MapIsExact, TypeOK
<1>5. RegisteredAreLive'
  BY <1>1 DEF RegisteredAreLive, FdsAreDistinct, KernelMirrorsChannels, TypeOK
<1>6. BatchSound'
  BY <1>1 DEF BatchSound, Handled, TypeOK
<1>7. QED
  BY <1>2, <1>3, <1>4, <1>5, <1>6 DEF NeverExits, FdsAreDistinct

\* The steps of the loop and of the server that leave every record alone.
LEMMA RoundStep ==
  ASSUME IInv, UNCHANGED <<live, fd_, records, exited>>, TypeOK', BatchSound'
  PROVE  IInv'
BY DEF IInv, records, NeverExits, KernelMirrorsChannels, MapIsExact,
   FdsAreDistinct, RegisteredAreLive

LEMMA PollStep == IInv /\ poll => IInv'
<1> SUFFICES ASSUME IInv, poll PROVE IInv'
  OBVIOUS
<1>1. PICK ready \in SUBSET {fd \in Fd : ptr[fd] # NoChannel} :
        activeChannels_' = {ptr[fd] : fd \in ready}
  BY DEF poll
<1>2. \A fd \in ready : /\ ptr[fd] \in ChannelId /\ ptr[fd] \in live
                        /\ channel[ptr[fd]].index # kNew
  BY IndexesDiffer DEF IInv, TypeOK, RegisteredAreLive, KernelMirrorsChannels
<1>3. TypeOK'
  BY <1>1, <1>2 DEF IInv, poll, records, TypeOK
<1>4. BatchSound'
  BY <1>1, <1>2 DEF IInv, poll, records, BatchSound, Handled
<1>5. QED
  BY <1>3, <1>4, RoundStep DEF poll
-----------------------------------------------------------------------------
LEMMA Inductive == Spec => []IInv
<1>1. Init => IInv
  <2> SUFFICES ASSUME Init PROVE IInv
    OBVIOUS
  <2>1. NewChannel \in ChannelValue /\ kNoneEvent \in Events
    BY DEF NewChannel, ChannelValue, Events
  <2>2. TypeOK
    BY <2>1 DEF Init, TypeOK
  <2>3. MapIsExact
    BY EPollPollerAssumption DEF Init, MapIsExact
  <2>4. BatchSound
    BY EPollPollerAssumption DEF Init, BatchSound, Handled
  <2>5. QED
    BY <2>2, <2>3, <2>4 DEF Init, IInv, NeverExits, KernelMirrorsChannels,
       FdsAreDistinct, RegisteredAreLive
<1>2. IInv /\ [Next]_vars => IInv'
  <2> SUFFICES ASSUME IInv, [Next]_vars PROVE IInv'
    OBVIOUS
  <2>1. ASSUME NEW ch \in ChannelId,
               \/ enableReading(ch) \/ disableReading(ch)
               \/ enableWriting(ch) \/ disableWriting(ch) \/ disableAll(ch)
        PROVE  IInv'
    <3>1. channel[ch] \in ChannelValue
      BY DEF IInv, TypeOK
    <3>2. QED
      BY <2>1, <3>1, Assignments, UpdateStep DEF enableReading,
         disableReading, enableWriting, disableWriting, disableAll
  <2>2. ASSUME NEW ch \in ChannelId, removeChannel(ch) PROVE IInv'
    BY <2>2, RemoveStep DEF removeChannel, IInv, TypeOK
  <2>3. ASSUME NEW ch \in ChannelId, connectDestroyed(ch) PROVE IInv'
    BY <2>3, RemoveStep DEF connectDestroyed, IInv, TypeOK
  <2>4. ASSUME NEW ch \in ChannelId, removeConnectionInLoop(ch) PROVE IInv'
    BY <2>4, RoundStep DEF removeConnectionInLoop, records, round, IInv, TypeOK,
       BatchSound, Handled
  <2>5. ASSUME NEW ch \in ChannelId, handleEvent(ch) PROVE IInv'
    BY <2>5, RoundStep, EPollPollerAssumption DEF handleEvent, records, IInv,
       TypeOK, BatchSound, Handled
  <2>6. CASE handleEventReturns
    BY <2>6, RoundStep, EPollPollerAssumption DEF handleEventReturns, records,
       IInv, TypeOK, BatchSound, Handled
  <2>7. CASE doPendingFunctors
    BY <2>7, RoundStep, EPollPollerAssumption DEF doPendingFunctors, records,
       IInv, TypeOK, BatchSound, Handled
  <2>8. CASE roundEnds
    BY <2>8, RoundStep DEF roundEnds, records, IInv, TypeOK, BatchSound, Handled
  <2>9. CASE UNCHANGED vars
    BY <2>9, RoundStep DEF vars, records, round, IInv, TypeOK, BatchSound, Handled
  <2>10. QED
    BY <2>1, <2>2, <2>3, <2>4, <2>5, <2>6, <2>7, <2>8, <2>9, PollStep,
       ConstructStep, DestroyStep DEF Next
<1>3. QED
  BY <1>1, <1>2, PTL DEF Spec

\* Every variable keeps its type, the kernel's side as well as the poller's.
THEOREM TypeCorrect == Spec => []TypeOK
BY Inductive, PTL DEF IInv

\* epoll_ctl never fails, whatever is called in whatever order: the LOG_FATAL
\* of EPollPoller::update is dead code under the owners' discipline.
THEOREM CtlNeverFails == Spec => []NeverExits
BY Inductive, PTL DEF IInv

\* index_ says exactly what the kernel has registered, for every sequence of
\* calls and every reuse of descriptors.
THEOREM KernelAgrees == Spec => []KernelMirrorsChannels
BY Inductive, PTL DEF IInv

\* The map is exact for every sequence of calls.
THEOREM MapAgrees == Spec => []MapIsExact
BY Inductive, PTL DEF IInv

\* What the loop still has to handle is alive, for any channels, any calls and
\* any order in which connections are removed and freed, but for what a
\* destructor has removed within the batch.
THEOREM ActiveStayLive == Spec => []ActiveAreLive
<1>1. IInv => ActiveAreLive
  BY EPollPollerAssumption DEF IInv, TypeOK, BatchSound, Handled, ActiveAreLive
<1>2. QED
  BY <1>1, Inductive, PTL
=============================================================================
