------------------------------- MODULE Channel -------------------------------
(***************************************************************************)
(* A Channel as a value: the events it is interested in and its index_,    *)
(* with what Channel.h, Channel.cc and EPollPoller.cc do to the two.       *)
(***************************************************************************)
EXTENDS Sequences

kNew == "kNew"          \* not in the poller's map, nor in epoll
kAdded == "kAdded"      \* in the map and in epoll
kDeleted == "kDeleted"  \* in the map, taken out of epoll

kNoneEvent == {}
kReadEvent == {"IN", "PRI"}
kWriteEvent == {"OUT"}

\* epoll reports HUP and ERR whether they were asked for or not.
AlwaysReported == {"HUP", "ERR"}

\* Every value an update can give the interest.
Events == {kNoneEvent, kReadEvent, kWriteEvent, kReadEvent \cup kWriteEvent}

ChannelValue == [events: Events, index: {kNew, kAdded, kDeleted}]

NewChannel == [events |-> kNoneEvent, index |-> kNew]

isNoneEvent(c) == c.events = kNoneEvent
isWriting(c) == kWriteEvent \subseteq c.events

\* Mutant of readingDisabled: POLLPRI is forgotten.
readingHalfDisabled(c) == [c EXCEPT !.events = c.events \ {"IN"}]

\* The assignments to events_ ahead of update().
readingEnabled(c) == [c EXCEPT !.events = c.events \cup kReadEvent]
readingDisabled(c) == [c EXCEPT !.events = c.events \ kReadEvent]
writingEnabled(c) == [c EXCEPT !.events = c.events \cup kWriteEvent]
writingDisabled(c) == [c EXCEPT !.events = c.events \ kWriteEvent]
allDisabled(c) == [c EXCEPT !.events = kNoneEvent]

\* The epoll_ctl operation updateChannel asks for.
operation(c) ==
    CASE c.index # kAdded                    -> "ADD"
      [] c.index = kAdded /\ isNoneEvent(c)  -> "DEL"
      [] c.index = kAdded /\ ~isNoneEvent(c) -> "MOD"

\* Mutant of updated: the index is left alone when epoll forgets the channel.
updatedStayingAdded(c) == [c EXCEPT !.index = kAdded]

\* What updateChannel makes of index_.
updated(c) == [c EXCEPT !.index = IF operation(c) = "DEL" THEN kDeleted ELSE kAdded]

\* What removeChannel makes of index_; events_ keeps its value.
removed(c) == [c EXCEPT !.index = kNew]

\* The callbacks handleEventWithGuard makes for revents, in its order.
callbacks(revents) ==
    LET due(cb, condition) == IF condition THEN <<cb>> ELSE <<>>
    IN  due("handleClose", "HUP" \in revents /\ "IN" \notin revents)
            \o due("handleError", "ERR" \in revents)
            \o due("handleRead", revents \cap kReadEvent # {})
            \o due("handleWrite", "OUT" \in revents)
=============================================================================
