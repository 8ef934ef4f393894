------------------------------ MODULE EventLoop ------------------------------
(***************************************************************************)
(* One EventLoop (EventLoop.h, EventLoop.cc): the thread that runs loop(), *)
(* and the other threads that call queueInLoop, runInLoop and quit on it.  *)
(*                                                                         *)
(* A step is a stretch of code in which the thread touches shared state    *)
(* once: the critical section on mutex_, a store to quit_, the write and   *)
(* the read of the eventfd, the return of epoll_wait.  User code (an I/O   *)
(* callback, a functor, the thread-init callback) runs on the loop thread  *)
(* between two steps and may call the loop in turn.                        *)
(***************************************************************************)
EXTENDS Naturals, Sequences, FiniteSets

CONSTANTS
    Caller,        \* threads other than the loop's own
    LoopThread,    \* the thread threadId_ names
    Functor,       \* one element per submission, each made at most once
    InitFunctor,   \* those the loop's own thread queues before loop()
    IOChannel,     \* channels of the poller besides wakeupChannel_
    WakeupChannel, \* wakeupChannel_
    EventListSize, \* channels epoll_wait can report in one call
    MaxEventfd     \* largest value of the eventfd counter (2^64 - 2)

ASSUME EventLoopAssumption ==
    /\ LoopThread \notin Caller
    /\ InitFunctor \subseteq Functor
    /\ WakeupChannel \notin IOChannel
    /\ EventListSize \in Nat \ {0}
    /\ MaxEventfd \in Nat \ {0}

Thread == Caller \cup {LoopThread}

VARIABLES
    pc,                      \* where the loop thread is in loop()
    call,                    \* [Thread -> ...]: a call the thread is inside
    quit_,
    callingPendingFunctors_,
    pendingFunctors_,
    functors,                \* what is left of doPendingFunctors' local vector
    activeChannels_,         \* what is left of the channels epoll_wait returned
    eventfd,                 \* the kernel's counter behind wakeupFd_
    started                  \* history: the functors started, in order

vars == <<pc, call, quit_, callingPendingFunctors_, pendingFunctors_, functors,
          activeChannels_, eventfd, started>>

\* The loop thread is "constructed" until it calls loop(); at "while" it tests
\* quit_, at "poll" it is in epoll_wait, at "handle" it walks activeChannels_,
\* at "run" it walks functors; in "callback" and "functor" it is in user code.
Where == {"constructed", "while", "poll", "handle", "callback", "run",
          "functor", "stopped"}

SeqRange(s) == {s[i] : i \in DOMAIN s}

Submitted == SeqRange(pendingFunctors_) \cup SeqRange(functors)
             \cup SeqRange(started)

TypeOK ==
    /\ pc \in Where
    /\ call \in [Thread -> {"none", "wakeup"}]
    /\ quit_ \in BOOLEAN
    /\ callingPendingFunctors_ \in BOOLEAN
    /\ pendingFunctors_ \in Seq(Functor)
    /\ functors \in Seq(Functor)
    /\ activeChannels_ \subseteq IOChannel \cup {WakeupChannel}
    /\ eventfd \in 0..MaxEventfd
    /\ started \in Seq(Functor)

Init ==
    /\ pc = "constructed"
    /\ call = [t \in Thread |-> "none"]
    /\ quit_ = FALSE
    /\ callingPendingFunctors_ = FALSE
    /\ pendingFunctors_ = <<>>
    /\ functors = <<>>
    /\ activeChannels_ = {}
    /\ eventfd = 0
    /\ started = <<>>
-----------------------------------------------------------------------------
(***************************************************************************)
(* Calls on the loop, from any thread.                                     *)
(***************************************************************************)

\* isInLoopThread(), evaluated by t.
isInLoopThread(t) == t = LoopThread

\* t is in user code and may call the loop: another thread always is, the
\* loop's own only before loop(), in a channel's callback and in a functor.
InUserCode(t) ==
    /\ call[t] = "none"
    /\ isInLoopThread(t) => pc \in {"constructed", "callback", "functor"}

\* f has not been submitted; the init functors are the ones for the
\* loop's own thread before loop().
Available(t, f) ==
    /\ f \notin Submitted
    /\ f \in InitFunctor <=> isInLoopThread(t) /\ pc = "constructed"

\* Mutants of the two tests that follow.
wakesForOthersOnly(t)   == ~isInLoopThread(t)
wakesForFunctorsOnly(t) == callingPendingFunctors_
wakesForItselfOnly(t)   == isInLoopThread(t)

\* The tests of queueInLoop and quit: does t go on to write the eventfd?
\* callingPendingFunctors_ is only consulted by the thread that writes it.
wakesAfterQueueing(t) == ~isInLoopThread(t) \/ callingPendingFunctors_
wakesAfterQuit(t)     == ~isInLoopThread(t)

\* queueInLoop up to its test: append under the lock.
queueInLoop(t, f) ==
    /\ InUserCode(t)
    /\ Available(t, f)
    /\ pendingFunctors_' = Append(pendingFunctors_, f)
    /\ call' = [call EXCEPT ![t] =
                   IF wakesAfterQueueing(t) THEN "wakeup" ELSE "none"]
    /\ UNCHANGED <<pc, quit_, callingPendingFunctors_, functors,
                   activeChannels_, eventfd, started>>

\* runInLoop on the loop's own thread calls the functor on the spot; on any
\* other thread it is queueInLoop.
runInLoopHere(f) ==
    /\ InUserCode(LoopThread)
    /\ Available(LoopThread, f)
    /\ started' = Append(started, f)
    /\ UNCHANGED <<pc, call, quit_, callingPendingFunctors_, pendingFunctors_,
                   functors, activeChannels_, eventfd>>

runInLoop(t, f) ==
    IF isInLoopThread(t) THEN runInLoopHere(f) ELSE queueInLoop(t, f)

\* quit() up to its test: the store, then the decision to wake the loop.
quit(t) ==
    /\ InUserCode(t)
    /\ quit_' = TRUE
    /\ call' = [call EXCEPT ![t] = IF wakesAfterQuit(t) THEN "wakeup" ELSE "none"]
    /\ UNCHANGED <<pc, callingPendingFunctors_, pendingFunctors_, functors,
                   activeChannels_, eventfd, started>>

\* Mutant of eventfdWritten: the counter overflows.
eventfdOverflown == eventfd + 1

\* The eventfd after a write of 1.  At its maximum the counter refuses the
\* write (the fd is non-blocking) and the failure is only logged.
eventfdWritten == IF eventfd < MaxEventfd THEN eventfd + 1 ELSE eventfd

wakeup(t) ==
    /\ call[t] = "wakeup"
    /\ eventfd' = eventfdWritten
    /\ call' = [call EXCEPT ![t] = "none"]
    /\ UNCHANGED <<pc, quit_, callingPendingFunctors_, pendingFunctors_,
                   functors, activeChannels_, started>>
-----------------------------------------------------------------------------
(***************************************************************************)
(* The loop thread in loop().                                              *)
(***************************************************************************)

\* loop() begins: looping_ = true, quit_ = false.
loopEnter ==
    /\ pc = "constructed"
    /\ call[LoopThread] = "none"
    /\ quit_' = FALSE
    /\ pc' = "while"
    /\ UNCHANGED <<call, callingPendingFunctors_, pendingFunctors_, functors,
                   activeChannels_, eventfd, started>>

\* while (!quit_), and activeChannels_.clear() at the top of the body.
loopTest ==
    /\ pc = "while"
    /\ pc' = IF quit_ THEN "stopped" ELSE "poll"
    /\ activeChannels_' = {}
    /\ UNCHANGED <<call, quit_, callingPendingFunctors_, pendingFunctors_,
                   functors, eventfd, started>>

\* epoll_wait returns with the channels it reports; with none, on the timeout
\* kPollTimeMs or a signal.  The eventfd is level triggered: while its counter
\* is not zero the call does not sleep, and the wakeup channel is reported
\* unless the others fill the array.
poll ==
    /\ pc = "poll"
    /\ \E reported \in SUBSET (IOChannel \cup {WakeupChannel}) :
          /\ WakeupChannel \in reported => eventfd > 0
          /\ eventfd > 0 /\ WakeupChannel \notin reported
                => Cardinality(reported) >= EventListSize
          /\ activeChannels_' = reported
    /\ pc' = "handle"
    /\ UNCHANGED <<call, quit_, callingPendingFunctors_, pendingFunctors_,
                   functors, eventfd, started>>

\* handleEvent of wakeupChannel_: read() takes the whole counter.
handleRead ==
    /\ pc = "handle"
    /\ WakeupChannel \in activeChannels_
    /\ activeChannels_' = activeChannels_ \ {WakeupChannel}
    /\ eventfd' = 0
    /\ UNCHANGED <<pc, call, quit_, callingPendingFunctors_, pendingFunctors_,
                   functors, started>>

\* handleEvent of another channel enters user code.
handleEvent(ch) ==
    /\ pc = "handle"
    /\ ch \in activeChannels_ \ {WakeupChannel}
    /\ activeChannels_' = activeChannels_ \ {ch}
    /\ pc' = "callback"
    /\ UNCHANGED <<call, quit_, callingPendingFunctors_, pendingFunctors_,
                   functors, eventfd, started>>

\* Mutant of afterSwap: the queue is copied, not swapped.
afterCopy == pendingFunctors_

\* pendingFunctors_ once functors.swap(pendingFunctors_) has emptied it.
afterSwap == <<>>

\* doPendingFunctors: raise the flag, swap the queue out under the lock.
doPendingFunctors ==
    /\ pc = "handle"
    /\ activeChannels_ = {}
    /\ callingPendingFunctors_' = TRUE
    /\ functors' = pendingFunctors_
    /\ pendingFunctors_' = afterSwap
    /\ pc' = "run"
    /\ UNCHANGED <<call, quit_, activeChannels_, eventfd, started>>

runFunctor ==
    /\ pc = "run"
    /\ functors # <<>>
    /\ started' = Append(started, Head(functors))
    /\ functors' = Tail(functors)
    /\ pc' = "functor"
    /\ UNCHANGED <<call, quit_, callingPendingFunctors_, pendingFunctors_,
                   activeChannels_, eventfd>>

\* doPendingFunctors returns.
functorsDone ==
    /\ pc = "run"
    /\ functors = <<>>
    /\ callingPendingFunctors_' = FALSE
    /\ pc' = "while"
    /\ UNCHANGED <<call, quit_, pendingFunctors_, functors, activeChannels_,
                   eventfd, started>>

\* User code returns to the loop.
userReturns ==
    /\ call[LoopThread] = "none"
    /\ \/ pc = "callback" /\ pc' = "handle"
       \/ pc = "functor" /\ pc' = "run"
    /\ UNCHANGED <<call, quit_, callingPendingFunctors_, pendingFunctors_,
                   functors, activeChannels_, eventfd, started>>
-----------------------------------------------------------------------------
\* What the loop thread does by itself, user code included.
LoopStep ==
    \/ loopEnter
    \/ loopTest
    \/ handleRead
    \/ \E ch \in IOChannel : handleEvent(ch)
    \/ doPendingFunctors
    \/ runFunctor
    \/ functorsDone
    \/ userReturns

Next ==
    \/ \E t \in Thread, f \in Functor : queueInLoop(t, f) \/ runInLoop(t, f)
    \/ \E t \in Thread : quit(t) \/ wakeup(t)
    \/ poll
    \/ LoopStep

Spec == Init /\ [][Next]_vars

(***************************************************************************)
(* Threads that can run, run, and user code returns.  Nobody is obliged to *)
(* call the loop, no channel to become ready, and the ten-second timeout   *)
(* is not relied upon: what is live below is live through the eventfd.     *)
(***************************************************************************)
Fairness ==
    /\ WF_vars(LoopStep)
    /\ WF_vars(eventfd > 0 /\ poll)
    /\ \A t \in Thread : WF_vars(wakeup(t))

FairSpec == Spec /\ Fairness
-----------------------------------------------------------------------------
(***************************************************************************)
(* Properties.                                                             *)
(***************************************************************************)

WakeupComing == eventfd > 0 \/ \E t \in Thread : call[t] = "wakeup"

\* The loop is never left to sleep on work: while it is in epoll_wait with a
\* functor in pendingFunctors_, the eventfd is readable or the thread that
\* queued the functor is about to write it (queueInLoop, EventLoop.cc:154-160).
\* The functors the loop's own thread queued before loop() are the exception
\* the code makes.
NoLostWakeup ==
    pc = "poll" /\ SeqRange(pendingFunctors_) \ InitFunctor # {} => WakeupComing

\* The same for quit(): once quit_ is set, the loop does not sleep past it
\* (quit, EventLoop.cc:122-130).
NoSleepAfterQuit ==
    pc = "poll" /\ quit_ => WakeupComing

\* A functor handed over is started, by the wakeup alone and without the poll
\* timeout, unless the loop is told to return first.  One that the loop's own
\* thread queued before loop() gives no wakeup (EventLoop.cc:157): it is started
\* once a wakeup comes that was meant for something else.
FunctorStarts ==
    \A f \in Functor :
        f \in Submitted /\ (f \in InitFunctor => WakeupComing)
            ~> f \in SeqRange(started) \/ pc = "stopped"

\* quit() on a running loop ends it.
QuitStopsRunningLoop == quit_ /\ pc # "constructed" ~> pc = "stopped"

\* The promise of FunctorQueue: at most once, in order, none after the end.
\* The batch being run comes before what was queued since the swap.
FQ == INSTANCE FunctorQueue WITH queue <- functors \o pendingFunctors_,
                                 closed <- pc = "stopped"

FunctorQueueSpec == FQ!Spec
=============================================================================
