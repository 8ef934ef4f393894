------------------------- MODULE EventLoopThreadPool -------------------------
(***************************************************************************)
(* The life of the sub-loops: the threads of an EventLoopThreadPool, each  *)
(* an EventLoopThread around a Thread (EventLoopThreadPool.cc,             *)
(* EventLoopThread.cc, Thread.cc), and the one thread, the owner, that     *)
(* starts the pool and later destroys it.                                  *)
(*                                                                         *)
(* Of an EventLoop only what its end depends on is kept: quit_, whether    *)
(* the eventfd is readable, and that the object lives on the stack of      *)
(* threadFunc.  Everything else that loop() does is user code that may     *)
(* call quit().                                                            *)
(***************************************************************************)
EXTENDS Naturals

CONSTANT numThreads_

ASSUME PoolAssumption == numThreads_ \in Nat

Worker == 1..numThreads_

VARIABLES
    owner,   \* where the owner is in start, startLoop or a destructor
    cur,     \* the EventLoopThread it is busy with
    thread,  \* [Worker -> ...]: where the new thread is in threadFunc
    loop_,   \* [Worker -> BOOLEAN]: EventLoopThread::loop_ is not null
    quit_,   \* [Worker -> BOOLEAN], of the thread's EventLoop
    eventfd, \* [Worker -> BOOLEAN]: its wakeupFd_ is readable
    touched, \* what was used after its end: "loop", "object", or "nothing"
    ended,   \* history: the loops that user code has told to quit
    lost     \* history: the loops that undid the destructor's quit

loops == <<thread, loop_, quit_, eventfd>>
history == <<ended, lost>>
vars == <<owner, cur, loops, touched, history>>

OwnerAt == {"starting", "inSem", "toLock", "waiting", "started", "userWakes",
            "destroying", "quitting", "waking", "joining", "ending", "gone"}

\* A thread is "spawned" until it has set tid_; it makes its EventLoop, is in
\* callback_, publishes the loop, enters it; "unlocking" it holds mutex_,
\* "leaving" it has only the EventLoop to destroy.
ThreadAt == {"none", "spawned", "constructing", "callback", "publishing",
             "entering", "while", "poll", "handling", "returned", "unlocking",
             "leaving", "done"}

TypeOK ==
    /\ owner \in OwnerAt
    /\ cur \in 1..(numThreads_ + 1)
    /\ owner \notin {"starting", "started", "destroying", "gone"} => cur \in Worker
    /\ thread \in [Worker -> ThreadAt]
    /\ {loop_, quit_, eventfd} \subseteq [Worker -> BOOLEAN]
    /\ touched \in {"nothing", "loop", "object"}
    /\ ended \subseteq Worker
    /\ lost \subseteq Worker

Init ==
    /\ owner = "starting"
    /\ cur = 1
    /\ thread = [i \in Worker |-> "none"]
    /\ loop_ = [i \in Worker |-> FALSE]
    /\ quit_ = [i \in Worker |-> FALSE]
    /\ eventfd = [i \in Worker |-> FALSE]
    /\ touched = "nothing"
    /\ ended = {}
    /\ lost = {}

\* Once something has been used after its end, anything may follow.
Defined == touched = "nothing"

\* The EventLoop of i exists; the EventLoopThread of i has been destroyed.
LoopLives(i) == thread[i] \notin {"none", "spawned", "constructing", "done"}
ObjectGone(i) == owner = "gone" \/ (owner \in {"destroying", "quitting", "waking",
                                               "joining", "ending"} /\ i < cur)
-----------------------------------------------------------------------------
(***************************************************************************)
(* The owner starts the pool: start, startLoop, Thread::start.             *)
(***************************************************************************)
OwnerGoes(from, to) ==
    /\ Defined
    /\ owner = from
    /\ owner' = to

\* Mutant of moreToStart: off by one.
oneMoreToStart == cur <= numThreads_ + 1

\* The test of the loop in EventLoopThreadPool::start.
moreToStart == cur <= numThreads_

\* One turn of the loop in EventLoopThreadPool::start: Thread::start spawns the
\* thread and waits on the semaphore.
start ==
    /\ moreToStart
    /\ OwnerGoes("starting", "inSem")
    /\ thread' = [thread EXCEPT ![cur] = "spawned"]
    /\ UNCHANGED <<cur, loop_, quit_, eventfd, touched, history>>

\* sem_wait returns: the thread has set tid_ and posted.
tidKnown(i) == thread[i] # "spawned"

semWait ==
    /\ OwnerGoes("inSem", "toLock")
    /\ tidKnown(cur)
    /\ UNCHANGED <<cur, loops, touched, history>>

\* Mutant of mustWait: startLoop takes the loop it finds.
mustNotWait(i) == FALSE

\* The test of startLoop's wait.
mustWait(i) == ~loop_[i]

\* startLoop has mutex_: it waits, or returns the loop and start goes on.
startLoop ==
    /\ owner = "toLock"
    /\ thread[cur] # "unlocking"
    /\ IF mustWait(cur)
         THEN OwnerGoes("toLock", "waiting") /\ UNCHANGED cur
         ELSE OwnerGoes("toLock", "starting") /\ cur' = cur + 1
    /\ UNCHANGED <<loops, touched, history>>

\* wait() may also return for no reason.
spuriousWakeup ==
    /\ OwnerGoes("waiting", "toLock")
    /\ UNCHANGED <<cur, loops, touched, history>>

startReturns ==
    /\ ~moreToStart
    /\ OwnerGoes("starting", "started")
    /\ UNCHANGED <<cur, loops, touched, history>>
-----------------------------------------------------------------------------
(***************************************************************************)
(* quit(): the store, and the wakeup if another thread calls it.           *)
(***************************************************************************)

\* The user of the pool calls quit() on one of its loops.
userQuits(i) ==
    /\ OwnerGoes("started", "userWakes")
    /\ cur' = i
    /\ ended' = ended \cup {i}
    /\ IF LoopLives(i)
         THEN quit_' = [quit_ EXCEPT ![i] = TRUE] /\ UNCHANGED touched
         ELSE touched' = "loop" /\ UNCHANGED quit_
    /\ UNCHANGED <<thread, loop_, eventfd, lost>>

\* wakeup() by the owner, in quit() of the loop cur.
wakeup(from, to) ==
    /\ OwnerGoes(from, to)
    /\ IF LoopLives(cur)
         THEN eventfd' = [eventfd EXCEPT ![cur] = TRUE] /\ UNCHANGED touched
         ELSE touched' = "loop" /\ UNCHANGED eventfd
    /\ UNCHANGED <<cur, thread, loop_, quit_, history>>

\* Mutant of wakesAfterQuit: quit() sets the flag and leaves it at that.
wakesNobody == "joining"

\* What the destructor does after quit()'s store: it is not the loop's thread.
wakesAfterQuit == "waking"
-----------------------------------------------------------------------------
(***************************************************************************)
(* ~EventLoopThreadPool destroys threads_ from the first to the last.      *)
(***************************************************************************)
destroyPool ==
    /\ OwnerGoes("started", "destroying")
    /\ cur' = 1
    /\ UNCHANGED <<loops, touched, history>>

\* ~EventLoopThread tests loop_, without the lock.
destroyThread ==
    /\ owner = "destroying" /\ cur \in Worker
    /\ OwnerGoes("destroying", IF loop_[cur] THEN "quitting" ELSE "ending")
    /\ UNCHANGED <<cur, loops, touched, history>>

\* loop_->quit() up to its wakeup.  If the build reads loop_ again it may find
\* null; if it does not, the loop may be there or not.
destructorQuits ==
    /\ OwnerGoes("quitting", wakesAfterQuit)
    /\ \/ LoopLives(cur) /\ quit_' = [quit_ EXCEPT ![cur] = TRUE] /\ UNCHANGED touched
       \/ ~loop_[cur] /\ touched' = "loop" /\ UNCHANGED quit_
    /\ UNCHANGED <<cur, thread, loop_, eventfd, history>>

\* Mutant of joinable: join() does not wait for the end of the thread.
joinableEarly(i) == thread[i] \in {"returned", "unlocking", "leaving", "done"}

joinable(i) == thread[i] = "done"

join ==
    /\ OwnerGoes("joining", "ending")
    /\ joinable(cur)
    /\ UNCHANGED <<cur, loops, touched, history>>

\* ~Thread detaches what was not joined, and the EventLoopThread is freed.
freeThread ==
    /\ OwnerGoes("ending", "destroying")
    /\ cur' = cur + 1
    /\ UNCHANGED <<loops, touched, history>>

destroyReturns ==
    /\ cur \notin Worker
    /\ OwnerGoes("destroying", "gone")
    /\ UNCHANGED <<cur, loops, touched, history>>
-----------------------------------------------------------------------------
(***************************************************************************)
(* A new thread: the lambda of Thread::start, then threadFunc.             *)
(***************************************************************************)
ThreadGoes(i, from, to) ==
    /\ Defined
    /\ thread[i] = from
    /\ thread' = [thread EXCEPT ![i] = to]

\* tid_ is set, the semaphore posted.
setTid(i) ==
    /\ ThreadGoes(i, "spawned", "constructing")
    /\ UNCHANGED <<owner, cur, loop_, quit_, eventfd, touched, history>>

\* EventLoop loop; and callback_(&loop) is entered.
construct(i) ==
    /\ ThreadGoes(i, "constructing", "callback")
    /\ UNCHANGED <<owner, cur, loop_, quit_, eventfd, touched, history>>

callbackReturns(i) ==
    /\ ThreadGoes(i, "callback", "publishing")
    /\ UNCHANGED <<owner, cur, loop_, quit_, eventfd, touched, history>>

\* Mutant of woken: nobody is notified.
notWoken == owner

\* The owner after cond_.notify_one().
woken == IF owner = "waiting" THEN "toLock" ELSE owner

\* loop_ = &loop and notify_one, under mutex_.
publish(i) ==
    /\ ThreadGoes(i, "publishing", "entering")
    /\ loop_' = [loop_ EXCEPT ![i] = TRUE]
    /\ owner' = IF cur = i THEN woken ELSE owner
    /\ UNCHANGED <<cur, quit_, eventfd, touched, history>>

\* loop() begins with quit_ = false.
loopEnter(i) ==
    /\ ThreadGoes(i, "entering", "while")
    /\ quit_' = [quit_ EXCEPT ![i] = FALSE]
    /\ lost' = IF cur = i /\ owner \in {"waking", "joining"} THEN lost \cup {i} ELSE lost
    /\ UNCHANGED <<owner, cur, loop_, eventfd, touched, ended>>

loopTest(i) ==
    /\ ThreadGoes(i, "while", IF quit_[i] THEN "returned" ELSE "poll")
    /\ UNCHANGED <<owner, cur, loop_, quit_, eventfd, touched, history>>

\* epoll_wait returns; handleRead drains the eventfd.
poll(i) ==
    /\ ThreadGoes(i, "poll", "handling")
    /\ eventfd' = [eventfd EXCEPT ![i] = FALSE]
    /\ UNCHANGED <<owner, cur, loop_, quit_, touched, history>>

\* Channels and functors have been handled.
roundEnds(i) ==
    /\ ThreadGoes(i, "handling", "while")
    /\ UNCHANGED <<owner, cur, loop_, quit_, eventfd, touched, history>>

\* User code on the thread, in callback_ or in the loop, calls quit().
quitsItself(i) ==
    /\ Defined
    /\ thread[i] \in {"callback", "handling"}
    /\ quit_' = [quit_ EXCEPT ![i] = TRUE]
    /\ ended' = ended \cup {i}
    /\ UNCHANGED <<owner, cur, thread, loop_, eventfd, touched, lost>>

\* The end of threadFunc: loop_ = nullptr under mutex_, then the lock goes and
\* then the EventLoop.  loop_ and mutex_ are the EventLoopThread's.
clear(i) ==
    /\ ThreadGoes(i, "returned", "unlocking")
    /\ loop_' = [loop_ EXCEPT ![i] = FALSE]
    /\ touched' = IF ObjectGone(i) THEN "object" ELSE touched
    /\ UNCHANGED <<owner, cur, quit_, eventfd, history>>

unlock(i) ==
    /\ ThreadGoes(i, "unlocking", "leaving")
    /\ touched' = IF ObjectGone(i) THEN "object" ELSE touched
    /\ UNCHANGED <<owner, cur, loop_, quit_, eventfd, history>>

destruct(i) ==
    /\ ThreadGoes(i, "leaving", "done")
    /\ UNCHANGED <<owner, cur, loop_, quit_, eventfd, touched, history>>
-----------------------------------------------------------------------------
OwnerStep ==
    \/ start
    \/ semWait
    \/ startLoop
    \/ startReturns
    \/ wakeup("userWakes", "started")
    \/ destroyThread
    \/ destructorQuits
    \/ wakeup("waking", "joining")
    \/ join
    \/ freeThread
    \/ destroyReturns

ThreadStep(i) ==
    \/ setTid(i)
    \/ construct(i)
    \/ callbackReturns(i)
    \/ publish(i)
    \/ loopEnter(i)
    \/ loopTest(i)
    \/ roundEnds(i)
    \/ clear(i)
    \/ unlock(i)
    \/ destruct(i)

Next ==
    \/ OwnerStep
    \/ spuriousWakeup
    \/ destroyPool
    \/ \E i \in Worker :
          \/ ThreadStep(i)
          \/ poll(i)
          \/ userQuits(i)
          \/ quitsItself(i)

Spec == Init /\ [][Next]_vars

(***************************************************************************)
(* Threads run, callbacks return, epoll_wait returns when the eventfd is   *)
(* readable.  Nobody has to quit or to destroy the pool, and neither the   *)
(* timeout of epoll_wait nor spurious wakeups are relied upon.             *)
(***************************************************************************)
Fairness ==
    /\ WF_vars(OwnerStep)
    /\ \A i \in Worker : WF_vars(ThreadStep(i)) /\ WF_vars(eventfd[i] /\ poll(i))

FairSpec == Spec /\ Fairness
-----------------------------------------------------------------------------
(***************************************************************************)
(* Properties.                                                             *)
(***************************************************************************)

\* What start() leaves behind is ready: each thread has its tid_, and each
\* pointer that startLoop has returned is the loop of a live thread, unless
\* user code has told that loop to quit (EventLoopThread.cc:25-39, Thread.cc:44).
StartedIsReady ==
    \A i \in Worker :
        /\ i < cur /\ owner \in {"starting", "inSem", "toLock", "waiting", "started"}
             => thread[i] # "spawned" /\ (i \notin ended => loop_[i] /\ LoopLives(i))
        /\ i = cur /\ owner \in {"toLock", "waiting"} => thread[i] # "spawned"

\* The destructor calls quit() on a loop that exists, and a thread finds its
\* EventLoopThread in place: join() orders the two ends.  The exceptions are the
\* code's, each for the loop it is about: one that user code ended leaves loop_
\* to be read as it changes, and is not joined; and the wakeup of quit() may
\* come after the loop has seen quit_ and gone (EventLoopThread.cc:15-23, 62-64;
\* EventLoop.cc:124-129).
EndsInOrder ==
    /\ touched = "loop" => cur \in ended \/ owner = "joining"
    /\ touched = "object" => \E i \in ended : ObjectGone(i) /\ thread[i] # "done"

\* startLoop returns, whether the thread publishes its loop before the owner
\* waits, after, or in between; unless the loop may already have ended.
StartReturns ==
    owner = "inSem" ~> owner = "started" \/ ended # {}

\* The destructor returns: every loop is told to quit, is woken, and is joined,
\* except one that undoes the quit on entering loop() (EventLoop.cc:80).
DestructorReturns ==
    owner = "destroying" ~> owner = "gone" \/ lost # {} \/ ~Defined

\* EventLoop.h:32, quit() "leave the loop": the destructor returns, whatever
\* the threads were doing.
DestructorAlwaysReturns ==
    owner = "destroying" ~> owner = "gone" \/ ~Defined
=============================================================================
