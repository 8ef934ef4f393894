--------------------------- MODULE EventLoopProofs ---------------------------
(***************************************************************************)
(* For every set of threads, functors and channels: the loop is never left *)
(* to sleep on a queued functor or on a quit, and the functor queue with   *)
(* its swap and its wakeups implements the FIFO of FunctorQueue.           *)
(***************************************************************************)
EXTENDS EventLoop, SequenceTheorems, TLAPS

\* The flag and the local vector of doPendingFunctors are in use exactly while
\* it runs, and the loop thread only wakes itself from inside a functor.
Control ==
    /\ callingPendingFunctors_ <=> pc \in {"run", "functor"}
    /\ pc \notin {"run", "functor"} => functors = <<>>
    /\ call[LoopThread] = "wakeup" => pc = "functor"

\* NoLostWakeup extended to the points from which the loop may go to sleep
\* without looking at pendingFunctors_ again.  At "handle" and "callback"
\* the counter may have been read: the swap is still to come.
WakeupPending ==
    /\ pc \in {"constructed", "while", "poll", "run", "functor"}
    /\ SeqRange(pendingFunctors_) \ InitFunctor # {}
    => WakeupComing

IInv == TypeOK /\ Control /\ WakeupPending /\ NoSleepAfterQuit
-----------------------------------------------------------------------------
LEMMA TypeInit == Init => TypeOK
<1> SUFFICES ASSUME Init PROVE TypeOK
  OBVIOUS
<1>1. 0 \in 0..MaxEventfd
  BY EventLoopAssumption
<1>2. <<>> \in Seq(Functor)
  OBVIOUS
<1>3. call \in [Thread -> {"none", "wakeup"}]
  BY DEF Init
<1>4. QED
  BY <1>1, <1>2, <1>3 DEF Init, TypeOK, Where

LEMMA TypeNext == TypeOK /\ [Next]_vars => TypeOK'
<1> SUFFICES ASSUME TypeOK, [Next]_vars PROVE TypeOK'
  OBVIOUS
<1> USE EventLoopAssumption DEF TypeOK, Thread, Where
<1>1. ASSUME NEW t \in Thread, NEW f \in Functor, queueInLoop(t, f) PROVE TypeOK'
  BY <1>1 DEF queueInLoop
<1>2. ASSUME NEW f \in Functor, runInLoopHere(f) PROVE TypeOK'
  BY <1>2 DEF runInLoopHere
<1>3. ASSUME NEW t \in Thread, quit(t) PROVE TypeOK'
  BY <1>3 DEF quit
<1>4. ASSUME NEW t \in Thread, wakeup(t) PROVE TypeOK'
  BY <1>4 DEF wakeup, eventfdWritten
<1>5. CASE poll
  BY <1>5 DEF poll
<1>6. CASE loopEnter
  BY <1>6 DEF loopEnter
<1>7. CASE loopTest
  BY <1>7 DEF loopTest
<1>8. CASE handleRead
  BY <1>8 DEF handleRead
<1>9. ASSUME NEW ch \in IOChannel, handleEvent(ch) PROVE TypeOK'
  BY <1>9 DEF handleEvent
<1>10. CASE doPendingFunctors
  BY <1>10 DEF doPendingFunctors, afterSwap
<1>11. CASE runFunctor
  BY <1>11 DEF runFunctor
<1>12. CASE functorsDone
  BY <1>12 DEF functorsDone
<1>13. CASE userReturns
  BY <1>13 DEF userReturns
<1>14. CASE UNCHANGED vars
  BY <1>14 DEF vars
<1>15. QED
  BY <1>1, <1>2, <1>3, <1>4, <1>5, <1>6, <1>7, <1>8, <1>9, <1>10, <1>11,
     <1>12, <1>13, <1>14 DEF Next, LoopStep, runInLoop

\* Every variable keeps its type, whatever the threads and functors.
THEOREM TypeCorrect == Spec => []TypeOK
BY TypeInit, TypeNext, PTL DEF Spec
-----------------------------------------------------------------------------
LEMMA ControlNext == TypeOK /\ Control /\ [Next]_vars => Control'
<1> SUFFICES ASSUME TypeOK, Control, [Next]_vars PROVE Control'
  OBVIOUS
<1> USE EventLoopAssumption DEF TypeOK, Control, Thread, Where
<1>1. ASSUME NEW t \in Thread, NEW f \in Functor, queueInLoop(t, f) PROVE Control'
  BY <1>1 DEF queueInLoop, wakesAfterQueueing, InUserCode, isInLoopThread
<1>2. ASSUME NEW f \in Functor, runInLoopHere(f) PROVE Control'
  BY <1>2 DEF runInLoopHere
<1>3. ASSUME NEW t \in Thread, quit(t) PROVE Control'
  BY <1>3 DEF quit, wakesAfterQuit, isInLoopThread
<1>4. ASSUME NEW t \in Thread, wakeup(t) PROVE Control'
  BY <1>4 DEF wakeup
<1>5. CASE poll
  BY <1>5 DEF poll
<1>6. CASE loopEnter
  BY <1>6 DEF loopEnter
<1>7. CASE loopTest
  BY <1>7 DEF loopTest
<1>8. CASE handleRead
  BY <1>8 DEF handleRead
<1>9. ASSUME NEW ch \in IOChannel, handleEvent(ch) PROVE Control'
  BY <1>9 DEF handleEvent
<1>10. CASE doPendingFunctors
  BY <1>10 DEF doPendingFunctors
<1>11. CASE runFunctor
  BY <1>11 DEF runFunctor
<1>12. CASE functorsDone
  BY <1>12 DEF functorsDone
<1>13. CASE userReturns
  BY <1>13 DEF userReturns
<1>14. CASE UNCHANGED vars
  BY <1>14 DEF vars
<1>15. QED
  BY <1>1, <1>2, <1>3, <1>4, <1>5, <1>6, <1>7, <1>8, <1>9, <1>10, <1>11,
     <1>12, <1>13, <1>14 DEF Next, LoopStep, runInLoop

\* A write leaves the counter above zero, whatever it was.
LEMMA WrittenIsReadable ==
  ASSUME eventfd \in 0..MaxEventfd PROVE eventfdWritten > 0
BY EventLoopAssumption DEF eventfdWritten

\* Only the loop's own read takes a coming wakeup away.
LEMMA WakeupStays ==
  ASSUME TypeOK, WakeupComing,
         \/ \E t \in Thread : wakeup(t)
         \/ eventfd' = eventfd /\ \A t \in Thread : call[t] = "wakeup" => call'[t] = "wakeup"
  PROVE  WakeupComing'
<1>1. CASE \E t \in Thread : wakeup(t)
  BY <1>1, WrittenIsReadable DEF TypeOK, wakeup, WakeupComing
<1>2. CASE eventfd' = eventfd /\ \A t \in Thread : call[t] = "wakeup" => call'[t] = "wakeup"
  BY <1>2 DEF WakeupComing
<1>3. QED
  BY <1>1, <1>2

LEMMA WakeupNext == IInv /\ [Next]_vars => WakeupPending' /\ NoSleepAfterQuit'
<1> SUFFICES ASSUME IInv, [Next]_vars PROVE WakeupPending' /\ NoSleepAfterQuit'
  OBVIOUS
<1> USE DEF IInv
<1> DEFINE Goal == WakeupPending /\ NoSleepAfterQuit
<1>1. ASSUME NEW t \in Thread, NEW f \in Functor, queueInLoop(t, f) PROVE Goal'
  <2>1. CASE call'[t] = "wakeup"
    BY <2>1 DEF WakeupComing, WakeupPending, NoSleepAfterQuit
  <2>2. CASE call'[t] # "wakeup"
    <3>1. isInLoopThread(t) /\ pc \in {"constructed", "callback"}
      BY <1>1, <2>2 DEF queueInLoop, wakesAfterQueueing, InUserCode,
         isInLoopThread, Control, TypeOK
    <3>2. CASE pc = "callback"
      BY <1>1, <3>2 DEF queueInLoop, WakeupPending, NoSleepAfterQuit
    <3>3. CASE pc = "constructed"
      <4>1. f \in InitFunctor
        BY <1>1, <3>1, <3>3 DEF queueInLoop, Available
      <4>2. SeqRange(pendingFunctors_') \ InitFunctor
              \subseteq SeqRange(pendingFunctors_) \ InitFunctor
        BY <1>1, <4>1 DEF queueInLoop, SeqRange, TypeOK
      <4>3. WakeupComing => WakeupComing'
        BY <1>1, WakeupStays DEF queueInLoop, InUserCode, TypeOK
      <4>4. QED
        BY <1>1, <3>3, <4>2, <4>3 DEF queueInLoop, WakeupPending, NoSleepAfterQuit
    <3>4. QED
      BY <3>1, <3>2, <3>3
  <2>3. QED
    BY <2>1, <2>2
<1>2. ASSUME NEW f \in Functor, runInLoopHere(f) PROVE Goal'
  BY <1>2 DEF runInLoopHere, WakeupPending, NoSleepAfterQuit, WakeupComing
<1>3. ASSUME NEW t \in Thread, quit(t) PROVE Goal'
  <2>1. CASE isInLoopThread(t)
    <3>1. pc # "poll" /\ pc' = pc /\ call' = call
      BY <1>3, <2>1 DEF quit, InUserCode, wakesAfterQuit, TypeOK
    <3>2. QED
      BY <1>3, <3>1 DEF quit, WakeupPending, NoSleepAfterQuit, WakeupComing
  <2>2. CASE ~isInLoopThread(t)
    <3>1. call'[t] = "wakeup"
      BY <1>3, <2>2 DEF quit, wakesAfterQuit, TypeOK
    <3>2. QED
      BY <3>1 DEF WakeupComing, WakeupPending, NoSleepAfterQuit
  <2>3. QED
    BY <2>1, <2>2
<1>4. ASSUME NEW t \in Thread, wakeup(t) PROVE Goal'
  <2>1. eventfd' > 0
    BY <1>4, WrittenIsReadable DEF wakeup, TypeOK
  <2>2. QED
    BY <2>1 DEF WakeupComing, WakeupPending, NoSleepAfterQuit
<1>5. CASE poll
  BY <1>5 DEF poll, WakeupPending, NoSleepAfterQuit
<1>6. CASE loopEnter
  BY <1>6 DEF loopEnter, WakeupPending, NoSleepAfterQuit, WakeupComing
<1>7. CASE loopTest
  BY <1>7 DEF loopTest, WakeupPending, NoSleepAfterQuit, WakeupComing
<1>8. CASE handleRead
  BY <1>8 DEF handleRead, WakeupPending, NoSleepAfterQuit
<1>9. ASSUME NEW ch \in IOChannel, handleEvent(ch) PROVE Goal'
  BY <1>9 DEF handleEvent, WakeupPending, NoSleepAfterQuit
<1>10. CASE doPendingFunctors
  BY <1>10 DEF doPendingFunctors, afterSwap, SeqRange, WakeupPending, NoSleepAfterQuit
<1>11. CASE runFunctor
  BY <1>11 DEF runFunctor, WakeupPending, NoSleepAfterQuit, WakeupComing
<1>12. CASE functorsDone
  BY <1>12 DEF functorsDone, WakeupPending, NoSleepAfterQuit, WakeupComing
<1>13. CASE userReturns
  BY <1>13 DEF userReturns, WakeupPending, NoSleepAfterQuit, WakeupComing
<1>14. CASE UNCHANGED vars
  BY <1>14 DEF vars, WakeupPending, NoSleepAfterQuit, WakeupComing
<1>15. QED
  BY <1>1, <1>2, <1>3, <1>4, <1>5, <1>6, <1>7, <1>8, <1>9, <1>10, <1>11,
     <1>12, <1>13, <1>14 DEF Next, LoopStep, runInLoop

LEMMA Inductive == Spec => []IInv
<1>1. Init => IInv
  BY TypeInit, EventLoopAssumption
     DEF Init, IInv, Control, WakeupPending, NoSleepAfterQuit, SeqRange, Thread
<1>2. IInv /\ [Next]_vars => IInv'
  BY TypeNext, ControlNext, WakeupNext DEF IInv
<1>3. QED
  BY <1>1, <1>2, PTL DEF Spec

\* The loop never sleeps on a queued functor without a wakeup on its way.
THEOREM LostWakeupFree == Spec => []NoLostWakeup
<1>1. IInv => NoLostWakeup
  BY DEF IInv, WakeupPending, NoLostWakeup
<1>2. QED
  BY <1>1, Inductive, PTL

\* The loop never sleeps past a quit.
THEOREM QuitIsSeen == Spec => []NoSleepAfterQuit
<1>1. IInv => NoSleepAfterQuit
  BY DEF IInv
<1>2. QED
  BY <1>1, Inductive, PTL
-----------------------------------------------------------------------------
(***************************************************************************)
(* The refinement.  queue is the concatenation of the batch being run and  *)
(* of what was queued since the swap; the lemmas say how it changes.       *)
(***************************************************************************)
LEMMA AppendToConcat ==
  ASSUME NEW S, NEW s \in Seq(S), NEW t \in Seq(S), NEW x \in S
  PROVE  s \o Append(t, x) = Append(s \o t, x)
OBVIOUS

LEMMA TailOfConcat ==
  ASSUME NEW S, NEW s \in Seq(S), NEW t \in Seq(S), s # <<>>
  PROVE  /\ s \o t # <<>>
         /\ Head(s \o t) = Head(s)
         /\ Tail(s \o t) = Tail(s) \o t
OBVIOUS

LEMMA EmptyConcat ==
  ASSUME NEW S, NEW s \in Seq(S)
  PROVE  <<>> \o s = s /\ s \o <<>> = s
OBVIOUS

\* What has not been submitted is fresh to the abstract queue.
LEMMA AvailableIsFresh ==
  ASSUME TypeOK, NEW t \in Thread, NEW f \in Functor, Available(t, f)
  PROVE  FQ!Fresh(f)
BY DEF TypeOK, Available, Submitted, SeqRange, FQ!Fresh

LEMMA StepRefines == IInv /\ [Next]_vars => [FQ!Next]_(FQ!vars)
<1> SUFFICES ASSUME IInv, [Next]_vars PROVE [FQ!Next]_(FQ!vars)
  OBVIOUS
<1> USE DEF IInv
<1>0. /\ pendingFunctors_ \in Seq(Functor)
      /\ functors \in Seq(Functor)
      /\ started \in Seq(Functor)
  BY DEF TypeOK
<1>1. ASSUME NEW t \in Thread, NEW f \in Functor, queueInLoop(t, f) PROVE FQ!Submit(f)
  <2>1. FQ!Fresh(f)
    BY <1>1, AvailableIsFresh DEF queueInLoop
  <2>2. functors' \o pendingFunctors_' = Append(functors \o pendingFunctors_, f)
    BY <1>0, <1>1, AppendToConcat DEF queueInLoop
  <2>3. started' = started /\ pc' = pc
    BY <1>1 DEF queueInLoop
  <2>4. QED
    BY <2>1, <2>2, <2>3 DEF FQ!Submit
<1>2. ASSUME NEW f \in Functor, runInLoopHere(f) PROVE FQ!StartNow(f)
  <2>1. LoopThread \in Thread /\ pc # "stopped"
    BY <1>2 DEF Thread, runInLoopHere, InUserCode, isInLoopThread
  <2>2. FQ!Fresh(f)
    BY <1>2, <2>1, AvailableIsFresh DEF runInLoopHere
  <2>3. QED
    BY <1>2, <2>1, <2>2 DEF runInLoopHere, FQ!StartNow
<1>3. CASE runFunctor
  <2>1. /\ functors \o pendingFunctors_ # <<>>
        /\ Head(functors \o pendingFunctors_) = Head(functors)
        /\ Tail(functors \o pendingFunctors_) = functors' \o pendingFunctors_'
    BY <1>0, <1>3, TailOfConcat DEF runFunctor
  <2>2. FQ!StartNext
    BY <1>3, <2>1 DEF runFunctor, FQ!StartNext
  <2>3. QED
    BY <2>2 DEF FQ!Next
<1>4. CASE doPendingFunctors
  <2>1. functors = <<>>
    BY <1>4 DEF doPendingFunctors, Control
  <2>2. functors' \o pendingFunctors_' = functors \o pendingFunctors_
    BY <1>0, <1>4, <2>1, EmptyConcat DEF doPendingFunctors, afterSwap
  <2>3. QED
    BY <1>4, <2>2 DEF doPendingFunctors, FQ!vars
<1>5. CASE loopTest
  BY <1>5 DEF loopTest, FQ!Next, FQ!Close, FQ!vars
<1>6. ASSUME NEW t \in Thread, quit(t) \/ wakeup(t) PROVE UNCHANGED FQ!vars
  BY <1>6 DEF quit, wakeup, FQ!vars
<1>7. CASE poll \/ loopEnter \/ handleRead \/ functorsDone \/ userReturns
  BY <1>7 DEF poll, loopEnter, handleRead, functorsDone, userReturns, FQ!vars
<1>8. ASSUME NEW ch \in IOChannel, handleEvent(ch) PROVE UNCHANGED FQ!vars
  BY <1>8 DEF handleEvent, FQ!vars
<1>9. CASE UNCHANGED vars
  BY <1>9 DEF vars, FQ!vars
<1>10. QED
  BY <1>1, <1>2, <1>3, <1>4, <1>5, <1>6, <1>7, <1>8, <1>9
     DEF Next, LoopStep, runInLoop, FQ!Next

\* A functor is started at most once, in the order of queueing, and never
\* after loop() has returned: swap, flag and wakeups implement a FIFO.
THEOREM ImplementsFunctorQueue == Spec => FunctorQueueSpec
<1>1. Init => FQ!Init
  BY EmptyConcat DEF Init, FQ!Init
<1>2. QED
  BY <1>1, StepRefines, Inductive, PTL DEF Spec, FunctorQueueSpec, FQ!Spec
=============================================================================
