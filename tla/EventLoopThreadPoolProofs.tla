---------------------- MODULE EventLoopThreadPoolProofs ----------------------
(***************************************************************************)
(* For a pool of any size: what start() hands out is ready, and an         *)
(* EventLoop and its EventLoopThread end in the right order, but for the   *)
(* two cases EndsInOrder names.                                            *)
(***************************************************************************)
EXTENDS EventLoopThreadPool, TLAPS

\* threadFunc between its two locked blocks, and after loop() has returned.
Published == {"entering", "while", "poll", "handling", "returned"}
Left == {"unlocking", "leaving", "done"}

Starting == {"starting", "inSem", "toLock", "waiting"}
Ending == {"destroying", "quitting", "waking", "joining", "ending"}

\* startLoop has returned for i.
Handed(i) == owner \in Starting => i < cur

\* The destructor has told the loop of i to quit, or found it gone.
ToldToQuit(i) ==
    \/ owner = "gone"
    \/ owner \in Ending /\ i < cur
    \/ owner \in {"waking", "joining", "ending"} /\ i = cur

\* loop_ is set exactly while the thread is between its two locked blocks.
PointerIsPublished == \A i \in Worker : loop_[i] <=> thread[i] \in Published

\* Threads are started in turn, and startLoop waits for each.
StartedInTurn ==
    /\ \A i \in Worker :
          owner \in Starting /\ i >= cur => thread[i] = "none" \/ (i = cur /\ owner # "starting")
    /\ \A i \in Worker : Handed(i) => thread[i] \in Published \cup Left
    /\ owner \in {"toLock", "waiting"} => thread[cur] # "spawned"

\* A loop quits only because user code or the destructor told it to.
QuitIsCalled ==
    \A i \in Worker :
        quit_[i] \/ thread[i] \in Left \cup {"returned"} => i \in ended \/ ToldToQuit(i)

\* An EventLoopThread is freed after its thread, unless user code ended its loop.
FreedAfterThread ==
    \A i \in Worker :
        ObjectGone(i) \/ (owner = "ending" /\ i = cur)
            => thread[i] = "done" \/ i \in ended

\* The wakeup a user's quit() still owes is for a loop that counts as ended.
WakesTheEnded == owner = "userWakes" => cur \in ended

IInv ==
    /\ TypeOK
    /\ PointerIsPublished
    /\ StartedInTurn
    /\ QuitIsCalled
    /\ FreedAfterThread
    /\ WakesTheEnded
    /\ EndsInOrder
-----------------------------------------------------------------------------
LEMMA TypeInit == Init => TypeOK
BY PoolAssumption DEF Init, TypeOK, OwnerAt, ThreadAt, Worker

LEMMA TypeNext ==
  TypeOK /\ [Next]_vars
  => TypeOK'
<1> SUFFICES ASSUME TypeOK, [Next]_vars PROVE TypeOK'
  OBVIOUS
<1>0. Worker \subseteq 1..(numThreads_ + 1)
  BY PoolAssumption DEF Worker
<1> USE PoolAssumption DEF TypeOK, OwnerAt, ThreadAt
<1>1. CASE start
  BY <1>1 DEF start, OwnerGoes, moreToStart, Worker, loops, history
<1>2. CASE semWait
  BY <1>2 DEF semWait, OwnerGoes, tidKnown, loops, history
<1>3. CASE startLoop
  BY <1>3 DEF startLoop, OwnerGoes, mustWait, Worker, loops, history
<1>4. CASE startReturns
  BY <1>4 DEF startReturns, OwnerGoes, moreToStart, Worker, loops, history
<1>5. CASE wakeup("userWakes", "started")
  BY <1>5 DEF wakeup, OwnerGoes, loops, history
<1>6. CASE destroyThread
  BY <1>6 DEF destroyThread, OwnerGoes, loops, history
<1>7. CASE destructorQuits
  BY <1>7 DEF destructorQuits, OwnerGoes, wakesAfterQuit, loops, history
<1>8. CASE wakeup("waking", "joining")
  BY <1>8 DEF wakeup, OwnerGoes, loops, history
<1>9. CASE join
  BY <1>9 DEF join, OwnerGoes, joinable, loops, history
<1>10. CASE freeThread
  BY <1>10 DEF freeThread, OwnerGoes, Worker, loops, history
<1>11. CASE destroyReturns
  BY <1>11 DEF destroyReturns, OwnerGoes, Worker, loops, history
<1>12. CASE spuriousWakeup
  BY <1>12 DEF spuriousWakeup, OwnerGoes, loops, history
<1>13. CASE destroyPool
  BY <1>13 DEF destroyPool, OwnerGoes, Worker, loops, history
<1>14. ASSUME NEW i \in Worker, setTid(i) PROVE TypeOK'
  BY <1>14 DEF setTid, ThreadGoes, loops, history
<1>15. ASSUME NEW i \in Worker, construct(i) PROVE TypeOK'
  BY <1>15 DEF construct, ThreadGoes, loops, history
<1>16. ASSUME NEW i \in Worker, callbackReturns(i) PROVE TypeOK'
  BY <1>16 DEF callbackReturns, ThreadGoes, loops, history
<1>17. ASSUME NEW i \in Worker, publish(i) PROVE TypeOK'
  BY <1>17 DEF publish, ThreadGoes, woken, loops, history
<1>18. ASSUME NEW i \in Worker, loopEnter(i) PROVE TypeOK'
  BY <1>18 DEF loopEnter, ThreadGoes, loops, history
<1>19. ASSUME NEW i \in Worker, loopTest(i) PROVE TypeOK'
  BY <1>19 DEF loopTest, ThreadGoes, loops, history
<1>20. ASSUME NEW i \in Worker, roundEnds(i) PROVE TypeOK'
  BY <1>20 DEF roundEnds, ThreadGoes, loops, history
<1>21. ASSUME NEW i \in Worker, clear(i) PROVE TypeOK'
  BY <1>21 DEF clear, ThreadGoes, loops, history
<1>22. ASSUME NEW i \in Worker, unlock(i) PROVE TypeOK'
  BY <1>22 DEF unlock, ThreadGoes, loops, history
<1>23. ASSUME NEW i \in Worker, destruct(i) PROVE TypeOK'
  BY <1>23 DEF destruct, ThreadGoes, loops, history
<1>24. ASSUME NEW i \in Worker, poll(i) PROVE TypeOK'
  BY <1>24 DEF poll, ThreadGoes, loops, history
<1>25. ASSUME NEW i \in Worker, userQuits(i) PROVE TypeOK'
  BY <1>25, <1>0 DEF userQuits, OwnerGoes, loops, history
<1>26. ASSUME NEW i \in Worker, quitsItself(i) PROVE TypeOK'
  BY <1>26 DEF quitsItself, loops, history
<1>27. CASE UNCHANGED vars
  BY <1>27 DEF vars, loops, history
<1>28. QED
  BY <1>1, <1>2, <1>3, <1>4, <1>5, <1>6, <1>7, <1>8, <1>9, <1>10, <1>11,
     <1>12, <1>13, <1>14, <1>15, <1>16, <1>17, <1>18, <1>19, <1>20, <1>21,
     <1>22, <1>23, <1>24, <1>25, <1>26, <1>27 DEF Next, OwnerStep, ThreadStep

\* Every variable keeps its type, for any number of threads.
THEOREM TypeCorrect == Spec => []TypeOK
BY TypeInit, TypeNext, PTL DEF Spec
-----------------------------------------------------------------------------
LEMMA PointerNext ==
  TypeOK /\ StartedInTurn /\ PointerIsPublished /\ [Next]_vars
  => PointerIsPublished'
<1> SUFFICES ASSUME TypeOK /\ StartedInTurn /\ PointerIsPublished, [Next]_vars PROVE PointerIsPublished'
  OBVIOUS
<1> USE PoolAssumption DEF TypeOK, OwnerAt, ThreadAt, PointerIsPublished,
    Published
<1>1. CASE start
  BY <1>1 DEF start, OwnerGoes, moreToStart, StartedInTurn, Starting, Worker,
     loops, history
<1>2. CASE semWait
  BY <1>2 DEF semWait, OwnerGoes, tidKnown, loops, history
<1>3. CASE startLoop
  BY <1>3 DEF startLoop, OwnerGoes, mustWait, loops, history
<1>4. CASE startReturns
  BY <1>4 DEF startReturns, OwnerGoes, moreToStart, loops, history
<1>5. CASE wakeup("userWakes", "started")
  BY <1>5 DEF wakeup, OwnerGoes, loops, history
<1>6. CASE destroyThread
  BY <1>6 DEF destroyThread, OwnerGoes, loops, history
<1>7. CASE destructorQuits
  BY <1>7 DEF destructorQuits, OwnerGoes, wakesAfterQuit, loops, history
<1>8. CASE wakeup("waking", "joining")
  BY <1>8 DEF wakeup, OwnerGoes, loops, history
<1>9. CASE join
  BY <1>9 DEF join, OwnerGoes, joinable, loops, history
<1>10. CASE freeThread
  BY <1>10 DEF freeThread, OwnerGoes, loops, history
<1>11. CASE destroyReturns
  BY <1>11 DEF destroyReturns, OwnerGoes, loops, history
<1>12. CASE spuriousWakeup
  BY <1>12 DEF spuriousWakeup, OwnerGoes, loops, history
<1>13. CASE destroyPool
  BY <1>13 DEF destroyPool, OwnerGoes, loops, history
<1>14. ASSUME NEW i \in Worker, setTid(i) PROVE PointerIsPublished'
  BY <1>14 DEF setTid, ThreadGoes, loops, history
<1>15. ASSUME NEW i \in Worker, construct(i) PROVE PointerIsPublished'
  BY <1>15 DEF construct, ThreadGoes, loops, history
<1>16. ASSUME NEW i \in Worker, callbackReturns(i) PROVE PointerIsPublished'
  BY <1>16 DEF callbackReturns, ThreadGoes, loops, history
<1>17. ASSUME NEW i \in Worker, publish(i) PROVE PointerIsPublished'
  BY <1>17 DEF publish, ThreadGoes, woken, loops, history
<1>18. ASSUME NEW i \in Worker, loopEnter(i) PROVE PointerIsPublished'
  BY <1>18 DEF loopEnter, ThreadGoes, loops, history
<1>19. ASSUME NEW i \in Worker, loopTest(i) PROVE PointerIsPublished'
  BY <1>19 DEF loopTest, ThreadGoes, loops, history
<1>20. ASSUME NEW i \in Worker, roundEnds(i) PROVE PointerIsPublished'
  BY <1>20 DEF roundEnds, ThreadGoes, loops, history
<1>21. ASSUME NEW i \in Worker, clear(i) PROVE PointerIsPublished'
  BY <1>21 DEF clear, ThreadGoes, loops, history
<1>22. ASSUME NEW i \in Worker, unlock(i) PROVE PointerIsPublished'
  BY <1>22 DEF unlock, ThreadGoes, loops, history
<1>23. ASSUME NEW i \in Worker, destruct(i) PROVE PointerIsPublished'
  BY <1>23 DEF destruct, ThreadGoes, loops, history
<1>24. ASSUME NEW i \in Worker, poll(i) PROVE PointerIsPublished'
  BY <1>24 DEF poll, ThreadGoes, loops, history
<1>25. ASSUME NEW i \in Worker, userQuits(i) PROVE PointerIsPublished'
  BY <1>25 DEF userQuits, OwnerGoes, loops, history
<1>26. ASSUME NEW i \in Worker, quitsItself(i) PROVE PointerIsPublished'
  BY <1>26 DEF quitsItself, loops, history
<1>27. CASE UNCHANGED vars
  BY <1>27 DEF vars, loops, history
<1>28. QED
  BY <1>1, <1>2, <1>3, <1>4, <1>5, <1>6, <1>7, <1>8, <1>9, <1>10, <1>11,
     <1>12, <1>13, <1>14, <1>15, <1>16, <1>17, <1>18, <1>19, <1>20, <1>21,
     <1>22, <1>23, <1>24, <1>25, <1>26, <1>27 DEF Next, OwnerStep, ThreadStep

LEMMA TurnNext ==
  TypeOK /\ PointerIsPublished /\ StartedInTurn /\ [Next]_vars
  => StartedInTurn'
<1> SUFFICES ASSUME TypeOK /\ PointerIsPublished /\ StartedInTurn, [Next]_vars PROVE StartedInTurn'
  OBVIOUS
<1> USE PoolAssumption DEF TypeOK, OwnerAt, ThreadAt, PointerIsPublished,
    StartedInTurn, Handed, Starting, Published, Left
<1>1. CASE start
  BY <1>1 DEF start, OwnerGoes, moreToStart, Worker, loops, history
<1>2. CASE semWait
  BY <1>2 DEF semWait, OwnerGoes, tidKnown, loops, history
<1>3. CASE startLoop
  BY <1>3 DEF startLoop, OwnerGoes, mustWait, Worker, loops, history
<1>4. CASE startReturns
  BY <1>4 DEF startReturns, OwnerGoes, moreToStart, Worker, loops, history
<1>5. CASE wakeup("userWakes", "started")
  BY <1>5 DEF wakeup, OwnerGoes, loops, history
<1>6. CASE destroyThread
  BY <1>6 DEF destroyThread, OwnerGoes, loops, history
<1>7. CASE destructorQuits
  BY <1>7 DEF destructorQuits, OwnerGoes, wakesAfterQuit, loops, history
<1>8. CASE wakeup("waking", "joining")
  BY <1>8 DEF wakeup, OwnerGoes, loops, history
<1>9. CASE join
  BY <1>9 DEF join, OwnerGoes, joinable, loops, history
<1>10. CASE freeThread
  BY <1>10 DEF freeThread, OwnerGoes, loops, history
<1>11. CASE destroyReturns
  BY <1>11 DEF destroyReturns, OwnerGoes, loops, history
<1>12. CASE spuriousWakeup
  BY <1>12 DEF spuriousWakeup, OwnerGoes, loops, history
<1>13. CASE destroyPool
  BY <1>13 DEF destroyPool, OwnerGoes, loops, history
<1>14. ASSUME NEW i \in Worker, setTid(i) PROVE StartedInTurn'
  BY <1>14 DEF setTid, ThreadGoes, loops, history
<1>15. ASSUME NEW i \in Worker, construct(i) PROVE StartedInTurn'
  BY <1>15 DEF construct, ThreadGoes, loops, history
<1>16. ASSUME NEW i \in Worker, callbackReturns(i) PROVE StartedInTurn'
  BY <1>16 DEF callbackReturns, ThreadGoes, loops, history
<1>17. ASSUME NEW i \in Worker, publish(i) PROVE StartedInTurn'
  BY <1>17 DEF publish, ThreadGoes, woken, loops, history
<1>18. ASSUME NEW i \in Worker, loopEnter(i) PROVE StartedInTurn'
  BY <1>18 DEF loopEnter, ThreadGoes, loops, history
<1>19. ASSUME NEW i \in Worker, loopTest(i) PROVE StartedInTurn'
  BY <1>19 DEF loopTest, ThreadGoes, loops, history
<1>20. ASSUME NEW i \in Worker, roundEnds(i) PROVE StartedInTurn'
  BY <1>20 DEF roundEnds, ThreadGoes, loops, history
<1>21. ASSUME NEW i \in Worker, clear(i) PROVE StartedInTurn'
  BY <1>21 DEF clear, ThreadGoes, loops, history
<1>22. ASSUME NEW i \in Worker, unlock(i) PROVE StartedInTurn'
  BY <1>22 DEF unlock, ThreadGoes, loops, history
<1>23. ASSUME NEW i \in Worker, destruct(i) PROVE StartedInTurn'
  BY <1>23 DEF destruct, ThreadGoes, loops, history
<1>24. ASSUME NEW i \in Worker, poll(i) PROVE StartedInTurn'
  BY <1>24 DEF poll, ThreadGoes, loops, history
<1>25. ASSUME NEW i \in Worker, userQuits(i) PROVE StartedInTurn'
  BY <1>25 DEF userQuits, OwnerGoes, loops, history
<1>26. ASSUME NEW i \in Worker, quitsItself(i) PROVE StartedInTurn'
  BY <1>26 DEF quitsItself, loops, history
<1>27. CASE UNCHANGED vars
  BY <1>27 DEF vars, loops, history
<1>28. QED
  BY <1>1, <1>2, <1>3, <1>4, <1>5, <1>6, <1>7, <1>8, <1>9, <1>10, <1>11,
     <1>12, <1>13, <1>14, <1>15, <1>16, <1>17, <1>18, <1>19, <1>20, <1>21,
     <1>22, <1>23, <1>24, <1>25, <1>26, <1>27 DEF Next, OwnerStep, ThreadStep

LEMMA QuitNext ==
  TypeOK /\ PointerIsPublished /\ StartedInTurn /\ QuitIsCalled /\ [Next]_vars
  => QuitIsCalled'
<1> SUFFICES ASSUME TypeOK /\ PointerIsPublished /\ StartedInTurn /\ QuitIsCalled, [Next]_vars PROVE QuitIsCalled'
  OBVIOUS
<1> USE PoolAssumption DEF TypeOK, OwnerAt, ThreadAt, QuitIsCalled,
    ToldToQuit, Published, Left, Ending
<1>1. CASE start
  BY <1>1 DEF start, OwnerGoes, moreToStart, StartedInTurn, Starting, Worker,
     loops, history
<1>2. CASE semWait
  BY <1>2 DEF semWait, OwnerGoes, tidKnown, loops, history
<1>3. CASE startLoop
  BY <1>3 DEF startLoop, OwnerGoes, mustWait, Worker, loops, history
<1>4. CASE startReturns
  BY <1>4 DEF startReturns, OwnerGoes, moreToStart, loops, history
<1>5. CASE wakeup("userWakes", "started")
  BY <1>5 DEF wakeup, OwnerGoes, loops, history
<1>6. CASE destroyThread
  BY <1>6 DEF destroyThread, OwnerGoes, PointerIsPublished, StartedInTurn,
     Handed, Starting, loops, history
<1>7. CASE destructorQuits
  BY <1>7 DEF destructorQuits, OwnerGoes, wakesAfterQuit, loops, history
<1>8. CASE wakeup("waking", "joining")
  BY <1>8 DEF wakeup, OwnerGoes, loops, history
<1>9. CASE join
  BY <1>9 DEF join, OwnerGoes, joinable, loops, history
<1>10. CASE freeThread
  BY <1>10 DEF freeThread, OwnerGoes, Worker, loops, history
<1>11. CASE destroyReturns
  BY <1>11 DEF destroyReturns, OwnerGoes, Worker, loops, history
<1>12. CASE spuriousWakeup
  BY <1>12 DEF spuriousWakeup, OwnerGoes, loops, history
<1>13. CASE destroyPool
  BY <1>13 DEF destroyPool, OwnerGoes, Worker, loops, history
<1>14. ASSUME NEW i \in Worker, setTid(i) PROVE QuitIsCalled'
  BY <1>14 DEF setTid, ThreadGoes, loops, history
<1>15. ASSUME NEW i \in Worker, construct(i) PROVE QuitIsCalled'
  BY <1>15 DEF construct, ThreadGoes, loops, history
<1>16. ASSUME NEW i \in Worker, callbackReturns(i) PROVE QuitIsCalled'
  BY <1>16 DEF callbackReturns, ThreadGoes, loops, history
<1>17. ASSUME NEW i \in Worker, publish(i) PROVE QuitIsCalled'
  BY <1>17 DEF publish, ThreadGoes, woken, loops, history
<1>18. ASSUME NEW i \in Worker, loopEnter(i) PROVE QuitIsCalled'
  BY <1>18 DEF loopEnter, ThreadGoes, loops, history
<1>19. ASSUME NEW i \in Worker, loopTest(i) PROVE QuitIsCalled'
  BY <1>19 DEF loopTest, ThreadGoes, loops, history
<1>20. ASSUME NEW i \in Worker, roundEnds(i) PROVE QuitIsCalled'
  BY <1>20 DEF roundEnds, ThreadGoes, loops, history
<1>21. ASSUME NEW i \in Worker, clear(i) PROVE QuitIsCalled'
  BY <1>21 DEF clear, ThreadGoes, loops, history
<1>22. ASSUME NEW i \in Worker, unlock(i) PROVE QuitIsCalled'
  BY <1>22 DEF unlock, ThreadGoes, loops, history
<1>23. ASSUME NEW i \in Worker, destruct(i) PROVE QuitIsCalled'
  BY <1>23 DEF destruct, ThreadGoes, loops, history
<1>24. ASSUME NEW i \in Worker, poll(i) PROVE QuitIsCalled'
  BY <1>24 DEF poll, ThreadGoes, loops, history
<1>25. ASSUME NEW i \in Worker, userQuits(i) PROVE QuitIsCalled'
  BY <1>25 DEF userQuits, OwnerGoes, loops, history
<1>26. ASSUME NEW i \in Worker, quitsItself(i) PROVE QuitIsCalled'
  BY <1>26 DEF quitsItself, loops, history
<1>27. CASE UNCHANGED vars
  BY <1>27 DEF vars, loops, history
<1>28. QED
  BY <1>1, <1>2, <1>3, <1>4, <1>5, <1>6, <1>7, <1>8, <1>9, <1>10, <1>11,
     <1>12, <1>13, <1>14, <1>15, <1>16, <1>17, <1>18, <1>19, <1>20, <1>21,
     <1>22, <1>23, <1>24, <1>25, <1>26, <1>27 DEF Next, OwnerStep, ThreadStep

LEMMA FreedNext ==
  TypeOK /\ PointerIsPublished /\ StartedInTurn /\ QuitIsCalled /\ FreedAfterThread /\ [Next]_vars
  => FreedAfterThread'
<1> SUFFICES ASSUME TypeOK /\ PointerIsPublished /\ StartedInTurn /\ QuitIsCalled /\ FreedAfterThread, [Next]_vars PROVE FreedAfterThread'
  OBVIOUS
<1> USE PoolAssumption DEF TypeOK, OwnerAt, ThreadAt, FreedAfterThread,
    ObjectGone
<1>1. CASE start
  BY <1>1 DEF start, OwnerGoes, moreToStart, Worker, loops, history
<1>2. CASE semWait
  BY <1>2 DEF semWait, OwnerGoes, tidKnown, loops, history
<1>3. CASE startLoop
  BY <1>3 DEF startLoop, OwnerGoes, mustWait, Worker, loops, history
<1>4. CASE startReturns
  BY <1>4 DEF startReturns, OwnerGoes, moreToStart, loops, history
<1>5. CASE wakeup("userWakes", "started")
  BY <1>5 DEF wakeup, OwnerGoes, loops, history
<1>6. CASE destroyThread
  BY <1>6 DEF destroyThread, OwnerGoes, PointerIsPublished, StartedInTurn,
     QuitIsCalled, ToldToQuit, Handed, Starting, Ending, Published, Left,
     loops, history
<1>7. CASE destructorQuits
  BY <1>7 DEF destructorQuits, OwnerGoes, wakesAfterQuit, loops, history
<1>8. CASE wakeup("waking", "joining")
  BY <1>8 DEF wakeup, OwnerGoes, loops, history
<1>9. CASE join
  BY <1>9 DEF join, OwnerGoes, joinable, loops, history
<1>10. CASE freeThread
  BY <1>10 DEF freeThread, OwnerGoes, Worker, loops, history
<1>11. CASE destroyReturns
  BY <1>11 DEF destroyReturns, OwnerGoes, Worker, loops, history
<1>12. CASE spuriousWakeup
  BY <1>12 DEF spuriousWakeup, OwnerGoes, loops, history
<1>13. CASE destroyPool
  BY <1>13 DEF destroyPool, OwnerGoes, Worker, loops, history
<1>14. ASSUME NEW i \in Worker, setTid(i) PROVE FreedAfterThread'
  BY <1>14 DEF setTid, ThreadGoes, loops, history
<1>15. ASSUME NEW i \in Worker, construct(i) PROVE FreedAfterThread'
  BY <1>15 DEF construct, ThreadGoes, loops, history
<1>16. ASSUME NEW i \in Worker, callbackReturns(i) PROVE FreedAfterThread'
  BY <1>16 DEF callbackReturns, ThreadGoes, loops, history
<1>17. ASSUME NEW i \in Worker, publish(i) PROVE FreedAfterThread'
  BY <1>17 DEF publish, ThreadGoes, woken, loops, history
<1>18. ASSUME NEW i \in Worker, loopEnter(i) PROVE FreedAfterThread'
  BY <1>18 DEF loopEnter, ThreadGoes, loops, history
<1>19. ASSUME NEW i \in Worker, loopTest(i) PROVE FreedAfterThread'
  BY <1>19 DEF loopTest, ThreadGoes, loops, history
<1>20. ASSUME NEW i \in Worker, roundEnds(i) PROVE FreedAfterThread'
  BY <1>20 DEF roundEnds, ThreadGoes, loops, history
<1>21. ASSUME NEW i \in Worker, clear(i) PROVE FreedAfterThread'
  BY <1>21 DEF clear, ThreadGoes, loops, history
<1>22. ASSUME NEW i \in Worker, unlock(i) PROVE FreedAfterThread'
  BY <1>22 DEF unlock, ThreadGoes, loops, history
<1>23. ASSUME NEW i \in Worker, destruct(i) PROVE FreedAfterThread'
  BY <1>23 DEF destruct, ThreadGoes, loops, history
<1>24. ASSUME NEW i \in Worker, poll(i) PROVE FreedAfterThread'
  BY <1>24 DEF poll, ThreadGoes, loops, history
<1>25. ASSUME NEW i \in Worker, userQuits(i) PROVE FreedAfterThread'
  BY <1>25 DEF userQuits, OwnerGoes, loops, history
<1>26. ASSUME NEW i \in Worker, quitsItself(i) PROVE FreedAfterThread'
  BY <1>26 DEF quitsItself, loops, history
<1>27. CASE UNCHANGED vars
  BY <1>27 DEF vars, loops, history
<1>28. QED
  BY <1>1, <1>2, <1>3, <1>4, <1>5, <1>6, <1>7, <1>8, <1>9, <1>10, <1>11,
     <1>12, <1>13, <1>14, <1>15, <1>16, <1>17, <1>18, <1>19, <1>20, <1>21,
     <1>22, <1>23, <1>24, <1>25, <1>26, <1>27 DEF Next, OwnerStep, ThreadStep

LEMMA WakesNext ==
  TypeOK /\ WakesTheEnded /\ [Next]_vars
  => WakesTheEnded'
<1> SUFFICES ASSUME TypeOK /\ WakesTheEnded, [Next]_vars PROVE WakesTheEnded'
  OBVIOUS
<1> USE PoolAssumption DEF TypeOK, OwnerAt, ThreadAt, WakesTheEnded
<1>1. CASE start
  BY <1>1 DEF start, OwnerGoes, moreToStart, loops, history
<1>2. CASE semWait
  BY <1>2 DEF semWait, OwnerGoes, tidKnown, loops, history
<1>3. CASE startLoop
  BY <1>3 DEF startLoop, OwnerGoes, mustWait, loops, history
<1>4. CASE startReturns
  BY <1>4 DEF startReturns, OwnerGoes, moreToStart, loops, history
<1>5. CASE wakeup("userWakes", "started")
  BY <1>5 DEF wakeup, OwnerGoes, loops, history
<1>6. CASE destroyThread
  BY <1>6 DEF destroyThread, OwnerGoes, loops, history
<1>7. CASE destructorQuits
  BY <1>7 DEF destructorQuits, OwnerGoes, wakesAfterQuit, loops, history
<1>8. CASE wakeup("waking", "joining")
  BY <1>8 DEF wakeup, OwnerGoes, loops, history
<1>9. CASE join
  BY <1>9 DEF join, OwnerGoes, joinable, loops, history
<1>10. CASE freeThread
  BY <1>10 DEF freeThread, OwnerGoes, loops, history
<1>11. CASE destroyReturns
  BY <1>11 DEF destroyReturns, OwnerGoes, loops, history
<1>12. CASE spuriousWakeup
  BY <1>12 DEF spuriousWakeup, OwnerGoes, loops, history
<1>13. CASE destroyPool
  BY <1>13 DEF destroyPool, OwnerGoes, loops, history
<1>14. ASSUME NEW i \in Worker, setTid(i) PROVE WakesTheEnded'
  BY <1>14 DEF setTid, ThreadGoes, loops, history
<1>15. ASSUME NEW i \in Worker, construct(i) PROVE WakesTheEnded'
  BY <1>15 DEF construct, ThreadGoes, loops, history
<1>16. ASSUME NEW i \in Worker, callbackReturns(i) PROVE WakesTheEnded'
  BY <1>16 DEF callbackReturns, ThreadGoes, loops, history
<1>17. ASSUME NEW i \in Worker, publish(i) PROVE WakesTheEnded'
  BY <1>17 DEF publish, ThreadGoes, woken, Worker, loops, history
<1>18. ASSUME NEW i \in Worker, loopEnter(i) PROVE WakesTheEnded'
  BY <1>18 DEF loopEnter, ThreadGoes, loops, history
<1>19. ASSUME NEW i \in Worker, loopTest(i) PROVE WakesTheEnded'
  BY <1>19 DEF loopTest, ThreadGoes, loops, history
<1>20. ASSUME NEW i \in Worker, roundEnds(i) PROVE WakesTheEnded'
  BY <1>20 DEF roundEnds, ThreadGoes, loops, history
<1>21. ASSUME NEW i \in Worker, clear(i) PROVE WakesTheEnded'
  BY <1>21 DEF clear, ThreadGoes, loops, history
<1>22. ASSUME NEW i \in Worker, unlock(i) PROVE WakesTheEnded'
  BY <1>22 DEF unlock, ThreadGoes, loops, history
<1>23. ASSUME NEW i \in Worker, destruct(i) PROVE WakesTheEnded'
  BY <1>23 DEF destruct, ThreadGoes, loops, history
<1>24. ASSUME NEW i \in Worker, poll(i) PROVE WakesTheEnded'
  BY <1>24 DEF poll, ThreadGoes, loops, history
<1>25. ASSUME NEW i \in Worker, userQuits(i) PROVE WakesTheEnded'
  BY <1>25 DEF userQuits, OwnerGoes, loops, history
<1>26. ASSUME NEW i \in Worker, quitsItself(i) PROVE WakesTheEnded'
  BY <1>26 DEF quitsItself, loops, history
<1>27. CASE UNCHANGED vars
  BY <1>27 DEF vars, loops, history
<1>28. QED
  BY <1>1, <1>2, <1>3, <1>4, <1>5, <1>6, <1>7, <1>8, <1>9, <1>10, <1>11,
     <1>12, <1>13, <1>14, <1>15, <1>16, <1>17, <1>18, <1>19, <1>20, <1>21,
     <1>22, <1>23, <1>24, <1>25, <1>26, <1>27 DEF Next, OwnerStep, ThreadStep

LEMMA OrderNext ==
  IInv /\ [Next]_vars
  => EndsInOrder'
<1> SUFFICES ASSUME IInv, [Next]_vars PROVE EndsInOrder'
  OBVIOUS
<1> USE PoolAssumption DEF TypeOK, OwnerAt, ThreadAt, IInv, EndsInOrder
<1>1. CASE start
  BY <1>1 DEF start, OwnerGoes, moreToStart, Defined, loops, history
<1>2. CASE semWait
  BY <1>2 DEF semWait, OwnerGoes, tidKnown, Defined, loops, history
<1>3. CASE startLoop
  BY <1>3 DEF startLoop, OwnerGoes, mustWait, Defined, loops, history
<1>4. CASE startReturns
  BY <1>4 DEF startReturns, OwnerGoes, moreToStart, Defined, loops, history
<1>5. CASE wakeup("userWakes", "started")
  BY <1>5 DEF wakeup, OwnerGoes, WakesTheEnded, Defined, loops, history
<1>6. CASE destroyThread
  BY <1>6 DEF destroyThread, OwnerGoes, Defined, loops, history
<1>7. CASE destructorQuits
  <2>1. /\ owner = "quitting" /\ cur \in Worker /\ touched = "nothing"
        /\ touched' = "nothing" \/ (~loop_[cur] /\ touched' = "loop")
        /\ cur' = cur /\ ended' = ended
    BY <1>7 DEF destructorQuits, OwnerGoes, Defined, history
  <2>2. ASSUME ~loop_[cur] PROVE cur \in ended
    <3>1. thread[cur] \in Left
      BY <2>1, <2>2 DEF PointerIsPublished, StartedInTurn, Handed, Starting
    <3>2. ~ToldToQuit(cur)
      BY <2>1 DEF ToldToQuit
    <3>3. QED
      BY <2>1, <3>1, <3>2 DEF QuitIsCalled
  <2>3. QED
    BY <2>1, <2>2
<1>8. CASE wakeup("waking", "joining")
  BY <1>8 DEF wakeup, OwnerGoes, Defined, loops, history
<1>9. CASE join
  BY <1>9 DEF join, OwnerGoes, joinable, Defined, loops, history
<1>10. CASE freeThread
  BY <1>10 DEF freeThread, OwnerGoes, Defined, loops, history
<1>11. CASE destroyReturns
  BY <1>11 DEF destroyReturns, OwnerGoes, Defined, loops, history
<1>12. CASE spuriousWakeup
  BY <1>12 DEF spuriousWakeup, OwnerGoes, Defined, loops, history
<1>13. CASE destroyPool
  BY <1>13 DEF destroyPool, OwnerGoes, Defined, loops, history
<1>14. ASSUME NEW i \in Worker, setTid(i) PROVE EndsInOrder'
  BY <1>14 DEF setTid, ThreadGoes, Defined, loops, history
<1>15. ASSUME NEW i \in Worker, construct(i) PROVE EndsInOrder'
  BY <1>15 DEF construct, ThreadGoes, Defined, loops, history
<1>16. ASSUME NEW i \in Worker, callbackReturns(i) PROVE EndsInOrder'
  BY <1>16 DEF callbackReturns, ThreadGoes, Defined, loops, history
<1>17. ASSUME NEW i \in Worker, publish(i) PROVE EndsInOrder'
  BY <1>17 DEF publish, ThreadGoes, woken, Defined, loops, history
<1>18. ASSUME NEW i \in Worker, loopEnter(i) PROVE EndsInOrder'
  BY <1>18 DEF loopEnter, ThreadGoes, Defined, loops, history
<1>19. ASSUME NEW i \in Worker, loopTest(i) PROVE EndsInOrder'
  BY <1>19 DEF loopTest, ThreadGoes, Defined, loops, history
<1>20. ASSUME NEW i \in Worker, roundEnds(i) PROVE EndsInOrder'
  BY <1>20 DEF roundEnds, ThreadGoes, Defined, loops, history
<1>21. ASSUME NEW i \in Worker, clear(i) PROVE EndsInOrder'
  <2>1. ObjectGone(i) => i \in ended
    BY <1>21 DEF clear, ThreadGoes, FreedAfterThread
  <2>2. /\ touched' = IF ObjectGone(i) THEN "object" ELSE "nothing"
        /\ UNCHANGED <<owner, cur, ended>> /\ thread'[i] # "done"
    BY <1>21 DEF clear, ThreadGoes, Defined, history
  <2>3. QED
    BY <2>1, <2>2 DEF ObjectGone
<1>22. ASSUME NEW i \in Worker, unlock(i) PROVE EndsInOrder'
  <2>1. ObjectGone(i) => i \in ended
    BY <1>22 DEF unlock, ThreadGoes, FreedAfterThread
  <2>2. /\ touched' = IF ObjectGone(i) THEN "object" ELSE "nothing"
        /\ UNCHANGED <<owner, cur, ended>> /\ thread'[i] # "done"
    BY <1>22 DEF unlock, ThreadGoes, Defined, history
  <2>3. QED
    BY <2>1, <2>2 DEF ObjectGone
<1>23. ASSUME NEW i \in Worker, destruct(i) PROVE EndsInOrder'
  BY <1>23 DEF destruct, ThreadGoes, Defined, loops, history
<1>24. ASSUME NEW i \in Worker, poll(i) PROVE EndsInOrder'
  BY <1>24 DEF poll, ThreadGoes, Defined, loops, history
<1>25. ASSUME NEW i \in Worker, userQuits(i) PROVE EndsInOrder'
  BY <1>25 DEF userQuits, OwnerGoes, Defined, loops, history
<1>26. ASSUME NEW i \in Worker, quitsItself(i) PROVE EndsInOrder'
  BY <1>26 DEF quitsItself, Defined, loops, history
<1>27. CASE UNCHANGED vars
  BY <1>27 DEF vars, ObjectGone, loops, history
<1>28. QED
  BY <1>1, <1>2, <1>3, <1>4, <1>5, <1>6, <1>7, <1>8, <1>9, <1>10, <1>11,
     <1>12, <1>13, <1>14, <1>15, <1>16, <1>17, <1>18, <1>19, <1>20, <1>21,
     <1>22, <1>23, <1>24, <1>25, <1>26, <1>27 DEF Next, OwnerStep, ThreadStep

LEMMA InductiveInit == Init => IInv
<1> SUFFICES ASSUME Init PROVE IInv
  OBVIOUS
<1>1. TypeOK
  BY TypeInit
<1>2. PointerIsPublished /\ QuitIsCalled
  BY DEF Init, PointerIsPublished, Published, QuitIsCalled, Left
<1>3. StartedInTurn
  BY PoolAssumption DEF Init, StartedInTurn, Handed, Starting, Worker
<1>4. FreedAfterThread /\ WakesTheEnded /\ EndsInOrder
  BY DEF Init, FreedAfterThread, ObjectGone, WakesTheEnded, EndsInOrder
<1>5. QED
  BY <1>1, <1>2, <1>3, <1>4 DEF IInv

LEMMA Inductive == IInv /\ [Next]_vars => IInv'
BY TypeNext, PointerNext, TurnNext, QuitNext, FreedNext, WakesNext, OrderNext DEF IInv

LEMMA Invariant == Spec => []IInv
BY InductiveInit, Inductive, PTL DEF Spec

\* Whatever the threads and the user do, what start() has gone past is ready:
\* each thread has its tid_, each loop exists and is published, unless user
\* code has told that loop to quit.
THEOREM StartHandsOutReady == Spec => []StartedIsReady
<1>1. IInv => StartedIsReady
  <2> SUFFICES ASSUME IInv PROVE StartedIsReady
    OBVIOUS
  <2> USE DEF IInv, StartedInTurn, Starting, Handed, Published, Left
  <2>1. ASSUME NEW i \in Worker, i < cur, owner \in Starting \cup {"started"}
        PROVE  /\ thread[i] \in Published \cup Left
               /\ i \notin ended => loop_[i] /\ LoopLives(i)
    <3>1. thread[i] \in Published \cup Left
      BY <2>1
    <3>2. ASSUME i \notin ended PROVE thread[i] \in Published
      BY <2>1, <3>1, <3>2 DEF QuitIsCalled, ToldToQuit, Ending
    <3>3. QED
      BY <3>1, <3>2 DEF PointerIsPublished, LoopLives
  <2>2. QED
    BY <2>1 DEF StartedIsReady
<1>2. QED
  BY <1>1, Invariant, PTL

\* No loop is used before or after its life and no EventLoopThread after its
\* end, but in the two cases the property names, for a pool of any size.
THEOREM LivesEndInOrder == Spec => []EndsInOrder
<1>1. IInv => EndsInOrder
  BY DEF IInv
<1>2. QED
  BY <1>1, Invariant, PTL
=============================================================================
