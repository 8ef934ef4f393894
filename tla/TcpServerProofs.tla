------------------------- MODULE TcpServerProofs -------------------------
(***************************************************************************)
(* For any number of connections, loops, descriptors and names: the server *)
(* tells its user of every connection as ServerCallbacks has it, leaves no *)
(* loop with a channel that nobody owns, and is not used after its end,    *)
(* but for the cases its properties name.                                  *)
(***************************************************************************)
EXTENDS TcpServer, TLAPS

Est(c) == <<"connectEstablished", c>>
Des(c) == <<"connectDestroyed", c>>
Rem(c) == <<"removeConnectionInLoop", c>>
Listen == <<"listen", NoConn>>

In(q, f) == \E i \in DOMAIN q : q[i] = f

\* A functor is queued in a loop, or is in the batch the loop runs.
Queues(l, f) == In(functors[l], f) \/ In(pendingFunctors_[l], f)

\* A functor about a connection is in the queue of its loop, where the functor
\* has a meaning: one that establishes it never in the base loop, one that
\* removes or (in the base loop) destroys it only once it is down.
Meant(f, l) ==
    \/ f = Listen /\ l = Base
    \/ \E c \in Conn :
          \/ f = Est(c) /\ l = conn[c].loop /\ l # Base /\ conn[c].state_ = "kConnecting"
          \/ f = Des(c) /\ l = conn[c].loop /\ conn[c].state_ # "none"
                /\ (l = Base => conn[c].state_ = "kDisconnected")
          \/ f = Rem(c) /\ l = Base /\ conn[c].state_ = "kDisconnected"

FunctorsMeant == \A l \in LoopId, f \in FunctorValue : Queues(l, f) => Meant(f, l)

\* Nothing about a connection comes ahead of its connectEstablished, which is
\* there once at most.
FirstIn(q, c) ==
    \A i, j \in DOMAIN q : i < j /\ q[j] = Est(c) => q[i] # Est(c) /\ q[i] # Des(c)

EstablishedFirst ==
    \A l \in LoopId, c \in Conn :
        /\ FirstIn(functors[l], c)
        /\ FirstIn(pendingFunctors_[l], c)
        /\ In(pendingFunctors_[l], Est(c))
              => ~In(functors[l], Est(c)) /\ ~In(functors[l], Des(c))

\* An entry of connections_ bears the name of its connection.
NamesMatch ==
    \A n \in DOMAIN connections_ :
        conn[connections_[n]].name = n /\ conn[connections_[n]].state_ # "none"

MappedByName(c) ==
    conn[c].name \in DOMAIN connections_ /\ connections_[conn[c].name] = c

\* What is registered, or will be, has somebody who will remove it.
Needs(c) ==
    /\ Defined
    /\ at[conn[c].loop] # "gone"
    /\ conn[c].registered \/ Queues(conn[c].loop, Est(c))

Rooted ==
    \A c \in Conn :
        Needs(c) => MappedByName(c) \/ Queues(conn[c].loop, Des(c)) \/ c \in displaced

\* What the user has been told is what the states say.
ToldByState ==
    \A c \in Conn :
        /\ conn[c].state_ \in {"none", "kConnecting"} => ups[c] = 0 /\ downs[c] = 0
        /\ conn[c].state_ \in {"kConnected", "kDisconnecting"} => ups[c] = 1 /\ downs[c] = 0
        /\ conn[c].state_ = "kDisconnected" => ups[c] = 1 /\ downs[c] = 1

\* A connection is fresh until it is made, and registered while it is up.
ConnsSound ==
    \A c \in Conn :
        /\ conn[c].loop \in {Base} \cup Sub
        /\ c \in waiting => conn[c].state_ = "none"
        /\ conn[c].state_ = "none" => ~conn[c].registered
        /\ conn[c].state_ = "kConnected" => conn[c].registered

\* A batch lasts from the swap to its end.
BatchesRun == \A l \in LoopId : at[l] # "run" => functors[l] = <<>>

\* The order in which things begin and end.
EndsInTurn ==
    /\ started_ = 0 => \A k \in Sub : at[k] = "none"
    /\ server # "gone" => at[Base] # "gone"
    /\ server # "up" /\ ~inside => at[Base] \in {"stopped", "gone"}
    /\ server \in {"joining", "gone"} => Mapped = {}
    /\ server = "gone" => ~listening /\ \A k \in Sub : at[k] \in {"none", "gone"}

\* A sub-loop ends with the server only, and without a registered channel but
\* for those whose connectDestroyed it left in its queue.
LoopsEndEmpty ==
    /\ \A k \in Sub : quit_[k] \/ at[k] \in {"stopped", "gone"} => server \in {"joining", "gone"}
    /\ \A c \in Conn : conn[c].registered => at[conn[c].loop] # "none"
    /\ \A c \in Conn :
          conn[c].registered /\ conn[c].loop \in Sub /\ at[conn[c].loop] = "gone"
              => c \in dropped \cup displaced

IInv ==
    /\ TypeOK
    /\ FunctorsMeant
    /\ EstablishedFirst
    /\ NamesMatch
    /\ Rooted
    /\ ToldByState
    /\ ConnsSound
    /\ BatchesRun
    /\ EndsInTurn
    /\ LoopsEndEmpty
    /\ UsedOnlyAlive
    /\ EveryoneIsTold
-----------------------------------------------------------------------------
(***************************************************************************)
(* Queues.                                                                 *)
(***************************************************************************)
LEMMA InAppend ==
  ASSUME NEW S, NEW q \in Seq(S), NEW e, NEW f
  PROVE  In(Append(q, e), f) <=> In(q, f) \/ f = e
<1>1. /\ DOMAIN Append(q, e) = 1..(Len(q) + 1) /\ DOMAIN q = 1..Len(q) /\ Len(q) \in Nat
      /\ Append(q, e)[Len(q) + 1] = e
      /\ \A i \in DOMAIN q : Append(q, e)[i] = q[i]
  OBVIOUS
<1>2. QED
  BY <1>1 DEF In

LEMMA Tails ==
  ASSUME NEW S, NEW q \in Seq(S), q # <<>>
  PROVE  /\ Tail(q) \in Seq(S) /\ Len(q) \in Nat \ {0} /\ Head(q) = q[1]
         /\ DOMAIN q = 1..Len(q) /\ DOMAIN Tail(q) = 1..(Len(q) - 1)
         /\ \A i \in DOMAIN Tail(q) : Tail(q)[i] = q[i + 1]
OBVIOUS

LEMMA InTail ==
  ASSUME NEW S, NEW q \in Seq(S), q # <<>>, NEW f
  PROVE  In(q, f) <=> In(Tail(q), f) \/ f = Head(q)
<1>1. ASSUME In(q, f), f # Head(q) PROVE In(Tail(q), f)
  <2>1. PICK i \in DOMAIN q : q[i] = f
    BY <1>1 DEF In
  <2>2. i - 1 \in DOMAIN Tail(q) /\ Tail(q)[i - 1] = f
    BY <1>1, <2>1, Tails
  <2>3. QED
    BY <2>2 DEF In
<1>2. ASSUME In(Tail(q), f) PROVE In(q, f)
  <2>1. PICK i \in DOMAIN Tail(q) : Tail(q)[i] = f
    BY <1>2 DEF In
  <2>2. i + 1 \in DOMAIN q /\ q[i + 1] = f
    BY <2>1, Tails
  <2>3. QED
    BY <2>2 DEF In
<1>3. ASSUME f = Head(q) PROVE In(q, f)
  BY <1>3, Tails DEF In
<1>4. QED
  BY <1>1, <1>2, <1>3

LEMMA InEmpty == \A f : ~In(<<>>, f)
BY DEF In

LEMMA FirstAppend ==
  ASSUME NEW S, NEW q \in Seq(S), NEW e, NEW c, FirstIn(q, c),
         e = Est(c) => ~In(q, Est(c)) /\ ~In(q, Des(c))
  PROVE  FirstIn(Append(q, e), c)
<1> SUFFICES ASSUME NEW i \in DOMAIN Append(q, e), NEW j \in DOMAIN Append(q, e),
                    i < j, Append(q, e)[j] = Est(c)
             PROVE  Append(q, e)[i] # Est(c) /\ Append(q, e)[i] # Des(c)
  BY DEF FirstIn
<1>1. /\ DOMAIN Append(q, e) = 1..(Len(q) + 1) /\ DOMAIN q = 1..Len(q) /\ Len(q) \in Nat
      /\ Append(q, e)[Len(q) + 1] = e
      /\ \A k \in DOMAIN q : Append(q, e)[k] = q[k]
  OBVIOUS
<1>2. i \in DOMAIN q /\ Append(q, e)[i] = q[i]
  BY <1>1
<1>3. CASE j \in DOMAIN q
  BY <1>1, <1>2, <1>3 DEF FirstIn
<1>4. CASE j = Len(q) + 1
  BY <1>1, <1>2, <1>4 DEF In
<1>5. QED
  BY <1>1, <1>3, <1>4

LEMMA FirstTail ==
  ASSUME NEW S, NEW q \in Seq(S), q # <<>>, NEW c, FirstIn(q, c)
  PROVE  /\ FirstIn(Tail(q), c)
         /\ Head(q) = Est(c) \/ Head(q) = Des(c) => ~In(Tail(q), Est(c))
<1>1. FirstIn(Tail(q), c)
  <2> SUFFICES ASSUME NEW i \in DOMAIN Tail(q), NEW j \in DOMAIN Tail(q),
                      i < j, Tail(q)[j] = Est(c)
               PROVE  Tail(q)[i] # Est(c) /\ Tail(q)[i] # Des(c)
    BY DEF FirstIn
  <2>1. /\ i + 1 \in DOMAIN q /\ j + 1 \in DOMAIN q /\ i + 1 < j + 1
        /\ q[i + 1] = Tail(q)[i] /\ q[j + 1] = Tail(q)[j]
    BY Tails
  <2>2. QED
    BY <2>1 DEF FirstIn
<1>2. ASSUME Head(q) = Est(c) \/ Head(q) = Des(c), In(Tail(q), Est(c)) PROVE FALSE
  <2>1. PICK j \in DOMAIN Tail(q) : Tail(q)[j] = Est(c)
    BY <1>2 DEF In
  <2>2. 1 \in DOMAIN q /\ j + 1 \in DOMAIN q /\ 1 < j + 1 /\ q[j + 1] = Est(c) /\ q[1] = Head(q)
    BY <2>1, Tails
  <2>3. QED
    BY <1>2, <2>2 DEF FirstIn
<1>3. QED
  BY <1>1, <1>2

LEMMA FirstEmpty == \A c : FirstIn(<<>>, c)
BY DEF FirstIn
-----------------------------------------------------------------------------
(***************************************************************************)
(* Types.                                                                  *)
(***************************************************************************)
LEMMA Loops ==
  ASSUME TypeOK
  PROVE  numThreads_ \in Nat /\ Base \in LoopId /\ Sub \subseteq LoopId /\ Base \notin Sub
BY ServerAssumption DEF TypeOK, LoopId, Base, Sub

LEMMA NextLoop ==
  ASSUME TypeOK, ~pastTheEnd
  PROVE  nextLoop \in LoopId
<1>1. /\ numThreads_ \in Nat /\ next_ \in 0..numThreads_
      /\ 0 \in LoopId /\ 1..numThreads_ \subseteq LoopId
  BY Loops DEF TypeOK, Base, Sub
<1>2. nextLoop = 0 \/ nextLoop \in 1..numThreads_
  BY <1>1 DEF nextLoop, pastTheEnd, Base
<1>3. QED
  BY <1>1, <1>2

LEMMA Functors ==
  /\ Listen \in FunctorValue
  /\ \A c \in Conn : Est(c) \in FunctorValue /\ Des(c) \in FunctorValue /\ Rem(c) \in FunctorValue
BY DEF FunctorValue, FunctorName, Listen, Est, Des, Rem

LEMMA Names ==
  nextConnId_ \in 0..(IdSpace - 1) => nextName \in 0..(IdSpace - 1)
BY ServerAssumption DEF nextName

ConnValue == [state_: State, registered: BOOLEAN, loop: LoopId, name: 0..(IdSpace - 1)]

LEMMA Records ==
  ASSUME NEW r \in ConnValue
  PROVE  /\ established(r) \in ConnValue
         /\ established(r).state_ = "kConnected" /\ established(r).registered
         /\ established(r).loop = r.loop /\ established(r).name = r.name
         /\ destroyed(r) \in ConnValue
         /\ destroyed(r).state_ = IF r.state_ = "kConnected" THEN "kDisconnected" ELSE r.state_
         /\ ~destroyed(r).registered
         /\ destroyed(r).loop = r.loop /\ destroyed(r).name = r.name
         /\ \A s \in State : /\ [r EXCEPT !.state_ = s] \in ConnValue
                             /\ [r EXCEPT !.state_ = s].state_ = s
                             /\ [r EXCEPT !.state_ = s].registered = r.registered
                             /\ [r EXCEPT !.state_ = s].loop = r.loop
                             /\ [r EXCEPT !.state_ = s].name = r.name
<1>1. established(r) \in ConnValue
  BY DEF established, ConnValue, State
<1>2. destroyed(r) \in ConnValue
  BY DEF destroyed, isReported, ConnValue, State
<1>3. QED
  BY <1>1, <1>2 DEF established, destroyed, isReported, ConnValue

LEMMA Queueing ==
  ASSUME TypeOK, NEW l \in LoopId, NEW name, NEW c, <<name, c>> \in FunctorValue
  PROVE  /\ Queued(l, name, c) \in [LoopId -> Seq(FunctorValue)]
         /\ Queued(l, name, c)[l] = Append(pendingFunctors_[l], <<name, c>>)
         /\ \A k \in LoopId : k # l => Queued(l, name, c)[k] = pendingFunctors_[k]
BY DEF Queued, TypeOK

LEMMA Running ==
  ASSUME TypeOK, NEW l \in LoopId, NEW name, NEW c, Runs(l, name, c)
  PROVE  /\ functors' \in [LoopId -> Seq(FunctorValue)]
         /\ functors[l] \in Seq(FunctorValue) /\ functors[l] # <<>>
         /\ Head(functors[l]) = <<name, c>> /\ <<name, c>> \in FunctorValue
         /\ functors'[l] = Tail(functors[l])
         /\ \A k \in LoopId : k # l => functors'[k] = functors[k]
<1>1. functors[l] \in Seq(FunctorValue) /\ functors[l] # <<>> /\ Head(functors[l]) = <<name, c>>
  BY DEF Runs, TypeOK
<1>2. Tail(functors[l]) \in Seq(FunctorValue) /\ Head(functors[l]) \in FunctorValue
  BY <1>1
<1>3. QED
  BY <1>1, <1>2 DEF Runs, TypeOK

LEMMA Erasing ==
  ASSUME NEW name
  PROVE  /\ DOMAIN Erased(name) = DOMAIN connections_ \ {name}
         /\ \A n \in DOMAIN connections_ \ {name} : Erased(name)[n] = connections_[n]
BY DEF Erased

\* TypeOK by groups of variables.
ServerTyped ==
    /\ numThreads_ \in NumThreads
    /\ started_ \in 0..MaxStarts
    /\ server \in {"up", "dtor", "joining", "gone"}
    /\ {inside, listening} \subseteq BOOLEAN
    /\ next_ \in 0..numThreads_
    /\ nextConnId_ \in 0..(IdSpace - 1)
    /\ misused \in {"nothing", "index", "server"}

MapTyped ==
    /\ DOMAIN connections_ \subseteq 0..(IdSpace - 1)
    /\ \A n \in DOMAIN connections_ : connections_[n] \in Conn

LoopsTyped ==
    /\ at \in [LoopId -> {"none", "poll", "run", "stopped", "gone"}]
    /\ quit_ \in [LoopId -> BOOLEAN]
    /\ pendingFunctors_ \in [LoopId -> Seq(FunctorValue)]
    /\ functors \in [LoopId -> Seq(FunctorValue)]

ConnsTyped ==
    /\ conn \in [Conn -> ConnValue]
    /\ waiting \subseteq Conn
    /\ peerGone \subseteq Conn
    /\ {ups, downs} \subseteq [Conn -> Nat]

LostTyped == displaced \subseteq Conn /\ dropped \subseteq Conn

LEMMA Groups == TypeOK <=> ServerTyped /\ MapTyped /\ LoopsTyped /\ ConnsTyped /\ LostTyped
BY DEF TypeOK, ServerTyped, MapTyped, LoopsTyped, ConnsTyped, LostTyped, ConnValue

LEMMA GroupsPrimed ==
  TypeOK' <=> ServerTyped' /\ MapTyped' /\ LoopsTyped' /\ ConnsTyped' /\ LostTyped'
BY DEF TypeOK, ServerTyped, MapTyped, LoopsTyped, ConnsTyped, LostTyped, ConnValue

LEMMA TypeInit == Init => TypeOK
<1> SUFFICES ASSUME Init PROVE TypeOK
  OBVIOUS
<1>1. 1 % IdSpace \in 0..(IdSpace - 1)
  BY ServerAssumption
<1>2. numThreads_ \in Nat /\ Base \in LoopId
  BY ServerAssumption DEF Init, LoopId, Base
<1>3. 0 \in 0..(IdSpace - 1)
  BY ServerAssumption
<1>4. ConnsTyped
  BY <1>2, <1>3 DEF Init, State, ConnsTyped, ConnValue
<1>5. LoopsTyped
  BY DEF Init, LoopsTyped
<1>6. MapTyped
  BY DEF Init, MapTyped
<1>7. ServerTyped
  <2>1. next_ \in 0..numThreads_ /\ started_ \in 0..MaxStarts
    BY <1>2, ServerAssumption DEF Init
  <2>2. inside \in BOOLEAN /\ listening \in BOOLEAN
    BY DEF Init
  <2>3. numThreads_ \in NumThreads /\ server = "up" /\ misused = "nothing" /\ nextConnId_ = 1 % IdSpace
    BY DEF Init
  <2>4. QED
    BY <1>1, <2>1, <2>2, <2>3 DEF ServerTyped
<1>8. LostTyped
  BY DEF Init, LostTyped
<1>9. QED
  BY <1>4, <1>5, <1>6, <1>7, <1>8, Groups

LEMMA ServerNext ==
  TypeOK /\ [Next]_vars
  => ServerTyped'
<1> SUFFICES ASSUME TypeOK, [Next]_vars PROVE ServerTyped'
  OBVIOUS
<1>1. /\ numThreads_ \in Nat /\ Base \in LoopId /\ Sub \subseteq LoopId /\ Base \notin Sub
      /\ nextName \in 0..(IdSpace - 1)
      /\ ServerTyped /\ MapTyped /\ LoopsTyped /\ ConnsTyped
  BY Loops, Names, Groups DEF TypeOK
<1> USE DEF ServerTyped
<1>2. ASSUME NEW onBase \in BOOLEAN, start(onBase) PROVE ServerTyped'
  <2>1. started_' \in 0..MaxStarts
    BY <1>2, <1>1, ServerAssumption DEF start
  <2>2. listening' \in BOOLEAN
    BY <1>2, <1>1 DEF start
  <2>3. QED
    BY <1>2, <2>1, <2>2, <1>1 DEF start
<1>3. ASSUME NEW c \in Conn, newConnection(c) PROVE ServerTyped'
  BY <1>3, <1>1 DEF newConnection, pastTheEnd, nextAfter, serverVars
<1>4. ASSUME NEW l \in LoopId, doPendingFunctors(l) PROVE ServerTyped'
  BY <1>4, <1>1 DEF doPendingFunctors, serverVars, acceptor
<1>5. ASSUME NEW l \in LoopId, endOfBatch(l) PROVE ServerTyped'
  BY <1>5, <1>1 DEF endOfBatch, serverVars, acceptor
<1>6. ASSUME NEW l \in LoopId, loopGone(l) PROVE ServerTyped'
  BY <1>6, <1>1 DEF loopGone, serverVars, acceptor
<1>7. ASSUME NEW l \in LoopId, NEW c \in Conn, connectEstablished(l, c) PROVE ServerTyped'
  BY <1>7, <1>1 DEF connectEstablished, Runs, Establish, serverVars
<1>8. ASSUME NEW l \in LoopId, NEW c \in Conn, connectDestroyed(l, c) PROVE ServerTyped'
  BY <1>8, <1>1 DEF connectDestroyed, Runs, Destroy, destroyed, isReported,
     serverVars
<1>9. ASSUME NEW c \in Conn, removeConnectionInLoop(c) PROVE ServerTyped'
  BY <1>9, <1>1 DEF removeConnectionInLoop, Runs, serverVars
<1>10. ASSUME NEW c \in Conn, handleClose(c) PROVE ServerTyped'
  BY <1>10, <1>1 DEF handleClose, serverVars, acceptor
<1>11. CASE listen
  BY <1>11, <1>1 DEF listen, Runs, serverVars
<1>12. CASE quit
  BY <1>12, <1>1 DEF quit, serverVars, acceptor
<1>13. CASE destroyServer
  BY <1>13, <1>1 DEF destroyServer, acceptor
<1>14. ASSUME NEW c \in Conn, destroyConnection(c) PROVE ServerTyped'
  BY <1>14, <1>1 DEF destroyConnection, Destroy, destroyed, isReported,
     serverVars, acceptor
<1>15. ASSUME NEW l \in Sub, quitLoop(l) PROVE ServerTyped'
  BY <1>15, <1>1 DEF quitLoop, acceptor
<1>16. CASE serverGone
  BY <1>16, <1>1 DEF serverGone
<1>17. ASSUME NEW c \in Conn, shutdown(c) PROVE ServerTyped'
  BY <1>17, <1>1 DEF shutdown, serverVars, acceptor
<1>18. ASSUME NEW c \in Conn, peerConnects(c) PROVE ServerTyped'
  BY <1>18, <1>1 DEF peerConnects, serverVars, acceptor
<1>19. ASSUME NEW c \in Conn, peerGoes(c) PROVE ServerTyped'
  BY <1>19, <1>1 DEF peerGoes, serverVars, acceptor
<1>20. CASE UNCHANGED vars
  BY <1>20, <1>1 DEF vars, ServerTyped, serverVars, acceptor
<1>21. QED
  BY <1>2, <1>3, <1>4, <1>5, <1>6, <1>7, <1>8, <1>9, <1>10, <1>11, <1>12, <1>13,
     <1>14, <1>15, <1>16, <1>17, <1>18, <1>19, <1>20 DEF Next, Accepts,
     LoopStep, DestructorStep

LEMMA MapNext ==
  TypeOK /\ [Next]_vars
  => MapTyped'
<1> SUFFICES ASSUME TypeOK, [Next]_vars PROVE MapTyped'
  OBVIOUS
<1>1. /\ numThreads_ \in Nat /\ Base \in LoopId /\ Sub \subseteq LoopId /\ Base \notin Sub
      /\ nextName \in 0..(IdSpace - 1)
      /\ ServerTyped /\ MapTyped /\ LoopsTyped /\ ConnsTyped
  BY Loops, Names, Groups DEF TypeOK
<1>2. ASSUME NEW onBase \in BOOLEAN, start(onBase) PROVE MapTyped'
  BY <1>2, <1>1 DEF start, MapTyped, ServerTyped
<1>3. ASSUME NEW c \in Conn, newConnection(c) PROVE MapTyped'
  BY <1>3, <1>1 DEF newConnection, MapTyped, ServerTyped
<1>4. ASSUME NEW l \in LoopId, doPendingFunctors(l) PROVE MapTyped'
  BY <1>4, <1>1 DEF doPendingFunctors, MapTyped, ServerTyped
<1>5. ASSUME NEW l \in LoopId, endOfBatch(l) PROVE MapTyped'
  BY <1>5, <1>1 DEF endOfBatch, MapTyped, ServerTyped
<1>6. ASSUME NEW l \in LoopId, loopGone(l) PROVE MapTyped'
  BY <1>6, <1>1 DEF loopGone, MapTyped, ServerTyped
<1>7. ASSUME NEW l \in LoopId, NEW c \in Conn, connectEstablished(l, c) PROVE MapTyped'
  BY <1>7, <1>1 DEF connectEstablished, Establish, MapTyped, ServerTyped
<1>8. ASSUME NEW l \in LoopId, NEW c \in Conn, connectDestroyed(l, c) PROVE MapTyped'
  BY <1>8, <1>1 DEF connectDestroyed, Destroy, destroyed, isReported, MapTyped,
     ServerTyped
<1>9. ASSUME NEW c \in Conn, removeConnectionInLoop(c) PROVE MapTyped'
  BY <1>9, <1>1 DEF removeConnectionInLoop, Removes, Erased, MapTyped,
     ServerTyped
<1>10. ASSUME NEW c \in Conn, handleClose(c) PROVE MapTyped'
  BY <1>10, <1>1 DEF handleClose, Removes, Erased, MapTyped, ServerTyped
<1>11. CASE listen
  BY <1>11, <1>1 DEF listen, MapTyped, ServerTyped
<1>12. CASE quit
  BY <1>12, <1>1 DEF quit, MapTyped, ServerTyped
<1>13. CASE destroyServer
  BY <1>13, <1>1 DEF destroyServer, MapTyped, ServerTyped
<1>14. ASSUME NEW c \in Conn, destroyConnection(c) PROVE MapTyped'
  BY <1>14, <1>1, Erasing DEF destroyConnection, Destroy, destroyed, isReported,
     MapTyped, ServerTyped
<1>15. ASSUME NEW l \in Sub, quitLoop(l) PROVE MapTyped'
  BY <1>15, <1>1 DEF quitLoop, MapTyped, ServerTyped
<1>16. CASE serverGone
  BY <1>16, <1>1 DEF serverGone, MapTyped, ServerTyped
<1>17. ASSUME NEW c \in Conn, shutdown(c) PROVE MapTyped'
  BY <1>17, <1>1 DEF shutdown, MapTyped, ServerTyped
<1>18. ASSUME NEW c \in Conn, peerConnects(c) PROVE MapTyped'
  BY <1>18, <1>1 DEF peerConnects, MapTyped, ServerTyped
<1>19. ASSUME NEW c \in Conn, peerGoes(c) PROVE MapTyped'
  BY <1>19, <1>1 DEF peerGoes, MapTyped, ServerTyped
<1>20. CASE UNCHANGED vars
  BY <1>20, <1>1 DEF vars, MapTyped
<1>21. QED
  BY <1>2, <1>3, <1>4, <1>5, <1>6, <1>7, <1>8, <1>9, <1>10, <1>11, <1>12, <1>13,
     <1>14, <1>15, <1>16, <1>17, <1>18, <1>19, <1>20 DEF Next, Accepts,
     LoopStep, DestructorStep

LEMMA LoopsNext ==
  TypeOK /\ [Next]_vars
  => LoopsTyped'
<1> SUFFICES ASSUME TypeOK, [Next]_vars PROVE LoopsTyped'
  OBVIOUS
<1>1. /\ numThreads_ \in Nat /\ Base \in LoopId /\ Sub \subseteq LoopId /\ Base \notin Sub
      /\ nextName \in 0..(IdSpace - 1)
      /\ ServerTyped /\ MapTyped /\ LoopsTyped /\ ConnsTyped
  BY Loops, Names, Groups DEF TypeOK
<1>2. ASSUME NEW onBase \in BOOLEAN, start(onBase) PROVE LoopsTyped'
  <2>1. Queued(Base, "listen", NoConn) \in [LoopId -> Seq(FunctorValue)]
    BY <1>1, Functors, Queueing DEF Listen
  <2>2. pendingFunctors_' \in [LoopId -> Seq(FunctorValue)]
    BY <1>2, <2>1, <1>1 DEF start, LoopsTyped
  <2>3. QED
    BY <1>2, <2>2, <1>1 DEF start, LoopsTyped
<1>3. ASSUME NEW c \in Conn, newConnection(c) PROVE LoopsTyped'
  <2>1. CASE pastTheEnd
    BY <1>3, <2>1, <1>1 DEF newConnection, LoopsTyped, loops
  <2>2. CASE ~pastTheEnd
    <3>1. nextLoop \in LoopId
      BY <2>2, NextLoop
    <3>2. Queued(nextLoop, "connectEstablished", c) \in [LoopId -> Seq(FunctorValue)]
      BY <1>1, <3>1, Functors, Queueing DEF Est
    <3>3. QED
      BY <1>3, <2>2, <3>2, <1>1 DEF newConnection, LoopsTyped, loops
  <2>3. QED
    BY <2>1, <2>2
<1>4. ASSUME NEW l \in LoopId, doPendingFunctors(l) PROVE LoopsTyped'
  BY <1>4, <1>1 DEF doPendingFunctors, LoopsTyped
<1>5. ASSUME NEW l \in LoopId, endOfBatch(l) PROVE LoopsTyped'
  BY <1>5, <1>1 DEF endOfBatch, LoopsTyped, queues
<1>6. ASSUME NEW l \in LoopId, loopGone(l) PROVE LoopsTyped'
  BY <1>6, <1>1 DEF loopGone, LoopsTyped
<1>7. ASSUME NEW l \in LoopId, NEW c \in Conn, connectEstablished(l, c) PROVE LoopsTyped'
  BY <1>7, Running, <1>1 DEF connectEstablished, Runs, LoopsTyped, loops
<1>8. ASSUME NEW l \in LoopId, NEW c \in Conn, connectDestroyed(l, c) PROVE LoopsTyped'
  BY <1>8, Running, <1>1 DEF connectDestroyed, Runs, LoopsTyped, loops
<1>9. ASSUME NEW c \in Conn, removeConnectionInLoop(c) PROVE LoopsTyped'
  <2>1. Base \in LoopId /\ conn[c].loop \in LoopId
    BY <1>1 DEF ConnsTyped, ConnValue
  <2>2. Queued(conn[c].loop, "connectDestroyed", c) \in [LoopId -> Seq(FunctorValue)]
    BY <1>1, <2>1, Functors, Queueing DEF Des
  <2>3. functors' \in [LoopId -> Seq(FunctorValue)]
    BY <1>9, <2>1, Running DEF removeConnectionInLoop
  <2>4. QED
    BY <1>9, <2>2, <2>3, <1>1 DEF removeConnectionInLoop, Runs, Removes, LoopsTyped, loops
<1>10. ASSUME NEW c \in Conn, handleClose(c) PROVE LoopsTyped'
  <2>1. Base \in LoopId /\ conn[c].loop \in LoopId
    BY <1>1 DEF ConnsTyped, ConnValue
  <2>2. /\ Queued(conn[c].loop, "connectDestroyed", c) \in [LoopId -> Seq(FunctorValue)]
        /\ Queued(Base, "removeConnectionInLoop", c) \in [LoopId -> Seq(FunctorValue)]
    BY <1>1, <2>1, Functors, Queueing DEF Des, Rem
  <2>3. QED
    BY <1>10, <2>2, <1>1 DEF handleClose, Removes, LoopsTyped, loops
<1>11. CASE listen
  BY <1>11, Running, <1>1 DEF listen, Runs, LoopsTyped, loops
<1>12. CASE quit
  BY <1>12, <1>1 DEF quit, LoopsTyped, queues
<1>13. CASE destroyServer
  BY <1>13, <1>1 DEF destroyServer, LoopsTyped, queues, loops
<1>14. ASSUME NEW c \in Conn, destroyConnection(c) PROVE LoopsTyped'
  <2>1. conn[c].loop \in LoopId
    BY <1>1 DEF ConnsTyped, ConnValue
  <2>2. Queued(conn[c].loop, "connectDestroyed", c) \in [LoopId -> Seq(FunctorValue)]
    BY <1>1, <2>1, Functors, Queueing DEF Des
  <2>3. QED
    BY <1>14, <2>2, <1>1 DEF destroyConnection, handedOver, LoopsTyped, loops
<1>15. ASSUME NEW l \in Sub, quitLoop(l) PROVE LoopsTyped'
  BY <1>15, <1>1 DEF quitLoop, LoopsTyped, queues
<1>16. CASE serverGone
  BY <1>16, <1>1 DEF serverGone, LoopsTyped, queues, loops
<1>17. ASSUME NEW c \in Conn, shutdown(c) PROVE LoopsTyped'
  BY <1>17, <1>1 DEF shutdown, LoopsTyped, queues, loops
<1>18. ASSUME NEW c \in Conn, peerConnects(c) PROVE LoopsTyped'
  BY <1>18, <1>1 DEF peerConnects, LoopsTyped, queues, loops
<1>19. ASSUME NEW c \in Conn, peerGoes(c) PROVE LoopsTyped'
  BY <1>19, <1>1 DEF peerGoes, LoopsTyped, queues, loops
<1>20. CASE UNCHANGED vars
  BY <1>20, <1>1 DEF vars, LoopsTyped, queues, loops
<1>21. QED
  BY <1>2, <1>3, <1>4, <1>5, <1>6, <1>7, <1>8, <1>9, <1>10, <1>11, <1>12, <1>13,
     <1>14, <1>15, <1>16, <1>17, <1>18, <1>19, <1>20 DEF Next, Accepts,
     LoopStep, DestructorStep

LEMMA ConnsNext ==
  TypeOK /\ [Next]_vars
  => ConnsTyped'
<1> SUFFICES ASSUME TypeOK, [Next]_vars PROVE ConnsTyped'
  OBVIOUS
<1>1. /\ numThreads_ \in Nat /\ Base \in LoopId /\ Sub \subseteq LoopId /\ Base \notin Sub
      /\ nextName \in 0..(IdSpace - 1)
      /\ ServerTyped /\ MapTyped /\ LoopsTyped /\ ConnsTyped
  BY Loops, Names, Groups DEF TypeOK
<1>2. ASSUME NEW onBase \in BOOLEAN, start(onBase) PROVE ConnsTyped'
  BY <1>2, <1>1 DEF start, ConnsTyped, world, told
<1>3. ASSUME NEW c \in Conn, newConnection(c) PROVE ConnsTyped'
  <2> DEFINE made == [state_ |-> "kConnecting", registered |-> FALSE,
                      loop |-> nextLoop, name |-> nextConnId_]
  <2>1. CASE pastTheEnd
    BY <1>3, <2>1, <1>1 DEF newConnection, ConnsTyped, told
  <2>2. CASE ~pastTheEnd
    <3>1. made \in ConnValue
      BY <2>2, <1>1 DEF nextLoop, pastTheEnd, ServerTyped, Sub, ConnValue, State
    <3>2. established(made) \in ConnValue
      BY <3>1, Records
    <3>3. conn' \in [Conn -> ConnValue]
      BY <1>3, <2>2, <3>1, <3>2, <1>1 DEF newConnection, ConnsTyped
    <3>4. QED
      BY <1>3, <2>2, <3>3, <1>1 DEF newConnection, ConnsTyped
  <2>3. QED
    BY <2>1, <2>2
<1>4. ASSUME NEW l \in LoopId, doPendingFunctors(l) PROVE ConnsTyped'
  BY <1>4, <1>1 DEF doPendingFunctors, ConnsTyped, world, told
<1>5. ASSUME NEW l \in LoopId, endOfBatch(l) PROVE ConnsTyped'
  BY <1>5, <1>1 DEF endOfBatch, ConnsTyped, world, told
<1>6. ASSUME NEW l \in LoopId, loopGone(l) PROVE ConnsTyped'
  BY <1>6, <1>1 DEF loopGone, ConnsTyped, world, told
<1>7. ASSUME NEW l \in LoopId, NEW c \in Conn, connectEstablished(l, c) PROVE ConnsTyped'
  <2>1. established(conn[c]) \in ConnValue
    BY <1>1, Records DEF ConnsTyped
  <2>2. QED
    BY <1>7, <2>1, <1>1 DEF connectEstablished, Runs, Establish, ConnsTyped, world
<1>8. ASSUME NEW l \in LoopId, NEW c \in Conn, connectDestroyed(l, c) PROVE ConnsTyped'
  <2>1. destroyed(conn[c]) \in ConnValue
    BY <1>1, Records DEF ConnsTyped
  <2>2. QED
    BY <1>8, <2>1, <1>1 DEF connectDestroyed, Runs, Destroy, ConnsTyped, world
<1>9. ASSUME NEW c \in Conn, removeConnectionInLoop(c) PROVE ConnsTyped'
  BY <1>9, <1>1 DEF removeConnectionInLoop, Runs, ConnsTyped, world, told
<1>10. ASSUME NEW c \in Conn, handleClose(c) PROVE ConnsTyped'
  <2>1. [conn[c] EXCEPT !.state_ = "kDisconnected"] \in ConnValue
    <3>1. conn[c] \in ConnValue /\ "kDisconnected" \in State
      BY <1>1 DEF ConnsTyped, State
    <3>2. QED
      BY <3>1, Records
  <2>2. QED
    BY <1>10, <2>1, <1>1 DEF handleClose, ConnsTyped, world
<1>11. CASE listen
  BY <1>11, <1>1 DEF listen, Runs, ConnsTyped, world, told
<1>12. CASE quit
  BY <1>12, <1>1 DEF quit, ConnsTyped, world, told
<1>13. CASE destroyServer
  BY <1>13, <1>1 DEF destroyServer, ConnsTyped, world, told
<1>14. ASSUME NEW c \in Conn, destroyConnection(c) PROVE ConnsTyped'
  <2>1. destroyed(conn[c]) \in ConnValue
    BY <1>1, Records DEF ConnsTyped
  <2>2. QED
    BY <1>14, <2>1, <1>1 DEF destroyConnection, Destroy, ConnsTyped, world, told
<1>15. ASSUME NEW l \in Sub, quitLoop(l) PROVE ConnsTyped'
  BY <1>15, <1>1 DEF quitLoop, ConnsTyped, world, told
<1>16. CASE serverGone
  BY <1>16, <1>1 DEF serverGone, ConnsTyped, world, told
<1>17. ASSUME NEW c \in Conn, shutdown(c) PROVE ConnsTyped'
  <2>1. [conn[c] EXCEPT !.state_ = "kDisconnecting"] \in ConnValue
    <3>1. conn[c] \in ConnValue /\ "kDisconnecting" \in State
      BY <1>1 DEF ConnsTyped, State
    <3>2. QED
      BY <3>1, Records
  <2>2. QED
    BY <1>17, <2>1, <1>1 DEF shutdown, ConnsTyped, world, told
<1>18. ASSUME NEW c \in Conn, peerConnects(c) PROVE ConnsTyped'
  BY <1>18, <1>1 DEF peerConnects, ConnsTyped, told
<1>19. ASSUME NEW c \in Conn, peerGoes(c) PROVE ConnsTyped'
  BY <1>19, <1>1 DEF peerGoes, ConnsTyped, told
<1>20. CASE UNCHANGED vars
  BY <1>20, <1>1 DEF vars, ConnsTyped, world, told
<1>21. QED
  BY <1>2, <1>3, <1>4, <1>5, <1>6, <1>7, <1>8, <1>9, <1>10, <1>11, <1>12, <1>13,
     <1>14, <1>15, <1>16, <1>17, <1>18, <1>19, <1>20 DEF Next, Accepts,
     LoopStep, DestructorStep

\* Whom the entry of a name is lost to.
LEMMA DisplacedIs ==
  ASSUME NEW name, NEW c
  PROVE  /\ displaced \subseteq Displaced(name, c)
         /\ Displaced(name, c) \subseteq displaced \cup Mapped
         /\ name \in DOMAIN connections_ /\ connections_[name] # c
              => connections_[name] \in Displaced(name, c)
BY DEF Displaced, Mapped

\* The histories only grow.
LostGrows ==
    /\ displaced \subseteq displaced' /\ displaced' \subseteq displaced \cup Mapped
    /\ dropped \subseteq dropped' /\ dropped' \subseteq dropped \cup Conn

LEMMA LostNext == [Next]_vars => LostGrows
<1> SUFFICES ASSUME [Next]_vars PROVE LostGrows
  OBVIOUS
<1>2. ASSUME NEW onBase \in BOOLEAN, start(onBase) PROVE LostGrows
  BY <1>2 DEF start, LostGrows, lost
<1>3. ASSUME NEW c \in Conn, newConnection(c) PROVE LostGrows
  BY <1>3, DisplacedIs DEF newConnection, LostGrows
<1>4. ASSUME NEW l \in LoopId, doPendingFunctors(l) PROVE LostGrows
  BY <1>4 DEF doPendingFunctors, LostGrows, lost
<1>5. ASSUME NEW l \in LoopId, endOfBatch(l) PROVE LostGrows
  BY <1>5 DEF endOfBatch, LostGrows, lost
<1>6. ASSUME NEW l \in LoopId, loopGone(l) PROVE LostGrows
  BY <1>6 DEF loopGone, LostGrows, lost
<1>7. ASSUME NEW l \in LoopId, NEW c \in Conn, connectEstablished(l, c) PROVE LostGrows
  BY <1>7 DEF connectEstablished, LostGrows, lost
<1>8. ASSUME NEW l \in LoopId, NEW c \in Conn, connectDestroyed(l, c) PROVE LostGrows
  BY <1>8 DEF connectDestroyed, LostGrows, lost
<1>9. ASSUME NEW c \in Conn, removeConnectionInLoop(c) PROVE LostGrows
  BY <1>9, DisplacedIs DEF removeConnectionInLoop, Removes, LostGrows
<1>10. ASSUME NEW c \in Conn, handleClose(c) PROVE LostGrows
  BY <1>10, DisplacedIs DEF handleClose, Removes, LostGrows
<1>11. CASE listen
  BY <1>11 DEF listen, LostGrows, lost
<1>12. CASE quit
  BY <1>12 DEF quit, LostGrows, lost
<1>13. CASE destroyServer
  BY <1>13 DEF destroyServer, LostGrows, lost
<1>14. ASSUME NEW c \in Conn, destroyConnection(c) PROVE LostGrows
  BY <1>14 DEF destroyConnection, LostGrows, lost
<1>15. ASSUME NEW l \in Sub, quitLoop(l) PROVE LostGrows
  BY <1>15 DEF quitLoop, LostGrows, lost
<1>16. CASE serverGone
  BY <1>16 DEF serverGone, LostGrows, lost
<1>17. ASSUME NEW c \in Conn, shutdown(c) PROVE LostGrows
  BY <1>17 DEF shutdown, LostGrows, lost
<1>18. ASSUME NEW c \in Conn, peerConnects(c) PROVE LostGrows
  BY <1>18 DEF peerConnects, LostGrows, lost
<1>19. ASSUME NEW c \in Conn, peerGoes(c) PROVE LostGrows
  BY <1>19 DEF peerGoes, LostGrows, lost
<1>20. CASE UNCHANGED vars
  BY <1>20 DEF vars, LostGrows, lost
<1>21. QED
  BY <1>2, <1>3, <1>4, <1>5, <1>6, <1>7, <1>8, <1>9, <1>10, <1>11, <1>12, <1>13,
     <1>14, <1>15, <1>16, <1>17, <1>18, <1>19, <1>20 DEF Next, Accepts,
     LoopStep, DestructorStep

LEMMA TypeNext == TypeOK /\ [Next]_vars => TypeOK'
<1> SUFFICES ASSUME TypeOK, [Next]_vars PROVE TypeOK'
  OBVIOUS
<1>1. Mapped \subseteq Conn /\ LostTyped
  BY Groups DEF Mapped, MapTyped
<1>2. LostTyped'
  BY <1>1, LostNext DEF LostGrows, LostTyped
<1>3. QED
  BY <1>2, ServerNext, MapNext, LoopsNext, ConnsNext, GroupsPrimed

\* Every variable keeps its type, for any threads, descriptors and names.
THEOREM TypeCorrect == Spec => []TypeOK
BY TypeInit, TypeNext, PTL DEF Spec
-----------------------------------------------------------------------------
(***************************************************************************)
(* What is in the queues.                                                  *)
(***************************************************************************)
LEMMA Queues1 ==
  ASSUME TypeOK, NEW l \in LoopId, NEW name, NEW c, <<name, c>> \in FunctorValue,
         pendingFunctors_' = Queued(l, name, c)
  PROVE  \A k \in LoopId : \A f :
            In(pendingFunctors_'[k], f) <=>
               In(pendingFunctors_[k], f) \/ (k = l /\ f = <<name, c>>)
<1> SUFFICES ASSUME NEW k \in LoopId, NEW f
             PROVE  In(pendingFunctors_'[k], f) <=>
                       In(pendingFunctors_[k], f) \/ (k = l /\ f = <<name, c>>)
  OBVIOUS
<1>1. CASE k = l
  <2>1. pendingFunctors_[l] \in Seq(FunctorValue)
    BY DEF TypeOK
  <2>2. pendingFunctors_'[l] = Append(pendingFunctors_[l], <<name, c>>)
    BY Queueing
  <2>3. QED
    BY <1>1, <2>1, <2>2, InAppend
<1>2. CASE k # l
  BY <1>2, Queueing
<1>3. QED
  BY <1>1, <1>2

LEMMA Runs1 ==
  ASSUME TypeOK, NEW l \in LoopId, NEW name, NEW c, Runs(l, name, c)
  PROVE  /\ In(functors[l], <<name, c>>)
         /\ \A k \in LoopId : \A f :
               In(functors[k], f) <=>
                  In(functors'[k], f) \/ (k = l /\ f = <<name, c>>)
<1>1. ASSUME NEW f PROVE In(functors[l], f) <=> In(functors'[l], f) \/ f = <<name, c>>
  <2>1. /\ functors[l] \in Seq(FunctorValue) /\ functors[l] # <<>>
        /\ Head(functors[l]) = <<name, c>> /\ functors'[l] = Tail(functors[l])
    BY Running
  <2>2. QED
    BY <2>1, InTail
<1>2. ASSUME NEW k \in LoopId, k # l PROVE functors'[k] = functors[k]
  BY <1>2, Running
<1>3. ASSUME NEW k \in LoopId, NEW f
      PROVE  In(functors[k], f) <=> In(functors'[k], f) \/ (k = l /\ f = <<name, c>>)
  BY <1>1, <1>2
<1>4. In(functors[l], <<name, c>>)
  BY <1>1
<1>5. QED
  BY <1>3, <1>4

LEMMA Distinct ==
  ASSUME NEW c, NEW d
  PROVE  /\ Est(c) = Est(d) <=> c = d
         /\ Des(c) = Des(d) <=> c = d
         /\ Rem(c) = Rem(d) <=> c = d
         /\ Est(c) # Des(d) /\ Est(c) # Rem(d) /\ Des(c) # Rem(d)
         /\ Listen # Est(c) /\ Listen # Des(c) /\ Listen # Rem(c)
BY DEF Est, Des, Rem, Listen

\* What is about to run has a meaning.
LEMMA RunsMeant ==
  ASSUME IInv, NEW l \in LoopId, NEW name, NEW c, Runs(l, name, c)
  PROVE  Meant(<<name, c>>, l)
<1>1. In(functors[l], <<name, c>>) /\ <<name, c>> \in FunctorValue
  BY Runs1, Running DEF IInv
<1>2. QED
  BY <1>1 DEF IInv, FunctorsMeant, Queues

LEMMA MeantEst ==
  ASSUME NEW l, NEW c
  PROVE  Meant(Est(c), l) <=>
           c \in Conn /\ l = conn[c].loop /\ l # Base /\ conn[c].state_ = "kConnecting"
BY Distinct DEF Meant

LEMMA MeantDes ==
  ASSUME NEW l, NEW c
  PROVE  Meant(Des(c), l) <=>
           c \in Conn /\ l = conn[c].loop /\ conn[c].state_ # "none"
             /\ (l = Base => conn[c].state_ = "kDisconnected")
BY Distinct DEF Meant

LEMMA MeantRem ==
  ASSUME NEW l, NEW c
  PROVE  Meant(Rem(c), l) <=> c \in Conn /\ l = Base /\ conn[c].state_ = "kDisconnected"
BY Distinct DEF Meant

\* connectEstablished runs once: its functor is not queued any more.
LEMMA EstablishedOnce ==
  ASSUME IInv, NEW l \in LoopId, NEW c, connectEstablished(l, c)
  PROVE  /\ c \in Conn /\ l = conn[c].loop /\ l # Base /\ conn[c].state_ = "kConnecting"
         /\ \A k \in LoopId : ~Queues(k, Est(c))'
<1>1. Runs(l, "connectEstablished", c) /\ pendingFunctors_' = pendingFunctors_
  BY DEF connectEstablished
<1>2. c \in Conn /\ l = conn[c].loop /\ l # Base /\ conn[c].state_ = "kConnecting"
  BY <1>1, RunsMeant, MeantEst DEF Est
<1>3. TypeOK /\ FunctorsMeant /\ EstablishedFirst
  BY DEF IInv
<1>4. /\ functors[l] \in Seq(FunctorValue) /\ functors[l] # <<>>
      /\ Head(functors[l]) = Est(c) /\ Est(c) \in FunctorValue /\ functors'[l] = Tail(functors[l])
  BY <1>1, <1>3, Running DEF Est
<1>5. In(functors[l], Est(c))
  BY <1>1, <1>3, Runs1 DEF Est
<1>6. ~In(functors'[l], Est(c)) /\ ~In(pendingFunctors_[l], Est(c))
  BY <1>2, <1>3, <1>4, <1>5, FirstTail DEF EstablishedFirst
<1>7. ASSUME NEW k \in LoopId, k # l PROVE ~Queues(k, Est(c))'
  <2>1. ~Queues(k, Est(c))
    BY <1>2, <1>3, <1>4, <1>7, MeantEst DEF FunctorsMeant
  <2>2. functors'[k] = functors[k]
    BY <1>1, <1>3, <1>7, Running
  <2>3. QED
    BY <1>1, <2>1, <2>2 DEF Queues
<1>8. ~Queues(l, Est(c))'
  BY <1>1, <1>6 DEF Queues
<1>9. QED
  BY <1>2, <1>7, <1>8

\* How a connection moves on.
Moves(d) ==
    /\ conn[d].state_ # "none" => /\ conn'[d].state_ # "none"
                                  /\ conn'[d].loop = conn[d].loop
                                  /\ conn'[d].name = conn[d].name
    /\ conn[d].state_ = "kDisconnected" => conn'[d].state_ = "kDisconnected"
    /\ conn[d].state_ = "kConnecting" =>
          conn'[d].state_ = "kConnecting" \/ \A k \in LoopId : ~Queues(k, Est(d))'

LEMMA MovesNext ==
  IInv /\ [Next]_vars => \A d \in Conn : Moves(d)
<1> SUFFICES ASSUME IInv, [Next]_vars PROVE \A d \in Conn : Moves(d)
  OBVIOUS
<1>1. /\ TypeOK /\ FunctorsMeant /\ EstablishedFirst /\ NamesMatch /\ Rooted
      /\ ToldByState /\ ConnsSound /\ BatchesRun /\ EndsInTurn
      /\ LoopsEndEmpty /\ UsedOnlyAlive /\ EveryoneIsTold
      /\ numThreads_ \in Nat /\ Base \in LoopId /\ Sub \subseteq LoopId /\ Base \notin Sub
      /\ conn \in [Conn -> ConnValue]
  BY Loops, Groups DEF IInv, ConnsTyped
<1>2. ASSUME NEW onBase \in BOOLEAN, start(onBase) PROVE \A d \in Conn : Moves(d)
  BY <1>2, <1>1 DEF start, Moves
<1>3. ASSUME NEW c \in Conn, newConnection(c) PROVE \A d \in Conn : Moves(d)
  <2>1. conn[c].state_ = "none"
    BY <1>3, <1>1 DEF newConnection, ConnsSound
  <2>2. \A d \in Conn : d # c => conn'[d] = conn[d]
    BY <1>3, <1>1 DEF newConnection
  <2>3. QED
    BY <2>1, <2>2 DEF Moves
<1>4. ASSUME NEW l \in LoopId, doPendingFunctors(l) PROVE \A d \in Conn : Moves(d)
  BY <1>4, <1>1 DEF doPendingFunctors, Moves
<1>5. ASSUME NEW l \in LoopId, endOfBatch(l) PROVE \A d \in Conn : Moves(d)
  BY <1>5, <1>1 DEF endOfBatch, Moves
<1>6. ASSUME NEW l \in LoopId, loopGone(l) PROVE \A d \in Conn : Moves(d)
  BY <1>6, <1>1 DEF loopGone, Moves
<1>7. ASSUME NEW l \in LoopId, NEW c \in Conn, connectEstablished(l, c) PROVE \A d \in Conn : Moves(d)
  <2>1. conn'[c] = established(conn[c]) /\ \A d \in Conn : d # c => conn'[d] = conn[d]
    BY <1>7, <1>1 DEF connectEstablished, Establish
  <2>2. /\ conn'[c].state_ = "kConnected" /\ conn[c].state_ = "kConnecting"
        /\ conn'[c].loop = conn[c].loop /\ conn'[c].name = conn[c].name
    BY <1>7, <1>1, <2>1, Records, EstablishedOnce
  <2>3. \A k \in LoopId : ~Queues(k, Est(c))'
    BY <1>7, EstablishedOnce
  <2>4. QED
    BY <2>1, <2>2, <2>3 DEF Moves
<1>8. ASSUME NEW l \in LoopId, NEW c \in Conn, connectDestroyed(l, c) PROVE \A d \in Conn : Moves(d)
  <2>1. conn'[c] = destroyed(conn[c]) /\ \A d \in Conn : d # c => conn'[d] = conn[d]
    BY <1>8, <1>1 DEF connectDestroyed, Destroy
  <2>2. QED
    BY <1>1, <2>1, Records DEF Moves
<1>9. ASSUME NEW c \in Conn, removeConnectionInLoop(c) PROVE \A d \in Conn : Moves(d)
  BY <1>9, <1>1 DEF removeConnectionInLoop, Moves
<1>10. ASSUME NEW c \in Conn, handleClose(c) PROVE \A d \in Conn : Moves(d)
  <2>1. /\ conn'[c] = [conn[c] EXCEPT !.state_ = "kDisconnected"]
        /\ \A d \in Conn : d # c => conn'[d] = conn[d]
    BY <1>10, <1>1 DEF handleClose
  <2>2. conn[c].state_ # "kConnecting"
    BY <1>10 DEF handleClose
  <2>3. /\ conn'[c].state_ = "kDisconnected"
        /\ conn'[c].loop = conn[c].loop /\ conn'[c].name = conn[c].name
    BY <1>1, <2>1 DEF ConnValue
  <2>4. QED
    BY <2>1, <2>2, <2>3 DEF Moves
<1>11. CASE listen
  BY <1>11, <1>1 DEF listen, Moves
<1>12. CASE quit
  BY <1>12, <1>1 DEF quit, Moves
<1>13. CASE destroyServer
  BY <1>13, <1>1 DEF destroyServer, Moves
<1>14. ASSUME NEW c \in Conn, destroyConnection(c) PROVE \A d \in Conn : Moves(d)
  <2>1. CASE conn' = conn
    BY <2>1 DEF Moves
  <2>2. CASE Destroy(c)
    <3>1. conn'[c] = destroyed(conn[c]) /\ \A d \in Conn : d # c => conn'[d] = conn[d]
      BY <2>2, <1>1 DEF Destroy
    <3>2. QED
      BY <1>1, <3>1, Records DEF Moves
  <2>3. QED
    BY <1>14, <2>1, <2>2 DEF destroyConnection
<1>15. ASSUME NEW l \in Sub, quitLoop(l) PROVE \A d \in Conn : Moves(d)
  BY <1>15, <1>1 DEF quitLoop, Moves
<1>16. CASE serverGone
  BY <1>16, <1>1 DEF serverGone, Moves
<1>17. ASSUME NEW c \in Conn, shutdown(c) PROVE \A d \in Conn : Moves(d)
  <2>1. /\ conn'[c] = [conn[c] EXCEPT !.state_ = "kDisconnecting"]
        /\ \A d \in Conn : d # c => conn'[d] = conn[d]
    BY <1>17, <1>1 DEF shutdown
  <2>2. conn[c].state_ = "kConnected"
    BY <1>17 DEF shutdown
  <2>3. /\ conn'[c].state_ = "kDisconnecting"
        /\ conn'[c].loop = conn[c].loop /\ conn'[c].name = conn[c].name
    BY <1>1, <2>1 DEF ConnValue
  <2>4. QED
    BY <2>1, <2>2, <2>3 DEF Moves
<1>18. ASSUME NEW c \in Conn, peerConnects(c) PROVE \A d \in Conn : Moves(d)
  BY <1>18, <1>1 DEF peerConnects, Moves
<1>19. ASSUME NEW c \in Conn, peerGoes(c) PROVE \A d \in Conn : Moves(d)
  BY <1>19, <1>1 DEF peerGoes, Moves
<1>20. CASE UNCHANGED vars
  BY <1>20, <1>1 DEF vars, Moves
<1>21. QED
  BY <1>2, <1>3, <1>4, <1>5, <1>6, <1>7, <1>8, <1>9, <1>10, <1>11, <1>12, <1>13,
     <1>14, <1>15, <1>16, <1>17, <1>18, <1>19, <1>20 DEF Next, Accepts,
     LoopStep, DestructorStep


LEMMA MeantStays ==
  ASSUME IInv, [Next]_vars, NEW l \in LoopId, NEW f, Meant(f, l), Queues(l, f)'
  PROVE  Meant(f, l)'
<1>1. \A d \in Conn : Moves(d)
  BY MovesNext
<1>2. CASE f = Listen /\ l = Base
  BY <1>2 DEF Meant
<1>3. ASSUME NEW c \in Conn, f = Est(c), l = conn[c].loop, l # Base, conn[c].state_ = "kConnecting"
      PROVE  Meant(f, l)'
  <2>1. conn'[c].state_ = "kConnecting" /\ conn'[c].loop = l
    BY <1>1, <1>3 DEF Moves
  <2>2. QED
    BY <1>3, <2>1 DEF Meant
<1>4. ASSUME NEW c \in Conn, f = Des(c), l = conn[c].loop, conn[c].state_ # "none",
             l = Base => conn[c].state_ = "kDisconnected"
      PROVE  Meant(f, l)'
  <2>1. /\ conn'[c].state_ # "none" /\ conn'[c].loop = l
        /\ l = Base => conn'[c].state_ = "kDisconnected"
    BY <1>1, <1>4 DEF Moves
  <2>2. QED
    BY <1>4, <2>1 DEF Meant
<1>5. ASSUME NEW c \in Conn, f = Rem(c), l = Base, conn[c].state_ = "kDisconnected"
      PROVE  Meant(f, l)'
  <2>1. conn'[c].state_ = "kDisconnected"
    BY <1>1, <1>5 DEF Moves
  <2>2. QED
    BY <1>5, <2>1 DEF Meant
<1>6. QED
  BY <1>2, <1>3, <1>4, <1>5 DEF Meant

\* What an action puts into a queue has a meaning there.
Novel == \A l \in LoopId : \A f : Queues(l, f)' => Queues(l, f) \/ Meant(f, l)'

LEMMA NovelNext == IInv /\ [Next]_vars => Novel
<1> SUFFICES ASSUME IInv, [Next]_vars PROVE Novel
  OBVIOUS
<1>1. /\ TypeOK /\ FunctorsMeant /\ EstablishedFirst /\ NamesMatch /\ Rooted
      /\ ToldByState /\ ConnsSound /\ BatchesRun /\ EndsInTurn
      /\ LoopsEndEmpty /\ UsedOnlyAlive /\ EveryoneIsTold
      /\ numThreads_ \in Nat /\ Base \in LoopId /\ Sub \subseteq LoopId /\ Base \notin Sub
      /\ conn \in [Conn -> ConnValue]
  BY Loops, Groups DEF IInv, ConnsTyped
<1>2. ASSUME NEW onBase \in BOOLEAN, start(onBase) PROVE Novel
  <2>1. pendingFunctors_' = pendingFunctors_ \/ pendingFunctors_' = Queued(Base, "listen", NoConn)
    BY <1>2 DEF start
  <2>2. Meant(Listen, Base)'
    BY DEF Meant
  <2>3. functors' = functors
    BY <1>2 DEF start
  <2>4. QED
    BY <1>1, <2>1, <2>2, <2>3, Functors, Queues1 DEF Novel, Queues, Listen
<1>3. ASSUME NEW c \in Conn, newConnection(c) PROVE Novel
  <2>1. functors' = functors
    BY <1>3 DEF newConnection
  <2>2. CASE pendingFunctors_' = pendingFunctors_
    BY <2>1, <2>2 DEF Novel, Queues
  <2>3. CASE pendingFunctors_' # pendingFunctors_
    <3>1. /\ ~pastTheEnd /\ nextLoop # Base
          /\ pendingFunctors_' = Queued(nextLoop, "connectEstablished", c)
          /\ conn'[c].state_ = "kConnecting" /\ conn'[c].loop = nextLoop
      BY <1>3, <2>3, <1>1 DEF newConnection
    <3>2. PICK k \in LoopId : k = nextLoop
      BY <1>1, <3>1, NextLoop
    <3>3. Meant(Est(c), k)'
      BY <3>1, <3>2 DEF Meant
    <3>4. /\ Est(c) \in FunctorValue /\ Est(c) = <<"connectEstablished", c>>
          /\ pendingFunctors_' = Queued(k, "connectEstablished", c)
      BY <3>1, <3>2, Functors DEF Est
    <3>5. \A m \in LoopId : \A f :
             In(pendingFunctors_'[m], f) <=> In(pendingFunctors_[m], f) \/ (m = k /\ f = Est(c))
      BY <1>1, <3>4, Queues1
    <3>6. QED
      BY <2>1, <3>3, <3>5 DEF Novel, Queues
  <2>4. QED
    BY <2>2, <2>3
<1>4. ASSUME NEW l \in LoopId, doPendingFunctors(l) PROVE Novel
  <2>1. \A k \in LoopId :
           \/ functors'[k] = functors[k] /\ pendingFunctors_'[k] = pendingFunctors_[k]
           \/ functors'[k] = pendingFunctors_[k] /\ pendingFunctors_'[k] = <<>>
    BY <1>4, <1>1 DEF doPendingFunctors, TypeOK
  <2>2. QED
    BY <2>1, InEmpty DEF Novel, Queues
<1>5. ASSUME NEW l \in LoopId, endOfBatch(l) PROVE Novel
  BY <1>5, <1>1 DEF endOfBatch, Novel, Queues, queues
<1>6. ASSUME NEW l \in LoopId, loopGone(l) PROVE Novel
  <2>1. /\ functors' = functors
        /\ \A k \in LoopId : pendingFunctors_'[k] = pendingFunctors_[k] \/ pendingFunctors_'[k] = <<>>
    BY <1>6, <1>1 DEF loopGone
  <2>2. QED
    BY <2>1, InEmpty DEF Novel, Queues
<1>7. ASSUME NEW l \in LoopId, NEW c \in Conn, connectEstablished(l, c) PROVE Novel
  <2>1. Runs(l, "connectEstablished", c) /\ pendingFunctors_' = pendingFunctors_
    BY <1>7 DEF connectEstablished
  <2>2. QED
    BY <1>1, <2>1, Runs1 DEF Novel, Queues
<1>8. ASSUME NEW l \in LoopId, NEW c \in Conn, connectDestroyed(l, c) PROVE Novel
  <2>1. Runs(l, "connectDestroyed", c) /\ pendingFunctors_' = pendingFunctors_
    BY <1>8 DEF connectDestroyed
  <2>2. QED
    BY <1>1, <2>1, Runs1 DEF Novel, Queues
<1>9. ASSUME NEW c \in Conn, removeConnectionInLoop(c) PROVE Novel
  <2>1. Runs(Base, "removeConnectionInLoop", c)
    BY <1>9 DEF removeConnectionInLoop
  <2>2. CASE pendingFunctors_' = pendingFunctors_
    BY <1>1, <2>1, <2>2, Runs1 DEF Novel, Queues
  <2>3. CASE pendingFunctors_' = Queued(conn[c].loop, "connectDestroyed", c)
    <3>1. c \in Conn /\ conn[c].state_ = "kDisconnected" /\ conn[c].loop \in LoopId
      BY <1>1, <2>1, RunsMeant, MeantRem DEF Rem, ConnValue
    <3>2. conn' = conn
      BY <1>9 DEF removeConnectionInLoop
    <3>3. PICK k \in LoopId : k = conn[c].loop
      BY <3>1
    <3>4. Meant(Des(c), k)'
      BY <3>1, <3>2, <3>3 DEF Meant
    <3>5. /\ Des(c) \in FunctorValue /\ Des(c) = <<"connectDestroyed", c>>
          /\ pendingFunctors_' = Queued(k, "connectDestroyed", c)
      BY <2>3, <3>1, <3>3, Functors DEF Des
    <3>6. \A m \in LoopId : \A f :
             In(pendingFunctors_'[m], f) <=> In(pendingFunctors_[m], f) \/ (m = k /\ f = Des(c))
      BY <1>1, <3>5, Queues1
    <3>7. \A m \in LoopId : \A f : In(functors'[m], f) => In(functors[m], f)
      BY <1>1, <2>1, Runs1
    <3>8. QED
      BY <3>4, <3>6, <3>7 DEF Novel, Queues
  <2>4. QED
    BY <1>9, <2>2, <2>3 DEF removeConnectionInLoop, Removes
<1>10. ASSUME NEW c \in Conn, handleClose(c) PROVE Novel
  <2>1. functors' = functors
    BY <1>10 DEF handleClose
  <2>2. /\ conn'[c].state_ = "kDisconnected" /\ conn'[c].loop = conn[c].loop
        /\ conn[c].loop \in LoopId
    BY <1>10, <1>1 DEF handleClose, ConnValue
  <2>3. CASE pendingFunctors_' = pendingFunctors_
    BY <2>1, <2>3 DEF Novel, Queues
  <2>4. CASE pendingFunctors_' = Queued(conn[c].loop, "connectDestroyed", c)
    <3>1. Meant(Des(c), conn[c].loop)'
      BY <2>2 DEF Meant
    <3>2. QED
      BY <1>1, <2>1, <2>2, <2>4, <3>1, Functors, Queues1 DEF Novel, Queues, Des
  <2>5. CASE pendingFunctors_' = Queued(Base, "removeConnectionInLoop", c)
    <3>1. Meant(Rem(c), Base)'
      BY <2>2 DEF Meant
    <3>2. QED
      BY <1>1, <2>1, <2>5, <3>1, Functors, Queues1 DEF Novel, Queues, Rem
  <2>6. QED
    BY <1>10, <2>3, <2>4, <2>5 DEF handleClose, Removes
<1>11. CASE listen
  <2>1. Runs(Base, "listen", NoConn) /\ pendingFunctors_' = pendingFunctors_
    BY <1>11 DEF listen
  <2>2. QED
    BY <1>1, <2>1, Runs1 DEF Novel, Queues
<1>12. CASE quit
  BY <1>12, <1>1 DEF quit, Novel, Queues, queues
<1>13. CASE destroyServer
  BY <1>13, <1>1 DEF destroyServer, Novel, Queues, queues
<1>14. ASSUME NEW c \in Conn, destroyConnection(c) PROVE Novel
  <2>1. functors' = functors
    BY <1>14 DEF destroyConnection
  <2>2. CASE pendingFunctors_' = pendingFunctors_
    BY <2>1, <2>2 DEF Novel, Queues
  <2>3. CASE pendingFunctors_' = Queued(conn[c].loop, "connectDestroyed", c) /\ conn[c].loop # Base /\ conn' = conn
    <3>1. conn[c].state_ # "none"
      BY <1>14, <1>1 DEF destroyConnection, Mapped, NamesMatch
    <3>2. conn[c].loop \in LoopId
      BY <1>1 DEF ConnValue
    <3>3. Meant(Des(c), conn[c].loop)'
      BY <2>3, <3>1 DEF Meant
    <3>4. QED
      BY <1>1, <2>1, <2>3, <3>2, <3>3, Functors, Queues1 DEF Novel, Queues, Des
  <2>4. QED
    BY <1>14, <2>2, <2>3 DEF destroyConnection, handedOver
<1>15. ASSUME NEW l \in Sub, quitLoop(l) PROVE Novel
  BY <1>15, <1>1 DEF quitLoop, Novel, Queues, queues
<1>16. CASE serverGone
  BY <1>16, <1>1 DEF serverGone, Novel, Queues, queues
<1>17. ASSUME NEW c \in Conn, shutdown(c) PROVE Novel
  BY <1>17, <1>1 DEF shutdown, Novel, Queues, queues
<1>18. ASSUME NEW c \in Conn, peerConnects(c) PROVE Novel
  BY <1>18, <1>1 DEF peerConnects, Novel, Queues, queues
<1>19. ASSUME NEW c \in Conn, peerGoes(c) PROVE Novel
  BY <1>19, <1>1 DEF peerGoes, Novel, Queues, queues
<1>20. CASE UNCHANGED vars
  BY <1>20, <1>1 DEF vars, Novel, Queues, queues
<1>21. QED
  BY <1>2, <1>3, <1>4, <1>5, <1>6, <1>7, <1>8, <1>9, <1>10, <1>11, <1>12, <1>13,
     <1>14, <1>15, <1>16, <1>17, <1>18, <1>19, <1>20 DEF Next, Accepts,
     LoopStep, DestructorStep

LEMMA MeantNext == IInv /\ [Next]_vars => FunctorsMeant'
<1> SUFFICES ASSUME IInv, [Next]_vars, NEW l \in LoopId, NEW f \in FunctorValue, Queues(l, f)'
             PROVE  Meant(f, l)'
  BY DEF FunctorsMeant
<1>1. Queues(l, f) \/ Meant(f, l)'
  BY NovelNext DEF Novel
<1>2. Queues(l, f) => Meant(f, l)
  BY DEF IInv, FunctorsMeant
<1>3. QED
  BY <1>1, <1>2, MeantStays

LEMMA NamesNext ==
  IInv /\ [Next]_vars
  => NamesMatch'
<1> SUFFICES ASSUME IInv, [Next]_vars PROVE NamesMatch'
  OBVIOUS
<1>1. /\ TypeOK /\ FunctorsMeant /\ EstablishedFirst /\ NamesMatch /\ Rooted
      /\ ToldByState /\ ConnsSound /\ BatchesRun /\ EndsInTurn
      /\ LoopsEndEmpty /\ UsedOnlyAlive /\ EveryoneIsTold
      /\ numThreads_ \in Nat /\ Base \in LoopId /\ Sub \subseteq LoopId /\ Base \notin Sub
      /\ conn \in [Conn -> ConnValue]
  BY Loops, Groups DEF IInv, ConnsTyped
<1>m. \A d \in Conn : Moves(d)
  BY MovesNext
<1>2. ASSUME NEW onBase \in BOOLEAN, start(onBase) PROVE NamesMatch'
  BY <1>2, <1>1, <1>m DEF start, NamesMatch, Moves
<1>3. ASSUME NEW c \in Conn, newConnection(c) PROVE NamesMatch'
  <2>1. CASE pastTheEnd
    BY <1>3, <2>1, <1>1 DEF newConnection, NamesMatch
  <2>2. CASE ~pastTheEnd
    <3>1. conn'[c].state_ # "none" /\ conn'[c].name = nextConnId_ /\ conn[c].state_ = "none"
      <4>1. conn[c].state_ = "none"
        BY <1>3, <1>1 DEF newConnection, ConnsSound
      <4>2. CASE nextLoop = Base
        <5>1. conn'[c] = established([state_ |-> "kConnecting", registered |-> FALSE,
                                      loop |-> nextLoop, name |-> nextConnId_])
          BY <1>3, <2>2, <4>2, <1>1 DEF newConnection
        <5>2. QED
          BY <4>1, <5>1 DEF established
      <4>3. CASE nextLoop # Base
        <5>1. conn'[c] = [state_ |-> "kConnecting", registered |-> FALSE,
                          loop |-> nextLoop, name |-> nextConnId_]
          BY <1>3, <2>2, <4>3, <1>1 DEF newConnection
        <5>2. QED
          BY <4>1, <5>1
      <4>4. QED
        BY <4>2, <4>3
    <3>2. \A d \in Conn : d # c => conn'[d] = conn[d]
      BY <1>3, <1>1 DEF newConnection
    <3>3. /\ DOMAIN connections_' = DOMAIN connections_ \cup {nextConnId_}
          /\ \A n \in DOMAIN connections_' :
                connections_'[n] = IF n = nextConnId_ THEN c ELSE connections_[n]
      BY <1>3, <2>2 DEF newConnection
    <3>4. ASSUME NEW n \in DOMAIN connections_'
          PROVE  conn'[connections_'[n]].name = n /\ conn'[connections_'[n]].state_ # "none"
      <4>1. CASE n = nextConnId_
        BY <3>1, <3>3, <4>1
      <4>2. CASE n # nextConnId_
        <5>1. n \in DOMAIN connections_ /\ connections_'[n] = connections_[n]
          BY <3>3, <3>4, <4>2
        <5>2. /\ connections_[n] \in Conn /\ conn[connections_[n]].name = n
              /\ conn[connections_[n]].state_ # "none"
          BY <1>1, <5>1 DEF NamesMatch, TypeOK
        <5>3. QED
          BY <3>1, <3>2, <5>1, <5>2
      <4>3. QED
        BY <4>1, <4>2
    <3>5. QED
      BY <3>4 DEF NamesMatch
  <2>3. QED
    BY <2>1, <2>2
<1>4. ASSUME NEW l \in LoopId, doPendingFunctors(l) PROVE NamesMatch'
  BY <1>4, <1>1, <1>m DEF doPendingFunctors, NamesMatch, Moves
<1>5. ASSUME NEW l \in LoopId, endOfBatch(l) PROVE NamesMatch'
  BY <1>5, <1>1, <1>m DEF endOfBatch, NamesMatch, Moves
<1>6. ASSUME NEW l \in LoopId, loopGone(l) PROVE NamesMatch'
  BY <1>6, <1>1, <1>m DEF loopGone, NamesMatch, Moves
<1>7. ASSUME NEW l \in LoopId, NEW c \in Conn, connectEstablished(l, c) PROVE NamesMatch'
  BY <1>7, <1>1, <1>m DEF connectEstablished, Establish, NamesMatch, Moves
<1>8. ASSUME NEW l \in LoopId, NEW c \in Conn, connectDestroyed(l, c) PROVE NamesMatch'
  BY <1>8, <1>1, <1>m DEF connectDestroyed, Destroy, destroyed, isReported,
     NamesMatch, Moves
<1>9. ASSUME NEW c \in Conn, removeConnectionInLoop(c) PROVE NamesMatch'
  BY <1>9, <1>1, <1>m DEF removeConnectionInLoop, Removes, Erased, NamesMatch,
     Moves
<1>10. ASSUME NEW c \in Conn, handleClose(c) PROVE NamesMatch'
  BY <1>10, <1>1, <1>m DEF handleClose, Removes, Erased, NamesMatch, Moves
<1>11. CASE listen
  BY <1>11, <1>1, <1>m DEF listen, NamesMatch, Moves
<1>12. CASE quit
  BY <1>12, <1>1, <1>m DEF quit, NamesMatch, Moves
<1>13. CASE destroyServer
  BY <1>13, <1>1, <1>m DEF destroyServer, NamesMatch, Moves
<1>14. ASSUME NEW c \in Conn, destroyConnection(c) PROVE NamesMatch'
  BY <1>14, <1>1, <1>m DEF destroyConnection, Destroy, destroyed, isReported,
     Erased, NamesMatch, Moves, TypeOK
<1>15. ASSUME NEW l \in Sub, quitLoop(l) PROVE NamesMatch'
  BY <1>15, <1>1, <1>m DEF quitLoop, NamesMatch, Moves
<1>16. CASE serverGone
  BY <1>16, <1>1, <1>m DEF serverGone, NamesMatch, Moves
<1>17. ASSUME NEW c \in Conn, shutdown(c) PROVE NamesMatch'
  BY <1>17, <1>1, <1>m DEF shutdown, NamesMatch, Moves
<1>18. ASSUME NEW c \in Conn, peerConnects(c) PROVE NamesMatch'
  BY <1>18, <1>1, <1>m DEF peerConnects, NamesMatch, Moves
<1>19. ASSUME NEW c \in Conn, peerGoes(c) PROVE NamesMatch'
  BY <1>19, <1>1, <1>m DEF peerGoes, NamesMatch, Moves
<1>20. CASE UNCHANGED vars
  BY <1>20, <1>1, <1>m DEF vars, NamesMatch, Moves
<1>21. QED
  BY <1>2, <1>3, <1>4, <1>5, <1>6, <1>7, <1>8, <1>9, <1>10, <1>11, <1>12, <1>13,
     <1>14, <1>15, <1>16, <1>17, <1>18, <1>19, <1>20 DEF Next, Accepts,
     LoopStep, DestructorStep

LEMMA FirstKeeps ==
  ASSUME EstablishedFirst,
         \A k \in LoopId, d \in Conn :
            /\ FirstIn(functors'[k], d)
            /\ FirstIn(pendingFunctors_'[k], d)
            /\ In(pendingFunctors_'[k], Est(d)) => In(pendingFunctors_[k], Est(d))
            /\ \A f : In(functors'[k], f) => In(functors[k], f)
  PROVE  EstablishedFirst'
BY DEF EstablishedFirst

\* A functor that is no connectEstablished is appended.
LEMMA FirstQueued ==
  ASSUME TypeOK, EstablishedFirst, NEW l \in LoopId, NEW name, NEW c,
         <<name, c>> \in FunctorValue, name # "connectEstablished",
         pendingFunctors_' = Queued(l, name, c)
  PROVE  \A k \in LoopId, d \in Conn :
            /\ FirstIn(pendingFunctors_'[k], d)
            /\ In(pendingFunctors_'[k], Est(d)) => In(pendingFunctors_[k], Est(d))
<1> SUFFICES ASSUME NEW k \in LoopId, NEW d \in Conn
             PROVE  /\ FirstIn(pendingFunctors_'[k], d)
                    /\ In(pendingFunctors_'[k], Est(d)) => In(pendingFunctors_[k], Est(d))
  OBVIOUS
<1>1. <<name, c>> # Est(d)
  BY DEF Est
<1>2. pendingFunctors_[k] \in Seq(FunctorValue) /\ FirstIn(pendingFunctors_[k], d)
  BY DEF TypeOK, EstablishedFirst
<1>3. FirstIn(pendingFunctors_'[k], d)
  <2>1. CASE k = l
    <3>1. pendingFunctors_'[k] = Append(pendingFunctors_[k], <<name, c>>)
      BY <2>1, Queueing
    <3>2. QED
      BY <1>1, <1>2, <3>1, FirstAppend
  <2>2. CASE k # l
    BY <1>2, <2>2, Queueing
  <2>3. QED
    BY <2>1, <2>2
<1>4. QED
  BY <1>1, <1>3, Queues1

LEMMA FirstRuns ==
  ASSUME TypeOK, EstablishedFirst, NEW l \in LoopId, NEW name, NEW c, Runs(l, name, c)
  PROVE  \A k \in LoopId, d \in Conn :
            /\ FirstIn(functors'[k], d)
            /\ \A f : In(functors'[k], f) => In(functors[k], f)
<1> SUFFICES ASSUME NEW k \in LoopId, NEW d \in Conn
             PROVE  FirstIn(functors'[k], d)
  BY Runs1
<1>1. FirstIn(functors[k], d)
  BY DEF EstablishedFirst
<1>2. CASE k = l
  BY <1>1, <1>2, Running, FirstTail
<1>3. CASE k # l
  BY <1>1, <1>3, Running
<1>4. QED
  BY <1>2, <1>3

LEMMA FirstNext == IInv /\ [Next]_vars => EstablishedFirst'
<1> SUFFICES ASSUME IInv, [Next]_vars
             PROVE  EstablishedFirst'
  OBVIOUS
<1>1. /\ TypeOK /\ FunctorsMeant /\ EstablishedFirst /\ NamesMatch /\ Rooted
      /\ ToldByState /\ ConnsSound /\ BatchesRun /\ EndsInTurn
      /\ LoopsEndEmpty /\ UsedOnlyAlive /\ EveryoneIsTold
      /\ numThreads_ \in Nat /\ Base \in LoopId /\ Sub \subseteq LoopId /\ Base \notin Sub
      /\ conn \in [Conn -> ConnValue]
  BY Loops, Groups DEF IInv, ConnsTyped
<1>2. ASSUME NEW onBase \in BOOLEAN, start(onBase) PROVE EstablishedFirst'
  <2>1. functors' = functors
    BY <1>2 DEF start
  <2>2. CASE pendingFunctors_' = pendingFunctors_
    BY <1>1, <2>1, <2>2 DEF EstablishedFirst
  <2>3. CASE pendingFunctors_' = Queued(Base, "listen", NoConn)
    <3>1. \A k \in LoopId, d \in Conn :
             /\ FirstIn(pendingFunctors_'[k], d)
             /\ In(pendingFunctors_'[k], Est(d)) => In(pendingFunctors_[k], Est(d))
      BY <1>1, <2>3, FirstQueued, Functors DEF Listen
    <3>2. QED
      BY <1>1, <2>1, <3>1 DEF EstablishedFirst
  <2>4. QED
    BY <1>2, <2>2, <2>3 DEF start
<1>3. ASSUME NEW c \in Conn, newConnection(c) PROVE EstablishedFirst'
  <2>1. functors' = functors
    BY <1>3 DEF newConnection
  <2>2. CASE pendingFunctors_' = pendingFunctors_
    BY <1>1, <2>1, <2>2 DEF EstablishedFirst
  <2>3. CASE pendingFunctors_' # pendingFunctors_
    <3>1. PICK m \in LoopId : pendingFunctors_' = Queued(m, "connectEstablished", c)
      <4>1. ~pastTheEnd /\ pendingFunctors_' = Queued(nextLoop, "connectEstablished", c)
        BY <1>3, <2>3 DEF newConnection
      <4>2. nextLoop \in LoopId
        BY <1>1, <4>1, NextLoop
      <4>3. QED
        BY <4>1, <4>2
    <3>2. Est(c) \in FunctorValue /\ Des(c) \in FunctorValue /\ Est(c) = <<"connectEstablished", c>>
      BY Functors DEF Est
    <3>3. \A k \in LoopId : ~Queues(k, Est(c)) /\ ~Queues(k, Des(c))
      <4>1. conn[c].state_ = "none"
        BY <1>3, <1>1 DEF newConnection, ConnsSound
      <4>2. \A k \in LoopId : ~Meant(Est(c), k) /\ ~Meant(Des(c), k)
        BY <4>1, MeantEst, MeantDes
      <4>3. QED
        BY <1>1, <3>2, <4>2 DEF FunctorsMeant
    <3>4. ASSUME NEW k \in LoopId, NEW d \in Conn
          PROVE  FirstIn(pendingFunctors_'[k], d)
      <4>1. FirstIn(pendingFunctors_[k], d) /\ pendingFunctors_[k] \in Seq(FunctorValue)
        BY <1>1 DEF EstablishedFirst, TypeOK
      <4>2. CASE k = m
        <5>1. pendingFunctors_'[k] = Append(pendingFunctors_[k], Est(c))
          BY <1>1, <3>1, <3>2, <4>2, Queueing
        <5>2. Est(c) = Est(d) => ~In(pendingFunctors_[k], Est(d)) /\ ~In(pendingFunctors_[k], Des(d))
          BY <3>3, Distinct DEF Queues
        <5>3. QED
          BY <4>1, <5>1, <5>2, FirstAppend
      <4>3. CASE k # m
        BY <1>1, <3>1, <3>2, <4>1, <4>3, Queueing
      <4>4. QED
        BY <4>2, <4>3
    <3>5. ASSUME NEW k \in LoopId, NEW d \in Conn, In(pendingFunctors_'[k], Est(d))
          PROVE  ~In(functors'[k], Est(d)) /\ ~In(functors'[k], Des(d))
      <4>1. CASE d = c
        BY <2>1, <3>3, <4>1 DEF Queues
      <4>2. CASE d # c
        <5>1. Est(d) # Est(c)
          BY <4>2, Distinct
        <5>2. In(pendingFunctors_[k], Est(d))
          BY <1>1, <3>1, <3>2, <3>5, <5>1, Queues1
        <5>3. QED
          BY <1>1, <2>1, <5>2 DEF EstablishedFirst
      <4>3. QED
        BY <4>1, <4>2
    <3>6. QED
      BY <1>1, <2>1, <3>4, <3>5 DEF EstablishedFirst
  <2>4. QED
    BY <2>2, <2>3
<1>4. ASSUME NEW l \in LoopId, doPendingFunctors(l) PROVE EstablishedFirst'
  <2>1. \A k \in LoopId :
           \/ functors'[k] = functors[k] /\ pendingFunctors_'[k] = pendingFunctors_[k]
           \/ functors'[k] = pendingFunctors_[k] /\ pendingFunctors_'[k] = <<>>
    BY <1>4, <1>1 DEF doPendingFunctors, TypeOK
  <2>2. QED
    BY <1>1, <2>1, InEmpty, FirstEmpty DEF EstablishedFirst
<1>5. ASSUME NEW l \in LoopId, endOfBatch(l) PROVE EstablishedFirst'
  BY <1>5, <1>1 DEF endOfBatch, EstablishedFirst, queues
<1>6. ASSUME NEW l \in LoopId, loopGone(l) PROVE EstablishedFirst'
  <2>1. /\ functors' = functors
        /\ \A k \in LoopId : pendingFunctors_'[k] = pendingFunctors_[k] \/ pendingFunctors_'[k] = <<>>
    BY <1>6, <1>1 DEF loopGone
  <2>2. QED
    BY <1>1, <2>1, InEmpty, FirstEmpty DEF EstablishedFirst
<1>7. ASSUME NEW l \in LoopId, NEW c \in Conn, connectEstablished(l, c) PROVE EstablishedFirst'
  <2>1. Runs(l, "connectEstablished", c) /\ pendingFunctors_' = pendingFunctors_
    BY <1>7 DEF connectEstablished
  <2>2. QED
    BY <1>1, <2>1, FirstRuns, FirstKeeps DEF EstablishedFirst
<1>8. ASSUME NEW l \in LoopId, NEW c \in Conn, connectDestroyed(l, c) PROVE EstablishedFirst'
  <2>1. Runs(l, "connectDestroyed", c) /\ pendingFunctors_' = pendingFunctors_
    BY <1>8 DEF connectDestroyed
  <2>2. QED
    BY <1>1, <2>1, FirstRuns, FirstKeeps DEF EstablishedFirst
<1>9. ASSUME NEW c \in Conn, removeConnectionInLoop(c) PROVE EstablishedFirst'
  <2>1. Runs(Base, "removeConnectionInLoop", c)
    BY <1>9 DEF removeConnectionInLoop
  <2>2. conn[c].loop \in LoopId
    BY <1>1 DEF ConnValue
  <2>3. \A k \in LoopId, d \in Conn :
           /\ FirstIn(functors'[k], d)
           /\ \A f : In(functors'[k], f) => In(functors[k], f)
    BY <1>1, <2>1, FirstRuns
  <2>4. \/ pendingFunctors_' = pendingFunctors_
        \/ pendingFunctors_' = Queued(conn[c].loop, "connectDestroyed", c)
    BY <1>9 DEF removeConnectionInLoop, Removes
  <2>5. CASE pendingFunctors_' = pendingFunctors_
    BY <1>1, <2>3, <2>5, FirstKeeps DEF EstablishedFirst
  <2>6. CASE pendingFunctors_' = Queued(conn[c].loop, "connectDestroyed", c)
    <3>1. \A k \in LoopId, d \in Conn :
             /\ FirstIn(pendingFunctors_'[k], d)
             /\ In(pendingFunctors_'[k], Est(d)) => In(pendingFunctors_[k], Est(d))
      BY <1>1, <2>2, <2>6, FirstQueued, Functors DEF Des
    <3>2. QED
      BY <1>1, <2>3, <3>1, FirstKeeps
  <2>7. QED
    BY <2>4, <2>5, <2>6
<1>10. ASSUME NEW c \in Conn, handleClose(c) PROVE EstablishedFirst'
  <2>1. functors' = functors /\ conn[c].loop \in LoopId
    BY <1>10, <1>1 DEF handleClose, ConnValue
  <2>2. \/ pendingFunctors_' = pendingFunctors_
        \/ pendingFunctors_' = Queued(conn[c].loop, "connectDestroyed", c)
        \/ pendingFunctors_' = Queued(Base, "removeConnectionInLoop", c)
    BY <1>10 DEF handleClose, Removes
  <2>3. \A k \in LoopId, d \in Conn :
           /\ FirstIn(pendingFunctors_'[k], d)
           /\ In(pendingFunctors_'[k], Est(d)) => In(pendingFunctors_[k], Est(d))
    <3>1. CASE pendingFunctors_' = pendingFunctors_
      BY <1>1, <3>1 DEF EstablishedFirst
    <3>2. CASE pendingFunctors_' = Queued(conn[c].loop, "connectDestroyed", c)
      BY <1>1, <2>1, <3>2, FirstQueued, Functors DEF Des
    <3>3. CASE pendingFunctors_' = Queued(Base, "removeConnectionInLoop", c)
      BY <1>1, <3>3, FirstQueued, Functors DEF Rem
    <3>4. QED
      BY <2>2, <3>1, <3>2, <3>3
  <2>4. QED
    BY <1>1, <2>1, <2>3, FirstKeeps DEF EstablishedFirst
<1>11. CASE listen
  <2>1. Runs(Base, "listen", NoConn) /\ pendingFunctors_' = pendingFunctors_
    BY <1>11 DEF listen
  <2>2. QED
    BY <1>1, <2>1, FirstRuns, FirstKeeps DEF EstablishedFirst
<1>12. CASE quit
  BY <1>12, <1>1 DEF quit, EstablishedFirst, queues
<1>13. CASE destroyServer
  BY <1>13, <1>1 DEF destroyServer, EstablishedFirst, queues
<1>14. ASSUME NEW c \in Conn, destroyConnection(c) PROVE EstablishedFirst'
  <2>1. functors' = functors /\ conn[c].loop \in LoopId
    BY <1>14, <1>1 DEF destroyConnection, ConnValue
  <2>2. \/ pendingFunctors_' = pendingFunctors_
        \/ pendingFunctors_' = Queued(conn[c].loop, "connectDestroyed", c)
    BY <1>14 DEF destroyConnection, handedOver
  <2>3. \A k \in LoopId, d \in Conn :
           /\ FirstIn(pendingFunctors_'[k], d)
           /\ In(pendingFunctors_'[k], Est(d)) => In(pendingFunctors_[k], Est(d))
    <3>1. CASE pendingFunctors_' = pendingFunctors_
      BY <1>1, <3>1 DEF EstablishedFirst
    <3>2. CASE pendingFunctors_' = Queued(conn[c].loop, "connectDestroyed", c)
      BY <1>1, <2>1, <3>2, FirstQueued, Functors DEF Des
    <3>3. QED
      BY <2>2, <3>1, <3>2
  <2>4. QED
    BY <1>1, <2>1, <2>3, FirstKeeps DEF EstablishedFirst
<1>15. ASSUME NEW l \in Sub, quitLoop(l) PROVE EstablishedFirst'
  BY <1>15, <1>1 DEF quitLoop, EstablishedFirst, queues
<1>16. CASE serverGone
  BY <1>16, <1>1 DEF serverGone, EstablishedFirst, queues
<1>17. ASSUME NEW c \in Conn, shutdown(c) PROVE EstablishedFirst'
  BY <1>17, <1>1 DEF shutdown, EstablishedFirst, queues
<1>18. ASSUME NEW c \in Conn, peerConnects(c) PROVE EstablishedFirst'
  BY <1>18, <1>1 DEF peerConnects, EstablishedFirst, queues
<1>19. ASSUME NEW c \in Conn, peerGoes(c) PROVE EstablishedFirst'
  BY <1>19, <1>1 DEF peerGoes, EstablishedFirst, queues
<1>20. CASE UNCHANGED vars
  BY <1>20, <1>1 DEF vars, EstablishedFirst, queues
<1>21. QED
  BY <1>2, <1>3, <1>4, <1>5, <1>6, <1>7, <1>8, <1>9, <1>10, <1>11, <1>12, <1>13,
     <1>14, <1>15, <1>16, <1>17, <1>18, <1>19, <1>20 DEF Next, Accepts,
     LoopStep, DestructorStep

\* What the actions make of a connection.
LEMMA Makes ==
  ASSUME IInv, NEW c \in Conn, newConnection(c), ~pastTheEnd
  PROVE  /\ conn[c].state_ = "none" /\ ~conn[c].registered
         /\ \A d \in Conn : d # c => conn'[d] = conn[d] /\ ups'[d] = ups[d]
         /\ conn'[c].name = nextConnId_ /\ conn'[c].loop = nextLoop
         /\ nextLoop \in {Base} \cup Sub
         /\ \/ /\ nextLoop = Base /\ pendingFunctors_' = pendingFunctors_
               /\ conn'[c].state_ = "kConnected" /\ conn'[c].registered
               /\ ups'[c] = ups[c] + 1
            \/ /\ nextLoop # Base
               /\ pendingFunctors_' = Queued(nextLoop, "connectEstablished", c)
               /\ conn'[c].state_ = "kConnecting" /\ ~conn'[c].registered
               /\ ups'[c] = ups[c]
<1>1. conn[c].state_ = "none" /\ ~conn[c].registered
  BY DEF newConnection, IInv, ConnsSound
<1>2. conn \in [Conn -> ConnValue] /\ ups \in [Conn -> Nat]
  BY DEF IInv, TypeOK, ConnValue
<1>3. nextLoop \in {Base} \cup Sub
  <2>1. TypeOK /\ numThreads_ \in Nat
    BY Loops DEF IInv
  <2>2. next_ \in 0..numThreads_
    BY <2>1 DEF TypeOK
  <2>3. QED
    BY <2>1, <2>2 DEF nextLoop, pastTheEnd, Sub
<1>4. CASE nextLoop = Base
  <2>1. /\ conn' = [conn EXCEPT ![c] = established([state_ |-> "kConnecting",
                       registered |-> FALSE, loop |-> nextLoop, name |-> nextConnId_])]
        /\ ups' = [ups EXCEPT ![c] = ups[c] + 1] /\ pendingFunctors_' = pendingFunctors_
    BY <1>4 DEF newConnection
  <2>2. QED
    BY <1>1, <1>2, <1>3, <1>4, <2>1 DEF established
<1>5. CASE nextLoop # Base
  <2>1. /\ conn' = [conn EXCEPT ![c] = [state_ |-> "kConnecting",
                       registered |-> FALSE, loop |-> nextLoop, name |-> nextConnId_]]
        /\ ups' = ups /\ pendingFunctors_' = Queued(nextLoop, "connectEstablished", c)
    BY <1>5 DEF newConnection
  <2>2. QED
    BY <1>1, <1>2, <1>3, <1>5, <2>1
<1>6. QED
  BY <1>4, <1>5

LEMMA Establishes ==
  ASSUME IInv, NEW l \in LoopId, NEW c \in Conn, connectEstablished(l, c)
  PROVE  /\ conn[c].state_ = "kConnecting" /\ l = conn[c].loop /\ l # Base
         /\ \A d \in Conn : d # c => conn'[d] = conn[d] /\ ups'[d] = ups[d]
         /\ conn'[c].state_ = "kConnected" /\ conn'[c].registered
         /\ conn'[c].loop = conn[c].loop /\ conn'[c].name = conn[c].name
         /\ ups'[c] = ups[c] + 1
<1>1. conn \in [Conn -> ConnValue] /\ ups \in [Conn -> Nat]
  BY DEF IInv, TypeOK, ConnValue
<1>2. /\ conn' = [conn EXCEPT ![c] = established(conn[c])]
      /\ ups' = [ups EXCEPT ![c] = ups[c] + 1]
  BY DEF connectEstablished, Establish
<1>3. QED
  BY <1>1, <1>2, EstablishedOnce, Records

LEMMA Destroys ==
  ASSUME IInv, NEW c \in Conn, Destroy(c)
  PROVE  /\ \A d \in Conn : d # c => conn'[d] = conn[d] /\ downs'[d] = downs[d]
         /\ ~conn'[c].registered
         /\ conn'[c].loop = conn[c].loop /\ conn'[c].name = conn[c].name
         /\ \/ /\ conn[c].state_ = "kConnected" /\ conn'[c].state_ = "kDisconnected"
               /\ downs'[c] = downs[c] + 1
            \/ /\ conn[c].state_ # "kConnected" /\ conn'[c].state_ = conn[c].state_
               /\ downs'[c] = downs[c]
<1>1. conn \in [Conn -> ConnValue] /\ downs \in [Conn -> Nat]
  BY DEF IInv, TypeOK, ConnValue
<1>2. /\ conn' = [conn EXCEPT ![c] = destroyed(conn[c])]
      /\ downs' = [downs EXCEPT ![c] = downs[c] + (IF isReported(conn[c]) THEN 1 ELSE 0)]
  BY DEF Destroy
<1>3. isReported(conn[c]) <=> conn[c].state_ = "kConnected"
  BY DEF isReported
<1>4. QED
  BY <1>1, <1>2, <1>3, Records

LEMMA Closes ==
  ASSUME IInv, NEW c \in Conn, handleClose(c)
  PROVE  /\ conn[c].state_ \in {"kConnected", "kDisconnecting"} /\ conn[c].registered
         /\ \A d \in Conn : d # c => conn'[d] = conn[d] /\ downs'[d] = downs[d]
         /\ conn'[c].state_ = "kDisconnected" /\ conn'[c].registered
         /\ conn'[c].loop = conn[c].loop /\ conn'[c].name = conn[c].name
         /\ downs'[c] = downs[c] + 1
<1>1. conn \in [Conn -> ConnValue] /\ downs \in [Conn -> Nat]
  BY DEF IInv, TypeOK, ConnValue
<1>2. /\ conn' = [conn EXCEPT ![c].state_ = "kDisconnected"]
      /\ downs' = [downs EXCEPT ![c] = downs[c] + 1]
      /\ conn[c].state_ \in {"kConnected", "kDisconnecting"} /\ conn[c].registered
  BY DEF handleClose
<1>3. QED
  BY <1>1, <1>2 DEF ConnValue

LEMMA ShutsDown ==
  ASSUME IInv, NEW c \in Conn, shutdown(c)
  PROVE  /\ conn[c].state_ = "kConnected"
         /\ \A d \in Conn : d # c => conn'[d] = conn[d]
         /\ conn'[c].state_ = "kDisconnecting" /\ conn'[c].registered
         /\ conn'[c].loop = conn[c].loop /\ conn'[c].name = conn[c].name
<1>1. conn \in [Conn -> ConnValue]
  BY DEF IInv, TypeOK, ConnValue
<1>2. conn' = [conn EXCEPT ![c].state_ = "kDisconnecting"] /\ conn[c].state_ = "kConnected"
  BY DEF shutdown
<1>3. conn[c].registered
  BY <1>2 DEF IInv, ConnsSound
<1>4. QED
  BY <1>1, <1>2, <1>3 DEF ConnValue

LEMMA ToldNext == IInv /\ [Next]_vars => ToldByState'
<1> SUFFICES ASSUME IInv, [Next]_vars
             PROVE  ToldByState'
  OBVIOUS
<1>1. /\ TypeOK /\ FunctorsMeant /\ EstablishedFirst /\ NamesMatch /\ Rooted
      /\ ToldByState /\ ConnsSound /\ BatchesRun /\ EndsInTurn
      /\ LoopsEndEmpty /\ UsedOnlyAlive /\ EveryoneIsTold
      /\ numThreads_ \in Nat /\ Base \in LoopId /\ Sub \subseteq LoopId /\ Base \notin Sub
      /\ conn \in [Conn -> ConnValue]
  BY Loops, Groups DEF IInv, ConnsTyped
<1>u. ups \in [Conn -> Nat] /\ downs \in [Conn -> Nat]
  BY <1>1 DEF TypeOK
<1>2. ASSUME NEW onBase \in BOOLEAN, start(onBase) PROVE ToldByState'
  BY <1>2, <1>1 DEF start, ToldByState, told
<1>3. ASSUME NEW c \in Conn, newConnection(c) PROVE ToldByState'
  <2>1. CASE pastTheEnd
    BY <1>3, <2>1, <1>1 DEF newConnection, ToldByState, told
  <2>2. CASE ~pastTheEnd
    <3>1. downs' = downs
      BY <1>3, <2>2 DEF newConnection
    <3>2. QED
      BY <1>3, <1>1, <2>2, <3>1, <1>u, Makes DEF ToldByState
  <2>3. QED
    BY <2>1, <2>2
<1>4. ASSUME NEW l \in LoopId, doPendingFunctors(l) PROVE ToldByState'
  BY <1>4, <1>1 DEF doPendingFunctors, ToldByState, told
<1>5. ASSUME NEW l \in LoopId, endOfBatch(l) PROVE ToldByState'
  BY <1>5, <1>1 DEF endOfBatch, ToldByState, told
<1>6. ASSUME NEW l \in LoopId, loopGone(l) PROVE ToldByState'
  BY <1>6, <1>1 DEF loopGone, ToldByState, told
<1>7. ASSUME NEW l \in LoopId, NEW c \in Conn, connectEstablished(l, c) PROVE ToldByState'
  <2>1. downs' = downs
    BY <1>7 DEF connectEstablished, Establish
  <2>2. QED
    BY <1>7, <1>1, <1>u, <2>1, Establishes DEF ToldByState
<1>8. ASSUME NEW l \in LoopId, NEW c \in Conn, connectDestroyed(l, c) PROVE ToldByState'
  <2>1. Destroy(c) /\ ups' = ups
    BY <1>8 DEF connectDestroyed, Destroy
  <2>2. QED
    BY <1>1, <1>u, <2>1, Destroys DEF ToldByState
<1>9. ASSUME NEW c \in Conn, removeConnectionInLoop(c) PROVE ToldByState'
  BY <1>9, <1>1 DEF removeConnectionInLoop, ToldByState, told
<1>10. ASSUME NEW c \in Conn, handleClose(c) PROVE ToldByState'
  <2>1. ups' = ups
    BY <1>10 DEF handleClose
  <2>2. QED
    BY <1>10, <1>1, <1>u, <2>1, Closes DEF ToldByState
<1>11. CASE listen
  BY <1>11, <1>1 DEF listen, ToldByState, told
<1>12. CASE quit
  BY <1>12, <1>1 DEF quit, ToldByState, told
<1>13. CASE destroyServer
  BY <1>13, <1>1 DEF destroyServer, ToldByState, told
<1>14. ASSUME NEW c \in Conn, destroyConnection(c) PROVE ToldByState'
  <2>1. CASE conn' = conn /\ told' = told
    BY <1>1, <2>1 DEF ToldByState, told
  <2>2. CASE Destroy(c)
    <3>1. ups' = ups
      BY <2>2 DEF Destroy
    <3>2. QED
      BY <1>1, <2>2, <3>1, Destroys, <1>u DEF ToldByState
  <2>3. QED
    BY <1>14, <2>1, <2>2 DEF destroyConnection
<1>15. ASSUME NEW l \in Sub, quitLoop(l) PROVE ToldByState'
  BY <1>15, <1>1 DEF quitLoop, ToldByState, told
<1>16. CASE serverGone
  BY <1>16, <1>1 DEF serverGone, ToldByState, told
<1>17. ASSUME NEW c \in Conn, shutdown(c) PROVE ToldByState'
  <2>1. ups' = ups /\ downs' = downs
    BY <1>17 DEF shutdown, told
  <2>2. QED
    BY <1>17, <1>1, <1>u, <2>1, ShutsDown DEF ToldByState
<1>18. ASSUME NEW c \in Conn, peerConnects(c) PROVE ToldByState'
  BY <1>18, <1>1 DEF peerConnects, ToldByState, told
<1>19. ASSUME NEW c \in Conn, peerGoes(c) PROVE ToldByState'
  BY <1>19, <1>1 DEF peerGoes, ToldByState, told
<1>20. CASE UNCHANGED vars
  BY <1>20, <1>1 DEF vars, ToldByState, told
<1>21. QED
  BY <1>2, <1>3, <1>4, <1>5, <1>6, <1>7, <1>8, <1>9, <1>10, <1>11, <1>12, <1>13,
     <1>14, <1>15, <1>16, <1>17, <1>18, <1>19, <1>20 DEF Next, Accepts,
     LoopStep, DestructorStep

LEMMA SoundNext == IInv /\ [Next]_vars => ConnsSound'
<1> SUFFICES ASSUME IInv, [Next]_vars
             PROVE  ConnsSound'
  OBVIOUS
<1>1. /\ TypeOK /\ FunctorsMeant /\ EstablishedFirst /\ NamesMatch /\ Rooted
      /\ ToldByState /\ ConnsSound /\ BatchesRun /\ EndsInTurn
      /\ LoopsEndEmpty /\ UsedOnlyAlive /\ EveryoneIsTold
      /\ numThreads_ \in Nat /\ Base \in LoopId /\ Sub \subseteq LoopId /\ Base \notin Sub
      /\ conn \in [Conn -> ConnValue]
  BY Loops, Groups DEF IInv, ConnsTyped
<1>u. ups \in [Conn -> Nat] /\ downs \in [Conn -> Nat]
  BY <1>1 DEF TypeOK
<1>2. ASSUME NEW onBase \in BOOLEAN, start(onBase) PROVE ConnsSound'
  BY <1>2, <1>1 DEF start, ConnsSound, Sub, world
<1>3. ASSUME NEW c \in Conn, newConnection(c) PROVE ConnsSound'
  <2>1. Sub' = Sub
    BY <1>3 DEF Sub, newConnection, serverVars
  <2>2. waiting' \subseteq waiting
    BY <1>3 DEF newConnection
  <2>3. CASE pastTheEnd
    BY <1>3, <2>1, <2>3, <1>1 DEF newConnection, ConnsSound
  <2>4. CASE ~pastTheEnd
    <3>1. c \notin waiting'
      BY <1>3, <2>4 DEF newConnection
    <3>2. QED
      BY <1>3, <1>1, <2>1, <2>2, <2>4, <3>1, Makes DEF ConnsSound
  <2>5. QED
    BY <2>3, <2>4
<1>4. ASSUME NEW l \in LoopId, doPendingFunctors(l) PROVE ConnsSound'
  BY <1>4, <1>1 DEF doPendingFunctors, ConnsSound, Sub, serverVars, world
<1>5. ASSUME NEW l \in LoopId, endOfBatch(l) PROVE ConnsSound'
  BY <1>5, <1>1 DEF endOfBatch, ConnsSound, Sub, serverVars, world
<1>6. ASSUME NEW l \in LoopId, loopGone(l) PROVE ConnsSound'
  BY <1>6, <1>1 DEF loopGone, ConnsSound, Sub, serverVars, world
<1>7. ASSUME NEW l \in LoopId, NEW c \in Conn, connectEstablished(l, c) PROVE ConnsSound'
  <2>1. Sub' = Sub
    BY <1>7 DEF Sub, connectEstablished, Runs, serverVars
  <2>2. waiting' = waiting
    BY <1>7 DEF connectEstablished, Runs, world
  <2>3. QED
    BY <1>7, <1>1, <2>1, <2>2, Establishes DEF ConnsSound
<1>8. ASSUME NEW l \in LoopId, NEW c \in Conn, connectDestroyed(l, c) PROVE ConnsSound'
  <2>1. Sub' = Sub
    BY <1>8 DEF Sub, connectDestroyed, Runs, serverVars
  <2>2. Destroy(c) /\ waiting' = waiting
    BY <1>8 DEF connectDestroyed, Runs, world
  <2>3. QED
    BY <1>1, <2>1, <2>2, Destroys DEF ConnsSound
<1>9. ASSUME NEW c \in Conn, removeConnectionInLoop(c) PROVE ConnsSound'
  BY <1>9, <1>1 DEF removeConnectionInLoop, Runs, ConnsSound, Sub, serverVars,
     world
<1>10. ASSUME NEW c \in Conn, handleClose(c) PROVE ConnsSound'
  <2>1. Sub' = Sub
    BY <1>10 DEF Sub, handleClose, serverVars
  <2>2. waiting' = waiting
    BY <1>10 DEF handleClose, world
  <2>3. QED
    BY <1>10, <1>1, <2>1, <2>2, Closes DEF ConnsSound
<1>11. CASE listen
  BY <1>11, <1>1 DEF listen, Runs, ConnsSound, Sub, serverVars, world
<1>12. CASE quit
  BY <1>12, <1>1 DEF quit, ConnsSound, Sub, serverVars, world
<1>13. CASE destroyServer
  BY <1>13, <1>1 DEF destroyServer, ConnsSound, Sub, world
<1>14. ASSUME NEW c \in Conn, destroyConnection(c) PROVE ConnsSound'
  <2>1. Sub' = Sub
    BY <1>14 DEF Sub, destroyConnection, serverVars
  <2>2. waiting' = waiting
    BY <1>14 DEF destroyConnection, world
  <2>3. CASE conn' = conn
    BY <1>1, <2>1, <2>2, <2>3 DEF ConnsSound
  <2>4. CASE Destroy(c)
    BY <1>1, <2>1, <2>2, <2>4, Destroys DEF ConnsSound
  <2>5. QED
    BY <1>14, <2>3, <2>4 DEF destroyConnection
<1>15. ASSUME NEW l \in Sub, quitLoop(l) PROVE ConnsSound'
  BY <1>15, <1>1 DEF quitLoop, ConnsSound, Sub, world
<1>16. CASE serverGone
  BY <1>16, <1>1 DEF serverGone, ConnsSound, Sub, world
<1>17. ASSUME NEW c \in Conn, shutdown(c) PROVE ConnsSound'
  <2>1. Sub' = Sub
    BY <1>17 DEF Sub, shutdown, serverVars
  <2>2. waiting' = waiting
    BY <1>17 DEF shutdown, world
  <2>3. QED
    BY <1>17, <1>1, <2>1, <2>2, ShutsDown DEF ConnsSound
<1>18. ASSUME NEW c \in Conn, peerConnects(c) PROVE ConnsSound'
  BY <1>18, <1>1 DEF peerConnects, ConnsSound, Sub, serverVars
<1>19. ASSUME NEW c \in Conn, peerGoes(c) PROVE ConnsSound'
  BY <1>19, <1>1 DEF peerGoes, ConnsSound, Sub, serverVars
<1>20. CASE UNCHANGED vars
  BY <1>20, <1>1 DEF vars, ConnsSound, Sub, serverVars, world
<1>21. QED
  BY <1>2, <1>3, <1>4, <1>5, <1>6, <1>7, <1>8, <1>9, <1>10, <1>11, <1>12, <1>13,
     <1>14, <1>15, <1>16, <1>17, <1>18, <1>19, <1>20 DEF Next, Accepts,
     LoopStep, DestructorStep

LEMMA BatchesNext == IInv /\ [Next]_vars => BatchesRun'
<1> SUFFICES ASSUME IInv, [Next]_vars
             PROVE  BatchesRun'
  OBVIOUS
<1>1. /\ TypeOK /\ FunctorsMeant /\ EstablishedFirst /\ NamesMatch /\ Rooted
      /\ ToldByState /\ ConnsSound /\ BatchesRun /\ EndsInTurn
      /\ LoopsEndEmpty /\ UsedOnlyAlive /\ EveryoneIsTold
      /\ numThreads_ \in Nat /\ Base \in LoopId /\ Sub \subseteq LoopId /\ Base \notin Sub
      /\ conn \in [Conn -> ConnValue]
  BY Loops, Groups DEF IInv, ConnsTyped
<1>2. ASSUME NEW onBase \in BOOLEAN, start(onBase) PROVE BatchesRun'
  <2>1. functors' = functors
    BY <1>2 DEF start
  <2>2. \A k \in LoopId : at[k] = "run" => at'[k] = "run"
    BY <1>2, <1>1 DEF start, EndsInTurn
  <2>3. QED
    BY <1>1, <2>1, <2>2 DEF BatchesRun
<1>3. ASSUME NEW c \in Conn, newConnection(c) PROVE BatchesRun'
  BY <1>3, <1>1 DEF newConnection, BatchesRun, loops
<1>4. ASSUME NEW l \in LoopId, doPendingFunctors(l) PROVE BatchesRun'
  <2>1. at'[l] = "run" /\ \A k \in LoopId : k # l => at'[k] = at[k] /\ functors'[k] = functors[k]
    BY <1>4, <1>1 DEF doPendingFunctors, TypeOK
  <2>2. QED
    BY <1>1, <2>1 DEF BatchesRun
<1>5. ASSUME NEW l \in LoopId, endOfBatch(l) PROVE BatchesRun'
  <2>1. functors' = functors /\ functors[l] = <<>>
    BY <1>5 DEF endOfBatch, queues
  <2>2. \A k \in LoopId : k # l => at'[k] = at[k]
    BY <1>5, <1>1 DEF endOfBatch
  <2>3. QED
    BY <1>1, <2>1, <2>2 DEF BatchesRun
<1>6. ASSUME NEW l \in LoopId, loopGone(l) PROVE BatchesRun'
  BY <1>6, <1>1 DEF loopGone, BatchesRun
<1>7. ASSUME NEW l \in LoopId, NEW c \in Conn, connectEstablished(l, c) PROVE BatchesRun'
  <2>1. /\ at[l] = "run" /\ at' = at
        /\ \A k \in LoopId : k # l => functors'[k] = functors[k]
    BY <1>7, <1>1, Running DEF connectEstablished, Runs, loops
  <2>2. QED
    BY <1>1, <2>1 DEF BatchesRun
<1>8. ASSUME NEW l \in LoopId, NEW c \in Conn, connectDestroyed(l, c) PROVE BatchesRun'
  <2>1. /\ at[l] = "run" /\ at' = at
        /\ \A k \in LoopId : k # l => functors'[k] = functors[k]
    BY <1>8, <1>1, Running DEF connectDestroyed, Runs, loops
  <2>2. QED
    BY <1>1, <2>1 DEF BatchesRun
<1>9. ASSUME NEW c \in Conn, removeConnectionInLoop(c) PROVE BatchesRun'
  <2>1. /\ at[Base] = "run" /\ at' = at
        /\ \A k \in LoopId : k # Base => functors'[k] = functors[k]
    BY <1>9, <1>1, Running DEF removeConnectionInLoop, Runs, loops
  <2>2. QED
    BY <1>1, <2>1 DEF BatchesRun
<1>10. ASSUME NEW c \in Conn, handleClose(c) PROVE BatchesRun'
  BY <1>10, <1>1 DEF handleClose, BatchesRun, loops
<1>11. CASE listen
  <2>1. /\ at[Base] = "run" /\ at' = at
        /\ \A k \in LoopId : k # Base => functors'[k] = functors[k]
    BY <1>11, <1>1, Running DEF listen, Runs, loops
  <2>2. QED
    BY <1>1, <2>1 DEF BatchesRun
<1>12. CASE quit
  BY <1>12, <1>1 DEF quit, BatchesRun, queues
<1>13. CASE destroyServer
  BY <1>13, <1>1 DEF destroyServer, BatchesRun, queues, loops
<1>14. ASSUME NEW c \in Conn, destroyConnection(c) PROVE BatchesRun'
  BY <1>14, <1>1 DEF destroyConnection, Destroy, destroyed, isReported,
     BatchesRun, loops
<1>15. ASSUME NEW l \in Sub, quitLoop(l) PROVE BatchesRun'
  BY <1>15, <1>1 DEF quitLoop, BatchesRun, queues
<1>16. CASE serverGone
  BY <1>16, <1>1 DEF serverGone, BatchesRun, queues, loops
<1>17. ASSUME NEW c \in Conn, shutdown(c) PROVE BatchesRun'
  BY <1>17, <1>1 DEF shutdown, BatchesRun, queues, loops
<1>18. ASSUME NEW c \in Conn, peerConnects(c) PROVE BatchesRun'
  BY <1>18, <1>1 DEF peerConnects, BatchesRun, queues, loops
<1>19. ASSUME NEW c \in Conn, peerGoes(c) PROVE BatchesRun'
  BY <1>19, <1>1 DEF peerGoes, BatchesRun, queues, loops
<1>20. CASE UNCHANGED vars
  BY <1>20, <1>1 DEF vars, BatchesRun, queues, loops
<1>21. QED
  BY <1>2, <1>3, <1>4, <1>5, <1>6, <1>7, <1>8, <1>9, <1>10, <1>11, <1>12, <1>13,
     <1>14, <1>15, <1>16, <1>17, <1>18, <1>19, <1>20 DEF Next, Accepts,
     LoopStep, DestructorStep

LEMMA MappedEmpty == (Mapped = {} <=> DOMAIN connections_ = {}) /\ (Mapped = {} <=> DOMAIN connections_ = {})'
<1>1. Mapped = {} <=> DOMAIN connections_ = {}
  BY DEF Mapped
<1>2. (Mapped = {} <=> DOMAIN connections_ = {})'
  BY DEF Mapped
<1>3. QED
  BY <1>1, <1>2

LEMMA ErasedEmpty ==
  ASSUME NEW name, Mapped = {}, connections_' = Erased(name)
  PROVE  Mapped' = {}
BY MappedEmpty, Erasing

LEMMA EndsNext == IInv /\ [Next]_vars => EndsInTurn'
<1> SUFFICES ASSUME IInv, [Next]_vars
             PROVE  EndsInTurn'
  OBVIOUS
<1>1. /\ TypeOK /\ FunctorsMeant /\ EstablishedFirst /\ NamesMatch /\ Rooted
      /\ ToldByState /\ ConnsSound /\ BatchesRun /\ EndsInTurn
      /\ LoopsEndEmpty /\ UsedOnlyAlive /\ EveryoneIsTold
      /\ numThreads_ \in Nat /\ Base \in LoopId /\ Sub \subseteq LoopId /\ Base \notin Sub
      /\ conn \in [Conn -> ConnValue]
  BY Loops, Groups DEF IInv, ConnsTyped
<1>2. ASSUME NEW onBase \in BOOLEAN, start(onBase) PROVE EndsInTurn'
  BY <1>2, <1>1 DEF start, EndsInTurn, TypeOK, Sub
<1>3. ASSUME NEW c \in Conn, newConnection(c) PROVE EndsInTurn'
  BY <1>3, <1>1 DEF newConnection, Handling, EndsInTurn, Sub, serverVars, loops
<1>4. ASSUME NEW l \in LoopId, doPendingFunctors(l) PROVE EndsInTurn'
  BY <1>4, <1>1, MappedEmpty DEF doPendingFunctors, Handling, EndsInTurn, Sub,
     serverVars, acceptor
<1>5. ASSUME NEW l \in LoopId, endOfBatch(l) PROVE EndsInTurn'
  BY <1>5, <1>1, MappedEmpty DEF endOfBatch, EndsInTurn, Sub, serverVars,
     acceptor
<1>6. ASSUME NEW l \in LoopId, loopGone(l) PROVE EndsInTurn'
  BY <1>6, <1>1, MappedEmpty DEF loopGone, EndsInTurn, Sub, serverVars, acceptor
<1>7. ASSUME NEW l \in LoopId, NEW c \in Conn, connectEstablished(l, c) PROVE EndsInTurn'
  BY <1>7, <1>1, MappedEmpty DEF connectEstablished, Runs, Establish,
     EndsInTurn, Sub, serverVars, loops
<1>8. ASSUME NEW l \in LoopId, NEW c \in Conn, connectDestroyed(l, c) PROVE EndsInTurn'
  BY <1>8, <1>1, MappedEmpty DEF connectDestroyed, Runs, Destroy, destroyed,
     isReported, EndsInTurn, Sub, serverVars, loops
<1>9. ASSUME NEW c \in Conn, removeConnectionInLoop(c) PROVE EndsInTurn'
  BY <1>9, <1>1, MappedEmpty DEF removeConnectionInLoop, Runs, EndsInTurn, Sub,
     serverVars, loops
<1>10. ASSUME NEW c \in Conn, handleClose(c) PROVE EndsInTurn'
  BY <1>10, <1>1, MappedEmpty, ErasedEmpty DEF handleClose, Removes, EndsInTurn,
     Sub, serverVars, acceptor, loops
<1>11. CASE listen
  BY <1>11, <1>1, MappedEmpty DEF listen, Runs, EndsInTurn, Sub, serverVars,
     loops
<1>12. CASE quit
  BY <1>12, <1>1, MappedEmpty DEF quit, EndsInTurn, Sub, serverVars, acceptor
<1>13. CASE destroyServer
  BY <1>13, <1>1 DEF destroyServer, EndsInTurn, Sub, loops
<1>14. ASSUME NEW c \in Conn, destroyConnection(c) PROVE EndsInTurn'
  BY <1>14, <1>1 DEF destroyConnection, Destroy, destroyed, isReported,
     EndsInTurn, Sub, serverVars, loops
<1>15. ASSUME NEW l \in Sub, quitLoop(l) PROVE EndsInTurn'
  BY <1>15, <1>1, MappedEmpty DEF quitLoop, EndsInTurn, Sub
<1>16. CASE serverGone
  <2>1. /\ server' = "gone" /\ listening' = FALSE /\ at' = at /\ Sub' = Sub
        /\ inside' = inside /\ started_' = started_ /\ Mapped' = Mapped
        /\ server # "up" /\ server # "gone"
    BY <1>16 DEF serverGone, Sub, Mapped, loops
  <2>2. Mapped = {}
    BY <1>16, <1>1 DEF serverGone, EndsInTurn
  <2>3. \A k \in Sub : at[k] \in {"none", "gone"}
    BY <1>16 DEF serverGone, joins
  <2>4. QED
    BY <1>1, <2>1, <2>2, <2>3 DEF EndsInTurn
<1>17. ASSUME NEW c \in Conn, shutdown(c) PROVE EndsInTurn'
  BY <1>17, <1>1, MappedEmpty DEF shutdown, EndsInTurn, Sub, serverVars,
     acceptor, loops
<1>18. ASSUME NEW c \in Conn, peerConnects(c) PROVE EndsInTurn'
  BY <1>18, <1>1, MappedEmpty DEF peerConnects, EndsInTurn, Sub, serverVars,
     loops
<1>19. ASSUME NEW c \in Conn, peerGoes(c) PROVE EndsInTurn'
  BY <1>19, <1>1, MappedEmpty DEF peerGoes, EndsInTurn, Sub, serverVars,
     acceptor, loops
<1>20. CASE UNCHANGED vars
  BY <1>20, <1>1, MappedEmpty DEF vars, EndsInTurn, Sub, serverVars, acceptor,
     loops
<1>21. QED
  BY <1>2, <1>3, <1>4, <1>5, <1>6, <1>7, <1>8, <1>9, <1>10, <1>11, <1>12, <1>13,
     <1>14, <1>15, <1>16, <1>17, <1>18, <1>19, <1>20 DEF Next, Accepts,
     LoopStep, DestructorStep

LEMMA EmptyNext == IInv /\ [Next]_vars => LoopsEndEmpty'
<1> SUFFICES ASSUME IInv, [Next]_vars
             PROVE  LoopsEndEmpty'
  OBVIOUS
<1>1. /\ TypeOK /\ FunctorsMeant /\ EstablishedFirst /\ NamesMatch /\ Rooted
      /\ ToldByState /\ ConnsSound /\ BatchesRun /\ EndsInTurn
      /\ LoopsEndEmpty /\ UsedOnlyAlive /\ EveryoneIsTold
      /\ numThreads_ \in Nat /\ Base \in LoopId /\ Sub \subseteq LoopId /\ Base \notin Sub
      /\ conn \in [Conn -> ConnValue]
  BY Loops, Groups DEF IInv, ConnsTyped
<1>g. LostGrows
  BY LostNext
<1>2. ASSUME NEW onBase \in BOOLEAN, start(onBase) PROVE LoopsEndEmpty'
  <2>1. /\ Sub' = Sub /\ conn' = conn /\ quit_' = quit_ /\ server' = server
        /\ displaced' = displaced /\ dropped' = dropped
    BY <1>2 DEF start, Sub, lost
  <2>2. at \in [LoopId -> {"none", "poll", "run", "stopped", "gone"}]
    BY <1>1 DEF TypeOK
  <2>3. \A l \in LoopId : at'[l] \in {"poll", at[l]}
    BY <1>2, <2>2 DEF start
  <2>4. \A c \in Conn : conn[c].loop \in LoopId
    BY <1>1 DEF ConnValue
  <2>5. \A k \in Sub : quit_'[k] \/ at'[k] \in {"stopped", "gone"} => server' \in {"joining", "gone"}
    BY <1>1, <2>1, <2>3 DEF LoopsEndEmpty
  <2>6. \A c \in Conn : conn'[c].registered => at'[conn'[c].loop] # "none"
    BY <1>1, <2>1, <2>3, <2>4 DEF LoopsEndEmpty
  <2>7. \A c \in Conn : conn'[c].registered /\ conn'[c].loop \in Sub' /\ at'[conn'[c].loop] = "gone"
                         => c \in dropped' \cup displaced'
    BY <1>1, <2>1, <2>3, <2>4 DEF LoopsEndEmpty
  <2>8. QED
    BY <2>1, <2>5, <2>6, <2>7 DEF LoopsEndEmpty
<1>3. ASSUME NEW c \in Conn, newConnection(c) PROVE LoopsEndEmpty'
  <2>1. Sub' = Sub /\ at' = at /\ quit_' = quit_ /\ server' = server /\ at[Base] = "poll"
    BY <1>3 DEF newConnection, Handling, Sub, serverVars, loops
  <2>2. CASE pastTheEnd
    BY <1>3, <1>1, <1>g, <2>1, <2>2 DEF newConnection, LoopsEndEmpty, LostGrows
  <2>3. CASE ~pastTheEnd
    BY <1>3, <1>1, <1>g, <2>1, <2>3, Makes DEF LoopsEndEmpty, LostGrows
  <2>4. QED
    BY <2>2, <2>3
<1>4. ASSUME NEW l \in LoopId, doPendingFunctors(l) PROVE LoopsEndEmpty'
  BY <1>4, <1>1, <1>g DEF doPendingFunctors, LoopsEndEmpty, Sub, LostGrows, Handling, TypeOK, serverVars
<1>5. ASSUME NEW l \in LoopId, endOfBatch(l) PROVE LoopsEndEmpty'
  BY <1>5, <1>1, <1>g DEF endOfBatch, LoopsEndEmpty, Sub, LostGrows, TypeOK, serverVars
<1>6. ASSUME NEW l \in LoopId, loopGone(l) PROVE LoopsEndEmpty'
  <2>1. /\ Sub' = Sub /\ quit_' = quit_ /\ server' = server /\ conn' = conn /\ Defined
        /\ at' = [at EXCEPT ![l] = "gone"] /\ at[l] = "stopped"
        /\ dropped' = dropped \cup {c \in Conn : isPending(l, "connectDestroyed", c)}
    BY <1>6 DEF loopGone, Sub, serverVars
  <2>2. at \in [LoopId -> {"none", "poll", "run", "stopped", "gone"}]
    BY <1>1 DEF TypeOK
  <2>3. ASSUME NEW d \in Conn, conn[d].registered, conn[d].loop = l, l \in Sub
        PROVE  d \in dropped' \cup displaced'
    <3>1. Mapped = {}
      BY <1>1, <2>1, <2>3 DEF LoopsEndEmpty, EndsInTurn
    <3>2. ~MappedByName(d)
      BY <3>1, MappedEmpty DEF MappedByName
    <3>3. Needs(d)
      BY <2>1, <2>3 DEF Needs
    <3>4. Queues(l, Des(d)) \/ d \in displaced
      BY <1>1, <2>3, <3>2, <3>3 DEF Rooted
    <3>5. functors[l] = <<>>
      BY <1>1, <2>1 DEF BatchesRun
    <3>6. Queues(l, Des(d)) => isPending(l, "connectDestroyed", d)
      BY <3>5, InEmpty DEF Queues, In, isPending, Des
    <3>7. QED
      BY <1>g, <2>1, <3>4, <3>6 DEF LostGrows
  <2>4. QED
    BY <1>1, <1>g, <2>1, <2>2, <2>3 DEF LoopsEndEmpty, LostGrows
<1>7. ASSUME NEW l \in LoopId, NEW c \in Conn, connectEstablished(l, c) PROVE LoopsEndEmpty'
  <2>1. Sub' = Sub /\ at' = at /\ quit_' = quit_ /\ server' = server /\ at[l] = "run"
    BY <1>7 DEF connectEstablished, Runs, Sub, serverVars, loops, Handling
  <2>2. QED
    BY <1>7, <1>1, <1>g, <2>1, Establishes DEF LoopsEndEmpty, LostGrows
<1>8. ASSUME NEW l \in LoopId, NEW c \in Conn, connectDestroyed(l, c) PROVE LoopsEndEmpty'
  <2>1. Sub' = Sub /\ at' = at /\ quit_' = quit_ /\ server' = server /\ Destroy(c)
    BY <1>8 DEF connectDestroyed, Runs, Sub, serverVars, loops, Handling
  <2>2. QED
    BY <1>8, <1>1, <1>g, <2>1, Destroys DEF LoopsEndEmpty, LostGrows
<1>9. ASSUME NEW c \in Conn, removeConnectionInLoop(c) PROVE LoopsEndEmpty'
  BY <1>9, <1>1, <1>g DEF removeConnectionInLoop, Runs, LoopsEndEmpty, Sub, LostGrows,
     serverVars, loops
<1>10. ASSUME NEW c \in Conn, handleClose(c) PROVE LoopsEndEmpty'
  <2>1. Sub' = Sub /\ at' = at /\ quit_' = quit_ /\ server' = server
    BY <1>10 DEF handleClose, Runs, Sub, serverVars, loops, Handling
  <2>2. QED
    BY <1>10, <1>1, <1>g, <2>1, Closes DEF LoopsEndEmpty, LostGrows
<1>11. CASE listen
  BY <1>11, <1>1, <1>g DEF listen, LoopsEndEmpty, Sub, LostGrows, Runs, serverVars, loops
<1>12. CASE quit
  BY <1>12, <1>1, <1>g DEF quit, LoopsEndEmpty, Sub, LostGrows, TypeOK, serverVars
<1>13. CASE destroyServer
  BY <1>13, <1>1, <1>g DEF destroyServer, LoopsEndEmpty, Sub, LostGrows, loops
<1>14. ASSUME NEW c \in Conn, destroyConnection(c) PROVE LoopsEndEmpty'
  <2>1. Sub' = Sub /\ at' = at /\ quit_' = quit_ /\ server' = server
    BY <1>14 DEF destroyConnection, Sub, serverVars, loops
  <2>2. conn' = conn \/ Destroy(c)
    BY <1>14 DEF destroyConnection
  <2>3. QED
    BY <1>1, <1>g, <2>1, <2>2, Destroys DEF LoopsEndEmpty, LostGrows
<1>15. ASSUME NEW l \in Sub, quitLoop(l) PROVE LoopsEndEmpty'
  BY <1>15, <1>1, <1>g DEF quitLoop, LoopsEndEmpty, Sub, LostGrows, TypeOK
<1>16. CASE serverGone
  BY <1>16, <1>1, <1>g DEF serverGone, LoopsEndEmpty, Sub, LostGrows, loops
<1>17. ASSUME NEW c \in Conn, shutdown(c) PROVE LoopsEndEmpty'
  <2>1. Sub' = Sub /\ at' = at /\ quit_' = quit_ /\ server' = server
    BY <1>17 DEF shutdown, Runs, Sub, serverVars, loops, Handling
  <2>2. QED
    BY <1>17, <1>1, <1>g, <2>1, ShutsDown DEF ConnsSound, LoopsEndEmpty, LostGrows
<1>18. ASSUME NEW c \in Conn, peerConnects(c) PROVE LoopsEndEmpty'
  BY <1>18, <1>1, <1>g DEF peerConnects, LoopsEndEmpty, Sub, LostGrows, serverVars, loops
<1>19. ASSUME NEW c \in Conn, peerGoes(c) PROVE LoopsEndEmpty'
  BY <1>19, <1>1, <1>g DEF peerGoes, LoopsEndEmpty, Sub, LostGrows, serverVars, loops
<1>20. CASE UNCHANGED vars
  BY <1>20, <1>1 DEF vars, LoopsEndEmpty, Sub, serverVars, loops, lost
<1>21. QED
  BY <1>2, <1>3, <1>4, <1>5, <1>6, <1>7, <1>8, <1>9, <1>10, <1>11, <1>12, <1>13,
     <1>14, <1>15, <1>16, <1>17, <1>18, <1>19, <1>20 DEF Next, Accepts,
     LoopStep, DestructorStep

\* A destroyed server is met in the base loop only, and only if it was
\* destroyed in there.
LEMMA AfterTheEnd ==
  ASSUME IInv, server = "gone", NEW c \in Conn, at[conn[c].loop] \in {"poll", "run"}
  PROVE  conn[c].loop = Base /\ inside
BY DEF IInv, EndsInTurn, ConnsSound

LEMMA GoneBase ==
  ASSUME IInv, server = "gone", at[Base] \in {"poll", "run"}
  PROVE  inside
BY DEF IInv, EndsInTurn

\* No connection is left to be closed then.
LEMMA NobodyCloses ==
  ASSUME IInv, server = "gone", NEW c \in Conn, c \in Owned, conn[c].loop = Base,
         conn[c].state_ # "none"
  PROVE  conn[c].state_ = "kDisconnected"
<1>1. Mapped = {}
  BY DEF IInv, EndsInTurn
<1>2. PICK k \in LoopId : c \in Bound(pendingFunctors_[k]) \/ c \in Bound(functors[k])
  BY <1>1 DEF Owned
<1>3. pendingFunctors_[k] \in Seq(FunctorValue) /\ functors[k] \in Seq(FunctorValue)
  BY DEF IInv, TypeOK
<1>4. PICK f \in FunctorValue : Queues(k, f) /\ f[2] = c
  BY <1>2, <1>3 DEF Bound, Queues, In
<1>5. Meant(f, k)
  BY <1>4 DEF IInv, FunctorsMeant
<1>6. c # NoConn
  BY DEF Conn, NoConn
<1>7. QED
  BY <1>4, <1>5, <1>6 DEF Meant, Listen, Est, Des, Rem

LEMMA AliveNext == IInv /\ [Next]_vars => UsedOnlyAlive'
<1> SUFFICES ASSUME IInv, [Next]_vars
             PROVE  UsedOnlyAlive'
  OBVIOUS
<1>1. /\ TypeOK /\ FunctorsMeant /\ EstablishedFirst /\ NamesMatch /\ Rooted
      /\ ToldByState /\ ConnsSound /\ BatchesRun /\ EndsInTurn
      /\ LoopsEndEmpty /\ UsedOnlyAlive /\ EveryoneIsTold
      /\ numThreads_ \in Nat /\ Base \in LoopId /\ Sub \subseteq LoopId /\ Base \notin Sub
      /\ conn \in [Conn -> ConnValue]
  BY Loops, Groups DEF IInv, ConnsTyped
<1>2. ASSUME NEW onBase \in BOOLEAN, start(onBase) PROVE UsedOnlyAlive'
  BY <1>2, <1>1 DEF start, UsedOnlyAlive
<1>3. ASSUME NEW c \in Conn, newConnection(c) PROVE UsedOnlyAlive'
  <2>1. misused = "nothing"
    BY <1>3 DEF newConnection, Handling, Defined
  <2>2. QED
    BY <1>3, <2>1 DEF newConnection, UsedOnlyAlive
<1>4. ASSUME NEW l \in LoopId, doPendingFunctors(l) PROVE UsedOnlyAlive'
  BY <1>4, <1>1 DEF doPendingFunctors, UsedOnlyAlive, serverVars
<1>5. ASSUME NEW l \in LoopId, endOfBatch(l) PROVE UsedOnlyAlive'
  BY <1>5, <1>1 DEF endOfBatch, UsedOnlyAlive, serverVars
<1>6. ASSUME NEW l \in LoopId, loopGone(l) PROVE UsedOnlyAlive'
  BY <1>6, <1>1 DEF loopGone, UsedOnlyAlive, serverVars
<1>7. ASSUME NEW l \in LoopId, NEW c \in Conn, connectEstablished(l, c) PROVE UsedOnlyAlive'
  BY <1>7, <1>1 DEF connectEstablished, Runs, Establish, UsedOnlyAlive,
     serverVars
<1>8. ASSUME NEW l \in LoopId, NEW c \in Conn, connectDestroyed(l, c) PROVE UsedOnlyAlive'
  BY <1>8, <1>1 DEF connectDestroyed, Runs, Destroy, destroyed, isReported,
     UsedOnlyAlive, serverVars
<1>9. ASSUME NEW c \in Conn, removeConnectionInLoop(c) PROVE UsedOnlyAlive'
  <2>1. inside' = inside /\ at[Base] = "run"
    BY <1>9 DEF removeConnectionInLoop, serverVars, Runs
  <2>2. CASE server = "gone"
    BY <1>1, <2>1, <2>2, GoneBase DEF UsedOnlyAlive
  <2>3. CASE server # "gone"
    BY <1>9, <1>1, <2>1, <2>3 DEF removeConnectionInLoop, UsedOnlyAlive
  <2>4. QED
    BY <2>2, <2>3
<1>10. ASSUME NEW c \in Conn, handleClose(c) PROVE UsedOnlyAlive'
  <2>1. inside' = inside /\ at[conn[c].loop] = "poll"
    BY <1>10 DEF handleClose, serverVars, Handling
  <2>2. CASE server = "gone"
    BY <1>1, <2>1, <2>2, AfterTheEnd DEF UsedOnlyAlive
  <2>3. CASE server # "gone"
    BY <1>10, <1>1, <2>1, <2>3 DEF handleClose, UsedOnlyAlive
  <2>4. QED
    BY <2>2, <2>3
<1>11. CASE listen
  <2>1. inside' = inside /\ at[Base] = "run"
    BY <1>11 DEF listen, serverVars, Runs
  <2>2. CASE server = "gone"
    BY <1>1, <2>1, <2>2, GoneBase DEF UsedOnlyAlive
  <2>3. CASE server # "gone"
    BY <1>11, <1>1, <2>1, <2>3 DEF listen, UsedOnlyAlive
  <2>4. QED
    BY <2>2, <2>3
<1>12. CASE quit
  BY <1>12, <1>1 DEF quit, UsedOnlyAlive, serverVars
<1>13. CASE destroyServer
  BY <1>13, <1>1 DEF destroyServer, UsedOnlyAlive, Defined
<1>14. ASSUME NEW c \in Conn, destroyConnection(c) PROVE UsedOnlyAlive'
  BY <1>14, <1>1 DEF destroyConnection, Destroy, destroyed, isReported,
     UsedOnlyAlive, serverVars
<1>15. ASSUME NEW l \in Sub, quitLoop(l) PROVE UsedOnlyAlive'
  BY <1>15, <1>1 DEF quitLoop, UsedOnlyAlive
<1>16. CASE serverGone
  BY <1>16, <1>1 DEF serverGone, UsedOnlyAlive
<1>17. ASSUME NEW c \in Conn, shutdown(c) PROVE UsedOnlyAlive'
  BY <1>17, <1>1 DEF shutdown, UsedOnlyAlive, serverVars
<1>18. ASSUME NEW c \in Conn, peerConnects(c) PROVE UsedOnlyAlive'
  BY <1>18, <1>1 DEF peerConnects, UsedOnlyAlive, serverVars
<1>19. ASSUME NEW c \in Conn, peerGoes(c) PROVE UsedOnlyAlive'
  BY <1>19, <1>1 DEF peerGoes, UsedOnlyAlive, serverVars
<1>20. CASE UNCHANGED vars
  BY <1>20, <1>1 DEF vars, UsedOnlyAlive, serverVars
<1>21. QED
  BY <1>2, <1>3, <1>4, <1>5, <1>6, <1>7, <1>8, <1>9, <1>10, <1>11, <1>12, <1>13,
     <1>14, <1>15, <1>16, <1>17, <1>18, <1>19, <1>20 DEF Next, Accepts,
     LoopStep, DestructorStep

\* Who has been told, in a state in which the server is gone.
Told(d) ==
    \/ ups[d] = downs[d]
    \/ conn[d].state_ = "kDisconnecting"
    \/ d \in dropped \cup displaced

LEMMA ToldStays ==
  ASSUME [Next]_vars, NEW d \in Conn, Told(d), conn'[d] = conn[d],
         ups'[d] = ups[d], downs'[d] = downs[d]
  PROVE  Told(d)'
BY LostNext DEF Told, LostGrows

LEMMA EveryoneNext == IInv /\ [Next]_vars => EveryoneIsTold'
<1> SUFFICES ASSUME IInv, [Next]_vars
             PROVE  EveryoneIsTold'
  OBVIOUS
<1> SUFFICES ASSUME server' = "gone" PROVE EveryoneIsTold'
  BY DEF EveryoneIsTold
<1>1. /\ TypeOK /\ FunctorsMeant /\ EstablishedFirst /\ NamesMatch /\ Rooted
      /\ ToldByState /\ ConnsSound /\ BatchesRun /\ EndsInTurn
      /\ LoopsEndEmpty /\ UsedOnlyAlive /\ EveryoneIsTold
      /\ numThreads_ \in Nat /\ Base \in LoopId /\ Sub \subseteq LoopId /\ Base \notin Sub
      /\ conn \in [Conn -> ConnValue]
  BY Loops, Groups DEF IInv, ConnsTyped
<1>n. [Next]_vars
  OBVIOUS
<1>2. ASSUME NEW onBase \in BOOLEAN, start(onBase) PROVE EveryoneIsTold'
  <2>1. conn' = conn /\ ups' = ups /\ downs' = downs
    BY <1>2 DEF start
  <2>2. server = "gone"
    BY <1>1, <1>2 DEF start
  <2>3. QED
    BY <1>1, <2>1, <2>2, ToldStays DEF EveryoneIsTold, Told
<1>3. ASSUME NEW c \in Conn, newConnection(c) PROVE EveryoneIsTold'
  <2>1. server = "gone" /\ listening
    BY <1>3, <1>1 DEF newConnection, serverVars
  <2>2. QED
    BY <1>1, <2>1 DEF EndsInTurn
<1>4. ASSUME NEW l \in LoopId, doPendingFunctors(l) PROVE EveryoneIsTold'
  <2>1. conn' = conn /\ ups' = ups /\ downs' = downs
    BY <1>4 DEF doPendingFunctors, told
  <2>2. server = "gone"
    BY <1>1, <1>4 DEF doPendingFunctors, serverVars
  <2>3. QED
    BY <1>1, <2>1, <2>2, ToldStays DEF EveryoneIsTold, Told
<1>5. ASSUME NEW l \in LoopId, endOfBatch(l) PROVE EveryoneIsTold'
  <2>1. conn' = conn /\ ups' = ups /\ downs' = downs
    BY <1>5 DEF endOfBatch, told
  <2>2. server = "gone"
    BY <1>1, <1>5 DEF endOfBatch, serverVars
  <2>3. QED
    BY <1>1, <2>1, <2>2, ToldStays DEF EveryoneIsTold, Told
<1>6. ASSUME NEW l \in LoopId, loopGone(l) PROVE EveryoneIsTold'
  <2>1. conn' = conn /\ ups' = ups /\ downs' = downs
    BY <1>6 DEF loopGone, told
  <2>2. server = "gone"
    BY <1>1, <1>6 DEF loopGone, serverVars
  <2>3. QED
    BY <1>1, <2>1, <2>2, ToldStays DEF EveryoneIsTold, Told
<1>7. ASSUME NEW l \in LoopId, NEW c \in Conn, connectEstablished(l, c) PROVE EveryoneIsTold'
  <2>1. server = "gone" /\ at[l] = "run"
    BY <1>7, <1>1 DEF connectEstablished, Runs, serverVars
  <2>2. QED
    BY <1>7, <1>1, <2>1, Establishes, AfterTheEnd
<1>8. ASSUME NEW l \in LoopId, NEW c \in Conn, connectDestroyed(l, c) PROVE EveryoneIsTold'
  <2>1. /\ server = "gone" /\ at[l] = "run" /\ Runs(l, "connectDestroyed", c)
    BY <1>8, <1>1 DEF connectDestroyed, Runs, serverVars
  <2>2. l = conn[c].loop /\ (l = Base => conn[c].state_ = "kDisconnected")
    BY <1>1, <2>1, RunsMeant, MeantDes DEF Des
  <2>3. l = Base
    BY <1>1, <2>1, <2>2, AfterTheEnd
  <2>4. Destroy(c) /\ ups' = ups
    BY <1>8 DEF connectDestroyed, Destroy
  <2>5. /\ \A d \in Conn : d # c => conn'[d] = conn[d] /\ downs'[d] = downs[d]
        /\ downs'[c] = downs[c]
    BY <1>1, <2>2, <2>3, <2>4, Destroys
  <2>6. ASSUME NEW d \in Conn PROVE Told(d)'
    <3>1. Told(d)
      BY <1>1, <2>1 DEF EveryoneIsTold, Told
    <3>2. CASE d # c
      BY <1>1, <2>1, <2>4, <2>5, <3>1, <3>2, ToldStays
    <3>3. CASE d = c
      <4>1. ups[c] = 1 /\ downs[c] = 1
        BY <1>1, <2>2, <2>3 DEF ToldByState
      <4>2. QED
        BY <2>4, <2>5, <3>3, <4>1 DEF Told
    <3>4. QED
      BY <3>2, <3>3
  <2>7. QED
    BY <2>6 DEF EveryoneIsTold, Told
<1>9. ASSUME NEW c \in Conn, removeConnectionInLoop(c) PROVE EveryoneIsTold'
  <2>1. conn' = conn /\ ups' = ups /\ downs' = downs
    BY <1>9 DEF removeConnectionInLoop, told
  <2>2. server = "gone"
    BY <1>1, <1>9 DEF removeConnectionInLoop, Runs, serverVars
  <2>3. QED
    BY <1>1, <2>1, <2>2, ToldStays DEF EveryoneIsTold, Told
<1>10. ASSUME NEW c \in Conn, handleClose(c) PROVE EveryoneIsTold'
  <2>1. /\ server = "gone" /\ at[conn[c].loop] = "poll" /\ c \in Owned
        /\ conn[c].state_ \in {"kConnected", "kDisconnecting"}
    BY <1>10, <1>1 DEF handleClose, Handling, serverVars
  <2>2. conn[c].loop = Base
    BY <1>1, <2>1, AfterTheEnd
  <2>3. QED
    BY <1>1, <2>1, <2>2, NobodyCloses
<1>11. CASE listen
  <2>1. conn' = conn /\ ups' = ups /\ downs' = downs
    BY <1>11 DEF listen, told
  <2>2. server = "gone"
    BY <1>1, <1>11 DEF listen, Runs, serverVars
  <2>3. QED
    BY <1>1, <2>1, <2>2, ToldStays DEF EveryoneIsTold, Told
<1>12. CASE quit
  <2>1. conn' = conn /\ ups' = ups /\ downs' = downs
    BY <1>12 DEF quit, told
  <2>2. server = "gone"
    BY <1>1, <1>12 DEF quit, serverVars
  <2>3. QED
    BY <1>1, <2>1, <2>2, ToldStays DEF EveryoneIsTold, Told
<1>13. CASE destroyServer
  BY <1>13, <1>1 DEF destroyServer
<1>14. ASSUME NEW c \in Conn, destroyConnection(c) PROVE EveryoneIsTold'
  BY <1>14, <1>1 DEF destroyConnection, serverVars
<1>15. ASSUME NEW l \in Sub, quitLoop(l) PROVE EveryoneIsTold'
  BY <1>15, <1>1 DEF quitLoop
<1>16. CASE serverGone
  <2>1. /\ Mapped = {} /\ Defined /\ server # "gone"
        /\ conn' = conn /\ ups' = ups /\ downs' = downs
    BY <1>16, <1>1 DEF serverGone, EndsInTurn, told
  <2>2. ASSUME NEW d \in Conn PROVE Told(d)
    <3>1. CASE conn[d].state_ = "kConnected" /\ conn[d].loop = Base
      <4>1. Needs(d)
        BY <1>1, <2>1, <3>1 DEF Needs, ConnsSound, EndsInTurn
      <4>2. ~MappedByName(d)
        BY <2>1, MappedEmpty DEF MappedByName
      <4>3. ~Queues(Base, Des(d))
        BY <1>1, <3>1, MeantDes, Functors DEF FunctorsMeant
      <4>4. QED
        BY <1>1, <3>1, <4>1, <4>2, <4>3 DEF Rooted, Told
    <3>2. CASE conn[d].state_ = "kConnected" /\ conn[d].loop # Base
      <4>1. conn[d].registered /\ conn[d].loop \in Sub /\ at[conn[d].loop] # "none"
        BY <1>1, <3>2 DEF ConnsSound, LoopsEndEmpty
      <4>2. at[conn[d].loop] = "gone"
        BY <1>16, <4>1 DEF serverGone, joins
      <4>3. QED
        BY <1>1, <4>1, <4>2 DEF LoopsEndEmpty, Told
    <3>3. CASE conn[d].state_ # "kConnected"
      <4>1. conn[d].state_ \in State
        BY <1>1 DEF ConnValue
      <4>2. QED
        BY <1>1, <3>3, <4>1 DEF State, ToldByState, Told
    <3>4. QED
      BY <3>1, <3>2, <3>3
  <2>3. \A d \in Conn : Told(d)'
    BY <1>1, <2>1, <2>2, ToldStays
  <2>4. QED
    BY <2>3 DEF EveryoneIsTold, Told
<1>17. ASSUME NEW c \in Conn, shutdown(c) PROVE EveryoneIsTold'
  <2>1. /\ server = "gone" /\ at[conn[c].loop] = "poll" /\ c \in Owned
        /\ conn[c].state_ \in {"kConnected", "kDisconnecting"}
    BY <1>17, <1>1 DEF shutdown, Handling, serverVars
  <2>2. conn[c].loop = Base
    BY <1>1, <2>1, AfterTheEnd
  <2>3. QED
    BY <1>1, <2>1, <2>2, NobodyCloses
<1>18. ASSUME NEW c \in Conn, peerConnects(c) PROVE EveryoneIsTold'
  <2>1. conn' = conn /\ ups' = ups /\ downs' = downs
    BY <1>18 DEF peerConnects, told
  <2>2. server = "gone"
    BY <1>1, <1>18 DEF peerConnects, serverVars
  <2>3. QED
    BY <1>1, <2>1, <2>2, ToldStays DEF EveryoneIsTold, Told
<1>19. ASSUME NEW c \in Conn, peerGoes(c) PROVE EveryoneIsTold'
  <2>1. conn' = conn /\ ups' = ups /\ downs' = downs
    BY <1>19 DEF peerGoes, told
  <2>2. server = "gone"
    BY <1>1, <1>19 DEF peerGoes, serverVars
  <2>3. QED
    BY <1>1, <2>1, <2>2, ToldStays DEF EveryoneIsTold, Told
<1>20. CASE UNCHANGED vars
  BY <1>20, <1>1 DEF vars, EveryoneIsTold, serverVars, told, lost
<1>21. QED
  BY <1>2, <1>3, <1>4, <1>5, <1>6, <1>7, <1>8, <1>9, <1>10, <1>11, <1>12, <1>13,
     <1>14, <1>15, <1>16, <1>17, <1>18, <1>19, <1>20 DEF Next, Accepts,
     LoopStep, DestructorStep

-----------------------------------------------------------------------------
(***************************************************************************)
(* Who will remove what is registered.                                     *)
(***************************************************************************)
LEMMA Needed ==
  ASSUME IInv, NEW d \in Conn, Needs(d)
  PROVE  conn[d].state_ # "none"
<1>1. conn[d].loop \in LoopId /\ Est(d) \in FunctorValue
  BY Functors DEF IInv, TypeOK
<1>2. Queues(conn[d].loop, Est(d)) => conn[d].state_ = "kConnecting"
  BY <1>1, MeantEst DEF IInv, FunctorsMeant
<1>3. conn[d].registered => conn[d].state_ # "none"
  BY DEF IInv, ConnsSound
<1>4. QED
  BY <1>2, <1>3 DEF Needs

LEMMA NeedsNext == IInv /\ [Next]_vars => \A d \in Conn : Needs(d)' => Needs(d) \/ newConnection(d)
<1> SUFFICES ASSUME IInv, [Next]_vars, NEW d \in Conn, Needs(d)'
             PROVE  Needs(d) \/ newConnection(d)
  OBVIOUS
<1>1. /\ TypeOK /\ FunctorsMeant /\ EstablishedFirst /\ NamesMatch /\ Rooted
      /\ ToldByState /\ ConnsSound /\ BatchesRun /\ EndsInTurn
      /\ LoopsEndEmpty /\ UsedOnlyAlive /\ EveryoneIsTold
      /\ numThreads_ \in Nat /\ Base \in LoopId /\ Sub \subseteq LoopId /\ Base \notin Sub
      /\ conn \in [Conn -> ConnValue]
  BY Loops, Groups DEF IInv, ConnsTyped
<1>t. \A k \in LoopId : pendingFunctors_[k] \in Seq(FunctorValue) /\ functors[k] \in Seq(FunctorValue)
  BY <1>1 DEF TypeOK
<1>c. conn[d].loop \in LoopId
  BY <1>1 DEF ConnValue
<1>2. ASSUME NEW onBase \in BOOLEAN, start(onBase) PROVE Needs(d) \/ newConnection(d)
  <2>1. /\ functors' = functors /\ conn' = conn /\ Defined
        /\ pendingFunctors_' = pendingFunctors_ \/ pendingFunctors_' = Queued(Base, "listen", NoConn)
    BY <1>2 DEF start
  <2>2. at'[conn[d].loop] # "gone" => at[conn[d].loop] # "gone"
    BY <1>2, <1>1, <1>c DEF start, EndsInTurn
  <2>3. In(pendingFunctors_'[conn[d].loop], Est(d)) => In(pendingFunctors_[conn[d].loop], Est(d))
    BY <1>1, <1>c, <2>1, Queues1, Functors, Distinct DEF Listen
  <2>4. QED
    BY <1>1, <2>1, <2>2, <2>3 DEF Needs, Queues
<1>3. ASSUME NEW c \in Conn, newConnection(c) PROVE Needs(d) \/ newConnection(d)
  <2>1. /\ functors' = functors /\ at' = at /\ Defined
    BY <1>3 DEF newConnection, loops, Handling
  <2>2. CASE pastTheEnd
    BY <1>3, <2>2, <2>1 DEF newConnection, Needs, Queues
  <2>3. CASE ~pastTheEnd /\ d # c
    <3>1. conn'[d] = conn[d] /\ nextLoop \in LoopId
      BY <1>3, <1>1, <2>3, Makes
    <3>2. In(pendingFunctors_'[conn[d].loop], Est(d)) => In(pendingFunctors_[conn[d].loop], Est(d))
      <4>1. CASE pendingFunctors_' = pendingFunctors_
        BY <4>1
      <4>2. CASE pendingFunctors_' = Queued(nextLoop, "connectEstablished", c)
        <5>1. /\ <<"connectEstablished", c>> \in FunctorValue
              /\ <<"connectEstablished", c>> # Est(d)
          BY <2>3, Functors DEF Est
        <5>2. QED
          BY <1>1, <1>c, <3>1, <4>2, <5>1, Queues1
      <4>3. QED
        BY <1>3, <1>1, <2>3, <4>1, <4>2, Makes
    <3>3. QED
      BY <1>1, <2>1, <3>1, <3>2 DEF Needs, Queues
  <2>4. QED
    BY <1>3, <2>2, <2>3
<1>4. ASSUME NEW l \in LoopId, doPendingFunctors(l) PROVE Needs(d) \/ newConnection(d)
  <2>1. \A k \in LoopId :
           \/ functors'[k] = functors[k] /\ pendingFunctors_'[k] = pendingFunctors_[k]
           \/ functors'[k] = pendingFunctors_[k] /\ pendingFunctors_'[k] = <<>>
    BY <1>4, <1>1 DEF doPendingFunctors, TypeOK
  <2>2. \A k \in LoopId : at'[k] # "gone" => at[k] # "gone"
    BY <1>4, <1>1 DEF doPendingFunctors, Handling
  <2>3. conn' = conn /\ Defined
    BY <1>4 DEF doPendingFunctors, Handling
  <2>4. QED
    BY <1>1, <1>c, <2>1, <2>2, <2>3, InEmpty DEF Needs, Queues
<1>5. ASSUME NEW l \in LoopId, endOfBatch(l) PROVE Needs(d) \/ newConnection(d)
  <2>1. functors' = functors /\ pendingFunctors_' = pendingFunctors_ /\ conn' = conn /\ Defined
    BY <1>5 DEF endOfBatch, queues
  <2>2. \A k \in LoopId : at'[k] # "gone" => at[k] # "gone"
    BY <1>5, <1>1 DEF endOfBatch
  <2>3. QED
    BY <1>1, <1>c, <2>1, <2>2 DEF Needs, Queues
<1>6. ASSUME NEW l \in LoopId, loopGone(l) PROVE Needs(d) \/ newConnection(d)
  <2>1. /\ functors' = functors /\ conn' = conn /\ Defined
        /\ \A k \in LoopId : pendingFunctors_'[k] = pendingFunctors_[k] \/ pendingFunctors_'[k] = <<>>
    BY <1>6, <1>1 DEF loopGone
  <2>2. \A k \in LoopId : at'[k] # "gone" => at[k] # "gone"
    BY <1>6, <1>1 DEF loopGone
  <2>3. QED
    BY <1>1, <1>c, <2>1, <2>2, InEmpty DEF Needs, Queues
<1>7. ASSUME NEW l \in LoopId, NEW c \in Conn, connectEstablished(l, c) PROVE Needs(d) \/ newConnection(d)
  <2>1. /\ Runs(l, "connectEstablished", c) /\ pendingFunctors_' = pendingFunctors_
        /\ at' = at /\ Defined
    BY <1>7 DEF connectEstablished, Runs, loops
  <2>2. \A k \in LoopId : \A f : In(functors'[k], f) => In(functors[k], f)
    BY <1>1, <2>1, Runs1
  <2>3. CASE d # c
    BY <1>7, <1>1, <1>c, <2>1, <2>2, <2>3, Establishes DEF Needs, Queues
  <2>4. CASE d = c
    <3>1. In(functors[l], Est(c)) /\ l = conn[c].loop /\ conn'[c].loop = l
      BY <1>7, <1>1, <2>1, Runs1, Establishes DEF Est
    <3>2. QED
      BY <2>1, <2>4, <3>1 DEF Needs, Queues
  <2>5. QED
    BY <2>3, <2>4
<1>8. ASSUME NEW l \in LoopId, NEW c \in Conn, connectDestroyed(l, c) PROVE Needs(d) \/ newConnection(d)
  <2>1. /\ Runs(l, "connectDestroyed", c) /\ pendingFunctors_' = pendingFunctors_
        /\ at' = at /\ Defined /\ Destroy(c)
    BY <1>8 DEF connectDestroyed, Runs, loops
  <2>2. \A k \in LoopId : \A f : In(functors'[k], f) => In(functors[k], f)
    BY <1>1, <2>1, Runs1
  <2>3. conn'[d].loop = conn[d].loop /\ (conn'[d].registered => conn[d].registered)
    BY <1>1, <2>1, Destroys
  <2>4. QED
    BY <1>c, <2>1, <2>2, <2>3 DEF Needs, Queues
<1>9. ASSUME NEW c \in Conn, removeConnectionInLoop(c) PROVE Needs(d) \/ newConnection(d)
  <2>q. ASSUME NEW k \in LoopId, NEW n, <<n, c>> \in FunctorValue, n # "connectEstablished",
               pendingFunctors_' = Queued(k, n, c)
        PROVE  In(pendingFunctors_'[conn[d].loop], Est(d)) => In(pendingFunctors_[conn[d].loop], Est(d))
    <3>1. <<n, c>> # Est(d)
      BY <2>q DEF Est
    <3>2. QED
      BY <1>1, <1>c, <2>q, <3>1, Queues1
  <2>l. conn[c].loop \in LoopId /\ Base \in LoopId
    BY <1>1 DEF ConnValue
  <2>v. <<"connectDestroyed", c>> \in FunctorValue /\ <<"removeConnectionInLoop", c>> \in FunctorValue
    BY Functors DEF Des, Rem
  <2>1. /\ Runs(Base, "removeConnectionInLoop", c)
        /\ at' = at /\ conn' = conn /\ Defined
    BY <1>9 DEF removeConnectionInLoop, Runs, loops
  <2>2. \A k \in LoopId : \A f : In(functors'[k], f) => In(functors[k], f)
    BY <1>1, <2>1, Runs1
  <2>3. In(pendingFunctors_'[conn[d].loop], Est(d)) => In(pendingFunctors_[conn[d].loop], Est(d))
    BY <1>9, <2>q, <2>l, <2>v DEF removeConnectionInLoop, Removes
  <2>4. QED
    BY <1>c, <2>1, <2>2, <2>3 DEF Needs, Queues
<1>10. ASSUME NEW c \in Conn, handleClose(c) PROVE Needs(d) \/ newConnection(d)
  <2>q. ASSUME NEW k \in LoopId, NEW n, <<n, c>> \in FunctorValue, n # "connectEstablished",
               pendingFunctors_' = Queued(k, n, c)
        PROVE  In(pendingFunctors_'[conn[d].loop], Est(d)) => In(pendingFunctors_[conn[d].loop], Est(d))
    <3>1. <<n, c>> # Est(d)
      BY <2>q DEF Est
    <3>2. QED
      BY <1>1, <1>c, <2>q, <3>1, Queues1
  <2>l. conn[c].loop \in LoopId /\ Base \in LoopId
    BY <1>1 DEF ConnValue
  <2>v. <<"connectDestroyed", c>> \in FunctorValue /\ <<"removeConnectionInLoop", c>> \in FunctorValue
    BY Functors DEF Des, Rem
  <2>1. functors' = functors /\ at' = at /\ Defined
    BY <1>10 DEF handleClose, Handling, loops
  <2>2. conn'[d].loop = conn[d].loop /\ (conn'[d].registered => conn[d].registered)
    BY <1>10, <1>1, Closes
  <2>3. In(pendingFunctors_'[conn[d].loop], Est(d)) => In(pendingFunctors_[conn[d].loop], Est(d))
    BY <1>10, <2>q, <2>l, <2>v DEF handleClose, Removes
  <2>4. QED
    BY <2>1, <2>2, <2>3 DEF Needs, Queues
<1>11. CASE listen
  <2>1. /\ Runs(Base, "listen", NoConn) /\ pendingFunctors_' = pendingFunctors_
        /\ at' = at /\ conn' = conn /\ Defined
    BY <1>11 DEF listen, Runs, loops
  <2>2. \A k \in LoopId : \A f : In(functors'[k], f) => In(functors[k], f)
    BY <1>1, <2>1, Runs1
  <2>3. QED
    BY <1>c, <2>1, <2>2 DEF Needs, Queues
<1>12. CASE quit
  BY <1>12, <1>1 DEF quit, Needs, Defined, Queues, queues
<1>13. CASE destroyServer
  BY <1>13, <1>1 DEF destroyServer, Needs, Defined, Queues, queues, loops
<1>14. ASSUME NEW c \in Conn, destroyConnection(c) PROVE Needs(d) \/ newConnection(d)
  <2>q. ASSUME NEW k \in LoopId, NEW n, <<n, c>> \in FunctorValue, n # "connectEstablished",
               pendingFunctors_' = Queued(k, n, c)
        PROVE  In(pendingFunctors_'[conn[d].loop], Est(d)) => In(pendingFunctors_[conn[d].loop], Est(d))
    <3>1. <<n, c>> # Est(d)
      BY <2>q DEF Est
    <3>2. QED
      BY <1>1, <1>c, <2>q, <3>1, Queues1
  <2>l. conn[c].loop \in LoopId /\ Base \in LoopId
    BY <1>1 DEF ConnValue
  <2>v. <<"connectDestroyed", c>> \in FunctorValue /\ <<"removeConnectionInLoop", c>> \in FunctorValue
    BY Functors DEF Des, Rem
  <2>1. functors' = functors /\ at' = at /\ Defined
    BY <1>14 DEF destroyConnection, loops
  <2>2. conn'[d].loop = conn[d].loop /\ (conn'[d].registered => conn[d].registered)
    BY <1>14, <1>1, Destroys DEF destroyConnection
  <2>3. In(pendingFunctors_'[conn[d].loop], Est(d)) => In(pendingFunctors_[conn[d].loop], Est(d))
    BY <1>14, <2>q, <2>l, <2>v DEF destroyConnection, handedOver
  <2>4. QED
    BY <2>1, <2>2, <2>3 DEF Needs, Queues
<1>15. ASSUME NEW l \in Sub, quitLoop(l) PROVE Needs(d) \/ newConnection(d)
  BY <1>15, <1>1 DEF quitLoop, Needs, Defined, Queues, queues
<1>16. CASE serverGone
  BY <1>16, <1>1 DEF serverGone, Needs, Defined, Queues, queues, loops
<1>17. ASSUME NEW c \in Conn, shutdown(c) PROVE Needs(d) \/ newConnection(d)
  <2>1. /\ functors' = functors /\ pendingFunctors_' = pendingFunctors_ /\ at' = at /\ Defined
    BY <1>17 DEF shutdown, Handling, loops, queues
  <2>2. conn'[d].loop = conn[d].loop /\ (conn'[d].registered => conn[d].registered)
    <3>1. CASE d = c
      BY <1>17, <1>1, <3>1, ShutsDown DEF ConnsSound
    <3>2. CASE d # c
      BY <1>17, <1>1, <3>2, ShutsDown
    <3>3. QED
      BY <3>1, <3>2
  <2>3. QED
    BY <2>1, <2>2 DEF Needs, Queues
<1>18. ASSUME NEW c \in Conn, peerConnects(c) PROVE Needs(d) \/ newConnection(d)
  BY <1>18, <1>1 DEF peerConnects, Needs, Defined, Queues, queues, loops
<1>19. ASSUME NEW c \in Conn, peerGoes(c) PROVE Needs(d) \/ newConnection(d)
  BY <1>19, <1>1 DEF peerGoes, Needs, Defined, Queues, queues, loops
<1>20. CASE UNCHANGED vars
  BY <1>20, <1>1 DEF vars, Needs, Defined, Queues, queues, loops
<1>21. QED
  BY <1>2, <1>3, <1>4, <1>5, <1>6, <1>7, <1>8, <1>9, <1>10, <1>11, <1>12, <1>13,
     <1>14, <1>15, <1>16, <1>17, <1>18, <1>19, <1>20 DEF Next, Accepts,
     LoopStep, DestructorStep


Root(d) == MappedByName(d) \/ Queues(conn[d].loop, Des(d)) \/ d \in displaced

LEMMA MapKept ==
  ASSUME IInv, [Next]_vars, NEW d \in Conn, conn[d].state_ # "none", MappedByName(d),
         connections_' = connections_
  PROVE  MappedByName(d)'
BY MovesNext DEF MappedByName, Moves

\* The entry under the name of c goes: it is that of c, or who was in it is
\* displaced.
TakesOut(c) ==
    /\ connections_' = Erased(conn[c].name)
    /\ MappedByName(c) \/ displaced' = Displaced(conn[c].name, c)

\* An entry is erased under its own name, or under that of another connection.
LEMMA MapErased ==
  ASSUME IInv, [Next]_vars, NEW c \in Conn, conn[c].state_ # "none",
         TakesOut(c), NEW d \in Conn \ {c}, conn[d].state_ # "none", MappedByName(d)
  PROVE  MappedByName(d)' \/ d \in displaced'
<1>1. conn'[d].name = conn[d].name
  BY MovesNext DEF Moves
<1>2. CASE conn[c].name = conn[d].name
  BY <1>2, DisplacedIs DEF MappedByName, TakesOut
<1>3. CASE conn[c].name # conn[d].name
  <2>1. /\ conn[d].name \in DOMAIN connections_ \ {conn[c].name}
        /\ connections_[conn[d].name] = d
    BY <1>3 DEF MappedByName
  <2>2. conn[d].name \in DOMAIN connections_' /\ connections_'[conn[d].name] = d
    BY <2>1, Erasing DEF TakesOut
  <2>3. QED
    BY <1>1, <2>2 DEF MappedByName
<1>4. QED
  BY <1>2, <1>3

\* A functor waits where it is, with another one behind it at most.
LEMMA Waits ==
  ASSUME IInv, NEW k \in LoopId, NEW f, Queues(k, f),
         \/ pendingFunctors_' = pendingFunctors_
         \/ \E l \in LoopId : \E n, c : /\ <<n, c>> \in FunctorValue
                                        /\ pendingFunctors_' = Queued(l, n, c),
         In(functors[k], f) => In(functors'[k], f)
  PROVE  Queues(k, f)'
<1>1. In(pendingFunctors_[k], f) => In(pendingFunctors_'[k], f)
  BY Queues1 DEF IInv
<1>2. QED
  BY <1>1 DEF Queues

LEMMA StaysInBatch ==
  ASSUME TypeOK, NEW l \in LoopId, NEW n, NEW c, Runs(l, n, c),
         NEW k \in LoopId, NEW f, f # <<n, c>>, In(functors[k], f)
  PROVE  In(functors'[k], f)
BY Runs1

\* The functor that has just been queued.
LEMMA IsQueued ==
  ASSUME IInv, NEW c \in Conn, conn[c].loop \in LoopId,
         pendingFunctors_' = Queued(conn[c].loop, "connectDestroyed", c)
  PROVE  /\ In(pendingFunctors_'[conn[c].loop], Des(c))
         /\ \E l \in LoopId : \E n, d : /\ <<n, d>> \in FunctorValue
                                        /\ pendingFunctors_' = Queued(l, n, d)
<1>1. <<"connectDestroyed", c>> = Des(c) /\ Des(c) \in FunctorValue
  BY Functors DEF Des
<1>2. QED
  BY <1>1, Queues1 DEF IInv

LEMMA RootNext == IInv /\ [Next]_vars => 
  \A d \in Conn :
     /\ Needs(d) /\ Needs(d)'
     /\ MappedByName(d) \/ Queues(conn[d].loop, Des(d))
     => Root(d)'
<1> SUFFICES ASSUME IInv, [Next]_vars, NEW d \in Conn, Needs(d), Needs(d)',
                    MappedByName(d) \/ Queues(conn[d].loop, Des(d))
             PROVE  Root(d)'
  OBVIOUS
<1>1. /\ TypeOK /\ FunctorsMeant /\ EstablishedFirst /\ NamesMatch /\ Rooted
      /\ ToldByState /\ ConnsSound /\ BatchesRun /\ EndsInTurn
      /\ LoopsEndEmpty /\ UsedOnlyAlive /\ EveryoneIsTold
      /\ numThreads_ \in Nat /\ Base \in LoopId /\ Sub \subseteq LoopId /\ Base \notin Sub
      /\ conn \in [Conn -> ConnValue]
  BY Loops, Groups DEF IInv, ConnsTyped
<1>c. /\ conn[d].loop \in LoopId /\ conn[d].state_ # "none"
      /\ conn'[d].loop = conn[d].loop /\ conn'[d].name = conn[d].name
  BY <1>1, Needed, MovesNext DEF ConnValue, Moves
<1>b. MappedByName(d) \/ Queues(conn[d].loop, Des(d))
  OBVIOUS
<1>m. connections_' = connections_ /\ MappedByName(d) => MappedByName(d)'
  BY <1>c, MapKept
<1>w. ASSUME Queues(conn[d].loop, Des(d)), \/ pendingFunctors_' = pendingFunctors_
                                           \/ \E l \in LoopId : \E n, c :
                                                 /\ <<n, c>> \in FunctorValue
                                                 /\ pendingFunctors_' = Queued(l, n, c),
             In(functors[conn[d].loop], Des(d)) => In(functors'[conn[d].loop], Des(d))
      PROVE  Root(d)'
  <2>1. Queues(conn[d].loop, Des(d))'
    <3>1. PICK k \in LoopId : k = conn[d].loop
      BY <1>c
    <3>2. Queues(k, Des(d))'
      BY <1>w, <3>1, Waits
    <3>3. QED
      BY <1>c, <3>1, <3>2
  <2>2. QED
    BY <1>c, <2>1 DEF Root
<1>r. ASSUME NEW c \in Conn, conn[c].state_ # "none", TakesOut(c),
             pendingFunctors_' = Queued(conn[c].loop, "connectDestroyed", c),
             In(functors[conn[d].loop], Des(d)) => In(functors'[conn[d].loop], Des(d))
      PROVE  Root(d)'
  <2>1. conn[c].loop \in LoopId
    BY <1>1 DEF ConnValue
  <2>2. CASE d = c
    BY <1>c, <1>r, <2>1, <2>2, IsQueued DEF Root, Queues
  <2>3. CASE d # c /\ MappedByName(d)
    BY <1>c, <1>r, <2>3, MapErased DEF Root
  <2>4. CASE Queues(conn[d].loop, Des(d))
    BY <1>w, <1>r, <2>1, <2>4, IsQueued
  <2>5. QED
    BY <1>b, <2>2, <2>3, <2>4
<1>2. ASSUME NEW onBase \in BOOLEAN, start(onBase) PROVE Root(d)'
  <2>1. /\ connections_' = connections_ /\ functors' = functors
        /\ \/ pendingFunctors_' = pendingFunctors_
           \/ pendingFunctors_' = Queued(Base, "listen", NoConn)
    BY <1>2 DEF start
  <2>2. QED
    BY <1>1, <1>b, <1>m, <1>w, <2>1, Functors DEF Root, Listen
<1>3. ASSUME NEW c \in Conn, newConnection(c) PROVE Root(d)'
  <2>1. /\ functors' = functors
    BY <1>3 DEF newConnection
  <2>2. CASE pastTheEnd
    BY <1>3, <1>b, <1>m, <1>w, <2>1, <2>2 DEF newConnection, Root
  <2>3. CASE ~pastTheEnd
    <3>1. d # c
      BY <1>3, <1>c, <2>3, Makes
    <3>2. CASE Queues(conn[d].loop, Des(d))
      <4>1. <<"connectEstablished", c>> \in FunctorValue /\ nextLoop \in LoopId
        BY <1>3, <1>1, <2>3, Makes, Functors DEF Est
      <4>2. \/ pendingFunctors_' = pendingFunctors_
            \/ pendingFunctors_' = Queued(nextLoop, "connectEstablished", c)
        BY <1>3, <2>3 DEF newConnection
      <4>3. QED
        BY <1>w, <2>1, <3>2, <4>1, <4>2
    <3>3. CASE MappedByName(d)
      <4>1. /\ DOMAIN connections_' = DOMAIN connections_ \cup {nextConnId_}
            /\ \A n \in DOMAIN connections_' :
                  connections_'[n] = IF n = nextConnId_ THEN c ELSE connections_[n]
        BY <1>3, <2>3 DEF newConnection
      <4>2. CASE conn[d].name # nextConnId_
        BY <1>c, <3>3, <4>1, <4>2 DEF MappedByName, Root
      <4>3. CASE conn[d].name = nextConnId_
        <5>1. displaced' = Displaced(nextConnId_, c)
          BY <1>3, <2>3 DEF newConnection
        <5>2. d \in displaced'
          BY <3>1, <3>3, <4>3, <5>1, DisplacedIs DEF MappedByName
        <5>3. QED
          BY <5>2 DEF Root
      <4>4. QED
        BY <4>2, <4>3
    <3>4. QED
      BY <1>b, <3>2, <3>3
  <2>4. QED
    BY <2>2, <2>3
<1>4. ASSUME NEW l \in LoopId, doPendingFunctors(l) PROVE Root(d)'
  <2>1. /\ connections_' = connections_
        /\ \A k \in LoopId :
           \/ functors'[k] = functors[k] /\ pendingFunctors_'[k] = pendingFunctors_[k]
           \/ functors'[k] = pendingFunctors_[k] /\ functors[k] = <<>>
    BY <1>4, <1>1 DEF doPendingFunctors, TypeOK, BatchesRun, Handling
  <2>2. \A k \in LoopId : Queues(k, Des(d)) => Queues(k, Des(d))'
    BY <2>1, InEmpty DEF Queues
  <2>3. QED
    BY <1>b, <1>c, <1>m, <2>1, <2>2 DEF Root
<1>5. ASSUME NEW l \in LoopId, endOfBatch(l) PROVE Root(d)'
  <2>1. connections_' = connections_ /\ pendingFunctors_' = pendingFunctors_ /\ functors' = functors
    BY <1>5 DEF endOfBatch, queues
  <2>2. QED
    BY <1>b, <1>m, <1>w, <2>1 DEF Root
<1>6. ASSUME NEW l \in LoopId, loopGone(l) PROVE Root(d)'
  <2>1. /\ connections_' = connections_ /\ functors' = functors /\ at'[l] = "gone"
        /\ \A k \in LoopId : k # l => pendingFunctors_'[k] = pendingFunctors_[k]
    BY <1>6, <1>1 DEF loopGone, TypeOK
  <2>2. conn[d].loop # l
    BY <1>c, <2>1 DEF Needs
  <2>3. \A k \in LoopId : k # l /\ Queues(k, Des(d)) => Queues(k, Des(d))'
    BY <2>1 DEF Queues
  <2>4. QED
    BY <1>b, <1>c, <1>m, <2>1, <2>2, <2>3 DEF Root
<1>7. ASSUME NEW l \in LoopId, NEW c \in Conn, connectEstablished(l, c) PROVE Root(d)'
  <2>1. /\ Runs(l, "connectEstablished", c) /\ pendingFunctors_' = pendingFunctors_
        /\ connections_' = connections_
    BY <1>7 DEF connectEstablished
  <2>2. In(functors[conn[d].loop], Des(d)) => In(functors'[conn[d].loop], Des(d))
    BY <1>1, <1>c, <2>1, StaysInBatch DEF Des
  <2>3. QED
    BY <1>b, <1>m, <1>w, <2>1, <2>2 DEF Root
<1>8. ASSUME NEW l \in LoopId, NEW c \in Conn, connectDestroyed(l, c) PROVE Root(d)'
  <2>1. /\ Runs(l, "connectDestroyed", c) /\ pendingFunctors_' = pendingFunctors_
        /\ connections_' = connections_ /\ Destroy(c)
    BY <1>8 DEF connectDestroyed
  <2>2. CASE d # c
    <3>1. <<"connectDestroyed", c>> # Des(d)
      BY <2>2 DEF Des
    <3>2. In(functors[conn[d].loop], Des(d)) => In(functors'[conn[d].loop], Des(d))
      BY <1>1, <1>c, <2>1, <3>1, StaysInBatch
    <3>3. QED
      BY <1>b, <1>m, <1>w, <2>1, <3>2 DEF Root
  <2>3. CASE d = c
    <3>1. l = conn[c].loop
      BY <1>1, <2>1, RunsMeant, MeantDes DEF Des
    <3>2. ~conn'[c].registered
      BY <1>1, <2>1, Destroys
    <3>3. /\ functors[l] \in Seq(FunctorValue) /\ functors[l] # <<>>
          /\ Head(functors[l]) = Des(c) /\ functors'[l] = Tail(functors[l])
          /\ In(functors[l], Des(c))
      BY <1>1, <2>1, Running, Runs1 DEF Des
    <3>4. ~In(functors'[l], Est(c)) /\ ~In(pendingFunctors_'[l], Est(c))
      BY <1>1, <2>1, <3>3, FirstTail DEF EstablishedFirst
    <3>5. ~Queues(l, Est(c))'
      BY <3>4 DEF Queues
    <3>6. QED
      BY <1>c, <2>3, <3>1, <3>2, <3>5 DEF Needs
  <2>4. QED
    BY <2>2, <2>3
<1>9. ASSUME NEW c \in Conn, removeConnectionInLoop(c) PROVE Root(d)'
  <2>1. Runs(Base, "removeConnectionInLoop", c)
    BY <1>9 DEF removeConnectionInLoop
  <2>2. conn[c].state_ # "none"
    BY <1>1, <2>1, RunsMeant, MeantRem DEF Rem
  <2>3. In(functors[conn[d].loop], Des(d)) => In(functors'[conn[d].loop], Des(d))
    BY <1>1, <1>c, <2>1, StaysInBatch DEF Des
  <2>4. Removes(c)
    BY <1>9 DEF removeConnectionInLoop, Needs, Defined
  <2>5. QED
    BY <1>r, <2>2, <2>3, <2>4 DEF Removes, TakesOut
<1>10. ASSUME NEW c \in Conn, handleClose(c) PROVE Root(d)'
  <2>1. functors' = functors /\ conn[c].state_ # "none" /\ server # "gone"
    BY <1>10 DEF handleClose, Needs, Defined
  <2>2. CASE conn[c].loop = Base
    <3>1. Removes(c)
      BY <1>10, <2>1, <2>2 DEF handleClose
    <3>2. QED
      BY <1>r, <2>1, <3>1 DEF Removes, TakesOut
  <2>3. CASE conn[c].loop # Base
    <3>1. /\ pendingFunctors_' = Queued(Base, "removeConnectionInLoop", c)
          /\ connections_' = connections_
      BY <1>10, <2>1, <2>3 DEF handleClose
    <3>2. <<"removeConnectionInLoop", c>> \in FunctorValue
      BY Functors DEF Rem
    <3>3. QED
      BY <1>1, <1>b, <1>m, <1>w, <2>1, <3>1, <3>2 DEF Root
  <2>4. QED
    BY <2>2, <2>3
<1>11. CASE listen
  <2>1. /\ Runs(Base, "listen", NoConn) /\ pendingFunctors_' = pendingFunctors_
        /\ connections_' = connections_
    BY <1>11 DEF listen
  <2>2. In(functors[conn[d].loop], Des(d)) => In(functors'[conn[d].loop], Des(d))
    BY <1>1, <1>c, <2>1, StaysInBatch DEF Des
  <2>3. QED
    BY <1>b, <1>m, <1>w, <2>1, <2>2 DEF Root
<1>12. CASE quit
  <2>1. connections_' = connections_ /\ pendingFunctors_' = pendingFunctors_ /\ functors' = functors
    BY <1>12 DEF quit, queues
  <2>2. QED
    BY <1>b, <1>m, <1>w, <2>1 DEF Root
<1>13. CASE destroyServer
  <2>1. connections_' = connections_ /\ pendingFunctors_' = pendingFunctors_ /\ functors' = functors
    BY <1>13 DEF destroyServer, queues
  <2>2. QED
    BY <1>b, <1>m, <1>w, <2>1 DEF Root
<1>14. ASSUME NEW c \in Conn, destroyConnection(c) PROVE Root(d)'
  <2>1. functors' = functors /\ conn[c].state_ # "none" /\ TakesOut(c)
    BY <1>14, <1>1 DEF destroyConnection, Mapped, NamesMatch, MappedByName, TakesOut
  <2>2. CASE conn[c].loop # Base
    BY <1>r, <1>14, <2>1, <2>2 DEF destroyConnection, handedOver
  <2>3. CASE conn[c].loop = Base
    <3>1. pendingFunctors_' = pendingFunctors_ /\ Destroy(c)
      BY <1>14, <2>3 DEF destroyConnection
    <3>2. CASE d = c
      <4>1. ~conn'[c].registered
        BY <1>1, <3>1, Destroys
      <4>2. ~Queues(Base, Est(c))
        BY <1>1, MeantEst, Functors DEF FunctorsMeant
      <4>3. ~Queues(Base, Est(c))'
        BY <2>1, <3>1, <4>2 DEF Queues, Base
      <4>4. QED
        BY <1>c, <2>3, <3>2, <4>1, <4>3 DEF Needs
    <3>3. CASE d # c /\ MappedByName(d)
      BY <1>c, <2>1, <3>3, MapErased DEF Root
    <3>4. CASE Queues(conn[d].loop, Des(d))
      BY <1>w, <2>1, <3>1, <3>4
    <3>5. QED
      BY <1>b, <3>2, <3>3, <3>4
  <2>4. QED
    BY <2>2, <2>3
<1>15. ASSUME NEW l \in Sub, quitLoop(l) PROVE Root(d)'
  <2>1. connections_' = connections_ /\ pendingFunctors_' = pendingFunctors_ /\ functors' = functors
    BY <1>15 DEF quitLoop, queues
  <2>2. QED
    BY <1>b, <1>m, <1>w, <2>1 DEF Root
<1>16. CASE serverGone
  <2>1. connections_' = connections_ /\ pendingFunctors_' = pendingFunctors_ /\ functors' = functors
    BY <1>16 DEF serverGone, queues
  <2>2. QED
    BY <1>b, <1>m, <1>w, <2>1 DEF Root
<1>17. ASSUME NEW c \in Conn, shutdown(c) PROVE Root(d)'
  <2>1. connections_' = connections_ /\ pendingFunctors_' = pendingFunctors_ /\ functors' = functors
    BY <1>17 DEF shutdown, queues
  <2>2. QED
    BY <1>b, <1>m, <1>w, <2>1 DEF Root
<1>18. ASSUME NEW c \in Conn, peerConnects(c) PROVE Root(d)'
  <2>1. connections_' = connections_ /\ pendingFunctors_' = pendingFunctors_ /\ functors' = functors
    BY <1>18 DEF peerConnects, queues
  <2>2. QED
    BY <1>b, <1>m, <1>w, <2>1 DEF Root
<1>19. ASSUME NEW c \in Conn, peerGoes(c) PROVE Root(d)'
  <2>1. connections_' = connections_ /\ pendingFunctors_' = pendingFunctors_ /\ functors' = functors
    BY <1>19 DEF peerGoes, queues
  <2>2. QED
    BY <1>b, <1>m, <1>w, <2>1 DEF Root
<1>20. CASE UNCHANGED vars
  <2>1. connections_' = connections_ /\ pendingFunctors_' = pendingFunctors_ /\ functors' = functors
    BY <1>20 DEF vars, queues
  <2>2. QED
    BY <1>b, <1>m, <1>w, <2>1 DEF Root
<1>21. QED
  BY <1>2, <1>3, <1>4, <1>5, <1>6, <1>7, <1>8, <1>9, <1>10, <1>11, <1>12, <1>13,
     <1>14, <1>15, <1>16, <1>17, <1>18, <1>19, <1>20 DEF Next, Accepts,
     LoopStep, DestructorStep

LEMMA RootedNext == IInv /\ [Next]_vars => Rooted'
<1> SUFFICES ASSUME IInv, [Next]_vars, NEW d \in Conn, Needs(d)'
             PROVE  Root(d)'
  BY DEF Rooted, Root
<1>1. CASE newConnection(d)
  <2>1. ~pastTheEnd
    BY <1>1 DEF newConnection, Needs, Defined
  <2>2. /\ DOMAIN connections_' = DOMAIN connections_ \cup {nextConnId_}
        /\ \A n \in DOMAIN connections_' :
              connections_'[n] = IF n = nextConnId_ THEN d ELSE connections_[n]
    BY <1>1, <2>1 DEF newConnection
  <2>3. conn'[d].name = nextConnId_
    BY <1>1, <2>1, Makes
  <2>4. MappedByName(d)'
    BY <2>2, <2>3 DEF MappedByName
  <2>5. QED
    BY <2>4 DEF Root
<1>2. CASE Needs(d)
  <2>1. Root(d)
    BY <1>2 DEF IInv, Rooted, Root
  <2>2. CASE d \in displaced
    BY <2>2, LostNext DEF LostGrows, Root
  <2>3. CASE MappedByName(d) \/ Queues(conn[d].loop, Des(d))
    BY <1>2, <2>3, RootNext
  <2>4. QED
    BY <2>1, <2>2, <2>3 DEF Root
<1>3. QED
  BY <1>1, <1>2, NeedsNext

-----------------------------------------------------------------------------
(***************************************************************************)
(* The invariant.                                                          *)
(***************************************************************************)
LEMMA InductiveInit == Init => IInv
<1> SUFFICES ASSUME Init PROVE IInv
  OBVIOUS
<1>1. TypeOK
  BY TypeInit
<1>2. /\ numThreads_ \in Nat /\ Base \in LoopId /\ Sub \subseteq LoopId /\ Base \notin Sub
  BY <1>1, Loops
<1>3. \A l \in LoopId : pendingFunctors_[l] = <<>> /\ functors[l] = <<>>
  BY DEF Init
<1>4. \A l \in LoopId : \A f : ~Queues(l, f)
  BY <1>3, InEmpty DEF Queues
<1>5. \A c \in Conn : /\ conn[c].state_ = "none" /\ ~conn[c].registered /\ conn[c].loop = Base
                      /\ ups[c] = 0 /\ downs[c] = 0
  BY DEF Init
<1>6. FunctorsMeant
  BY <1>4 DEF FunctorsMeant
<1>7. EstablishedFirst
  BY <1>3, InEmpty, FirstEmpty DEF EstablishedFirst
<1>8. NamesMatch
  BY DEF Init, NamesMatch
<1>9. Rooted
  BY <1>2, <1>4, <1>5 DEF Rooted, Needs
<1>10. ToldByState
  BY <1>5 DEF ToldByState
<1>11. ConnsSound
  BY <1>5 DEF Init, ConnsSound
<1>12. BatchesRun
  BY <1>3 DEF BatchesRun
<1>13. EndsInTurn
  BY <1>2 DEF Init, EndsInTurn, Base, Sub
<1>14. UsedOnlyAlive /\ EveryoneIsTold
  BY DEF Init, UsedOnlyAlive, EveryoneIsTold
<1>15. LoopsEndEmpty
  BY <1>2, <1>5 DEF Init, LoopsEndEmpty
<1>16. QED
  BY <1>1, <1>6, <1>7, <1>8, <1>9, <1>10, <1>11, <1>12, <1>13, <1>14, <1>15 DEF IInv

LEMMA InductiveNext == IInv /\ [Next]_vars => IInv'
<1> SUFFICES ASSUME IInv, [Next]_vars PROVE IInv'
  OBVIOUS
<1>1. TypeOK'
  BY TypeNext DEF IInv
<1>2. FunctorsMeant' /\ EstablishedFirst' /\ NamesMatch'
  BY MeantNext, FirstNext, NamesNext
<1>3. Rooted'
  BY RootedNext
<1>4. ToldByState' /\ ConnsSound' /\ BatchesRun' /\ EndsInTurn'
  BY ToldNext, SoundNext, BatchesNext, EndsNext
<1>5. LoopsEndEmpty' /\ UsedOnlyAlive' /\ EveryoneIsTold'
  BY EmptyNext, AliveNext, EveryoneNext
<1>6. QED
  BY <1>1, <1>2, <1>3, <1>4, <1>5 DEF IInv

LEMMA Inductive == Spec => []IInv
BY InductiveInit, InductiveNext, PTL DEF Spec

\* No step leaves a registered channel whose connection nobody owns, in a loop
\* that is not gone, unless the connection lost its name to another one.
THEOREM RegisteredStaysOwned == Spec => []RegisteredIsOwned
<1>1. IInv => RegisteredIsOwned
  <2> SUFFICES ASSUME IInv, NEW c \in Conn, Defined, conn[c].registered,
                      at[conn[c].loop] # "gone", c \notin displaced
               PROVE  c \in Owned
    BY DEF RegisteredIsOwned
  <2>1. MappedByName(c) \/ Queues(conn[c].loop, Des(c))
    BY DEF IInv, Rooted, Needs
  <2>2. CASE MappedByName(c)
    BY <2>2 DEF MappedByName, Owned, Mapped
  <2>3. CASE Queues(conn[c].loop, Des(c))
    <3>1. conn[c].loop \in LoopId
      BY DEF IInv, TypeOK
    <3>2. Des(c)[2] = c
      BY DEF Des
    <3>3. c \in Bound(functors[conn[c].loop]) \/ c \in Bound(pendingFunctors_[conn[c].loop])
      BY <2>3, <3>2 DEF Queues, In, Bound
    <3>4. QED
      BY <3>1, <3>3 DEF Owned
  <2>4. QED
    BY <2>1, <2>2, <2>3
<1>2. QED
  BY <1>1, Inductive, PTL

\* A server that is destroyed after its loop returned is never used again; one
\* destroyed within its loop may be.
THEOREM NotUsedAfterLoop == Spec => []UsedOnlyAlive
<1>1. IInv => UsedOnlyAlive
  BY DEF IInv
<1>2. QED
  BY <1>1, Inductive, PTL

\* When the server is gone, who was told up has been told down, but for those
\* EveryoneIsTold names.
THEOREM EveryoneHears == Spec => []EveryoneIsTold
<1>1. IInv => EveryoneIsTold
  BY DEF IInv
<1>2. QED
  BY <1>1, Inductive, PTL
-----------------------------------------------------------------------------
(***************************************************************************)
(* ServerCallbacks.                                                        *)
(***************************************************************************)

\* What SC has for told[c].
Last(c) ==
    CASE ups[c] = 0 /\ downs[c] = 0 -> "nothing"
      [] ups[c] = 1 /\ downs[c] = 0 -> "up"
      [] ups[c] = 1 /\ downs[c] = 1 -> "down"
      [] OTHER -> "told too often"

LEMMA GoesUp ==
  ASSUME IInv, NEW c \in Conn, conn[c].state_ \in {"none", "kConnecting"},
         ups'[c] = ups[c] + 1, \A d \in Conn : d # c => ups'[d] = ups[d],
         downs' = downs, server # "gone", server' = server
  PROVE  SC!Up(c)
<1>1. ups[c] = 0 /\ downs[c] = 0
  BY DEF IInv, ToldByState
<1>2. Last(c) = "nothing" /\ Last(c)' = "up"
  BY <1>1 DEF Last
<1>3. \A d \in Conn : d # c => Last(d)' = Last(d)
  BY DEF Last
<1>4. [d \in Conn |-> Last(d)]' = [[d \in Conn |-> Last(d)] EXCEPT ![c] = "up"]
  BY <1>2, <1>3
<1>5. QED
  BY <1>2, <1>4 DEF SC!Up, SC!Report, Last

LEMMA GoesDown ==
  ASSUME IInv, NEW c \in Conn, conn[c].state_ \in {"kConnected", "kDisconnecting"},
         downs'[c] = downs[c] + 1, \A d \in Conn : d # c => downs'[d] = downs[d],
         ups' = ups, server # "gone", server' = server
  PROVE  SC!Down(c)
<1>1. ups[c] = 1 /\ downs[c] = 0
  BY DEF IInv, ToldByState
<1>2. Last(c) = "up" /\ Last(c)' = "down"
  BY <1>1 DEF Last
<1>3. \A d \in Conn : d # c => Last(d)' = Last(d)
  BY DEF Last
<1>4. [d \in Conn |-> Last(d)]' = [[d \in Conn |-> Last(d)] EXCEPT ![c] = "down"]
  BY <1>2, <1>3
<1>5. QED
  BY <1>2, <1>4 DEF SC!Down, SC!Report, Last

LEMMA StaysSilent ==
  ASSUME ups' = ups, downs' = downs, server' = "gone" <=> server = "gone"
  PROVE  UNCHANGED SC!vars
BY DEF SC!vars

LEMMA StepRefines == IInv /\ [Next]_vars => [SC!Next]_(SC!vars)
<1> SUFFICES ASSUME IInv, [Next]_vars
             PROVE  [SC!Next]_(SC!vars)
  OBVIOUS
<1>1. /\ TypeOK /\ FunctorsMeant /\ EstablishedFirst /\ NamesMatch /\ Rooted
      /\ ToldByState /\ ConnsSound /\ BatchesRun /\ EndsInTurn
      /\ LoopsEndEmpty /\ UsedOnlyAlive /\ EveryoneIsTold
      /\ numThreads_ \in Nat /\ Base \in LoopId /\ Sub \subseteq LoopId /\ Base \notin Sub
      /\ conn \in [Conn -> ConnValue]
  BY Loops, Groups DEF IInv, ConnsTyped
<1>n. [Next]_vars
  OBVIOUS
<1>2. ASSUME NEW onBase \in BOOLEAN, start(onBase) PROVE [SC!Next]_(SC!vars)
  <2>1. ups' = ups /\ downs' = downs /\ (server' = "gone" <=> server = "gone")
    BY <1>2 DEF start, told
  <2>2. QED
    BY <2>1, StaysSilent
<1>3. ASSUME NEW c \in Conn, newConnection(c) PROVE [SC!Next]_(SC!vars)
  <2>1. server' = server /\ server # "gone"
    BY <1>3, <1>1 DEF newConnection, serverVars, EndsInTurn
  <2>2. CASE pastTheEnd
    BY <1>3, <2>1, <2>2, StaysSilent DEF newConnection, told
  <2>3. CASE ~pastTheEnd
    <3>1. downs' = downs
      BY <1>3, <2>3 DEF newConnection
    <3>2. CASE nextLoop = Base
      <4>1. SC!Up(c)
        BY <1>3, <1>1, <2>1, <2>3, <3>1, <3>2, Makes, GoesUp
      <4>2. QED
        BY <4>1 DEF SC!Next
    <3>3. CASE nextLoop # Base
      <4>1. ups' = ups
        BY <1>3, <2>3, <3>3 DEF newConnection
      <4>2. QED
        BY <2>1, <3>1, <4>1, StaysSilent
    <3>4. QED
      BY <3>2, <3>3
  <2>4. QED
    BY <2>2, <2>3
<1>4. ASSUME NEW l \in LoopId, doPendingFunctors(l) PROVE [SC!Next]_(SC!vars)
  <2>1. ups' = ups /\ downs' = downs /\ (server' = "gone" <=> server = "gone")
    BY <1>4 DEF doPendingFunctors, told, serverVars
  <2>2. QED
    BY <2>1, StaysSilent
<1>5. ASSUME NEW l \in LoopId, endOfBatch(l) PROVE [SC!Next]_(SC!vars)
  <2>1. ups' = ups /\ downs' = downs /\ (server' = "gone" <=> server = "gone")
    BY <1>5 DEF endOfBatch, told, serverVars
  <2>2. QED
    BY <2>1, StaysSilent
<1>6. ASSUME NEW l \in LoopId, loopGone(l) PROVE [SC!Next]_(SC!vars)
  <2>1. ups' = ups /\ downs' = downs /\ (server' = "gone" <=> server = "gone")
    BY <1>6 DEF loopGone, told, serverVars
  <2>2. QED
    BY <2>1, StaysSilent
<1>7. ASSUME NEW l \in LoopId, NEW c \in Conn, connectEstablished(l, c) PROVE [SC!Next]_(SC!vars)
  <2>1. server' = server /\ at[l] = "run" /\ downs' = downs
    BY <1>7 DEF connectEstablished, Runs, serverVars, Establish
  <2>2. server # "gone"
    BY <1>7, <1>1, <2>1, Establishes, AfterTheEnd
  <2>3. SC!Up(c)
    BY <1>7, <1>1, <2>1, <2>2, Establishes, GoesUp
  <2>4. QED
    BY <2>3 DEF SC!Next
<1>8. ASSUME NEW l \in LoopId, NEW c \in Conn, connectDestroyed(l, c) PROVE [SC!Next]_(SC!vars)
  <2>1. Destroy(c) /\ server' = server /\ ups' = ups /\ Runs(l, "connectDestroyed", c)
    BY <1>8 DEF connectDestroyed, Destroy, Runs, serverVars
  <2>2. conn[c].state_ = "kConnected" => server # "gone"
    <3>1. /\ l = conn[c].loop /\ (l = Base => conn[c].state_ = "kDisconnected")
          /\ at[l] = "run"
      BY <1>1, <2>1, RunsMeant, MeantDes DEF Des, Runs
    <3>2. QED
      BY <1>1, <3>1, AfterTheEnd
  <2>3. CASE conn[c].state_ = "kConnected"
    <3>1. SC!Down(c)
      BY <1>1, <2>1, <2>2, <2>3, Destroys, GoesDown
    <3>2. QED
      BY <3>1 DEF SC!Next
  <2>4. CASE conn[c].state_ # "kConnected"
    <3>1. /\ downs \in [Conn -> Nat] /\ downs' \in [Conn -> Nat]
          /\ \A d \in Conn : downs'[d] = downs[d]
      BY <1>1, <2>1, <2>4, Destroys, TypeNext DEF TypeOK
    <3>2. downs' = downs
      BY <3>1
    <3>3. QED
      BY <2>1, <3>2, StaysSilent
  <2>5. QED
    BY <2>3, <2>4
<1>9. ASSUME NEW c \in Conn, removeConnectionInLoop(c) PROVE [SC!Next]_(SC!vars)
  <2>1. ups' = ups /\ downs' = downs /\ (server' = "gone" <=> server = "gone")
    BY <1>9 DEF removeConnectionInLoop, Runs, told, serverVars
  <2>2. QED
    BY <2>1, StaysSilent
<1>10. ASSUME NEW c \in Conn, handleClose(c) PROVE [SC!Next]_(SC!vars)
  <2>1. server' = server /\ ups' = ups /\ at[conn[c].loop] = "poll" /\ c \in Owned
    BY <1>10 DEF handleClose, serverVars, Handling
  <2>2. server # "gone"
    BY <1>10, <1>1, <2>1, Closes, AfterTheEnd, NobodyCloses
  <2>3. SC!Down(c)
    BY <1>10, <1>1, <2>1, <2>2, Closes, GoesDown
  <2>4. QED
    BY <2>3 DEF SC!Next
<1>11. CASE listen
  <2>1. ups' = ups /\ downs' = downs /\ (server' = "gone" <=> server = "gone")
    BY <1>11 DEF listen, Runs, told, serverVars
  <2>2. QED
    BY <2>1, StaysSilent
<1>12. CASE quit
  <2>1. ups' = ups /\ downs' = downs /\ (server' = "gone" <=> server = "gone")
    BY <1>12 DEF quit, told, serverVars
  <2>2. QED
    BY <2>1, StaysSilent
<1>13. CASE destroyServer
  <2>1. ups' = ups /\ downs' = downs /\ (server' = "gone" <=> server = "gone")
    BY <1>13 DEF destroyServer, told
  <2>2. QED
    BY <2>1, StaysSilent
<1>14. ASSUME NEW c \in Conn, destroyConnection(c) PROVE [SC!Next]_(SC!vars)
  <2>1. server' = server /\ server = "dtor"
    BY <1>14 DEF destroyConnection, serverVars
  <2>x. CASE Destroy(c)
    <3>1. Destroy(c) /\ server' = server /\ ups' = ups
      BY <2>1, <2>x DEF Destroy
    <3>2. server # "gone"
      BY <2>1
    <3>3. CASE conn[c].state_ = "kConnected"
      <4>1. SC!Down(c)
        BY <1>1, <3>1, <3>2, <3>3, Destroys, GoesDown
      <4>2. QED
        BY <4>1 DEF SC!Next
    <3>4. CASE conn[c].state_ # "kConnected"
      <4>1. /\ downs \in [Conn -> Nat] /\ downs' \in [Conn -> Nat]
            /\ \A d \in Conn : downs'[d] = downs[d]
        BY <1>1, <3>1, <3>4, Destroys, TypeNext DEF TypeOK
      <4>2. downs' = downs
        BY <4>1
      <4>3. QED
        BY <3>1, <4>2, StaysSilent
    <3>5. QED
      BY <3>3, <3>4
  <2>y. CASE told' = told
    BY <2>1, <2>y, StaysSilent DEF told
  <2>2. QED
    BY <1>14, <2>x, <2>y DEF destroyConnection
<1>15. ASSUME NEW l \in Sub, quitLoop(l) PROVE [SC!Next]_(SC!vars)
  <2>1. ups' = ups /\ downs' = downs /\ (server' = "gone" <=> server = "gone")
    BY <1>15 DEF quitLoop, told
  <2>2. QED
    BY <2>1, StaysSilent
<1>16. CASE serverGone
  <2>1. SC!Close
    BY <1>16 DEF serverGone, SC!Close, told
  <2>2. QED
    BY <2>1 DEF SC!Next
<1>17. ASSUME NEW c \in Conn, shutdown(c) PROVE [SC!Next]_(SC!vars)
  <2>1. ups' = ups /\ downs' = downs /\ (server' = "gone" <=> server = "gone")
    BY <1>17 DEF shutdown, told, serverVars
  <2>2. QED
    BY <2>1, StaysSilent
<1>18. ASSUME NEW c \in Conn, peerConnects(c) PROVE [SC!Next]_(SC!vars)
  <2>1. ups' = ups /\ downs' = downs /\ (server' = "gone" <=> server = "gone")
    BY <1>18 DEF peerConnects, told, serverVars
  <2>2. QED
    BY <2>1, StaysSilent
<1>19. ASSUME NEW c \in Conn, peerGoes(c) PROVE [SC!Next]_(SC!vars)
  <2>1. ups' = ups /\ downs' = downs /\ (server' = "gone" <=> server = "gone")
    BY <1>19 DEF peerGoes, told, serverVars
  <2>2. QED
    BY <2>1, StaysSilent
<1>20. CASE UNCHANGED vars
  BY <1>20, <1>1, StaysSilent DEF vars, told, serverVars, serverVars, told
<1>21. QED
  BY <1>2, <1>3, <1>4, <1>5, <1>6, <1>7, <1>8, <1>9, <1>10, <1>11, <1>12, <1>13,
     <1>14, <1>15, <1>16, <1>17, <1>18, <1>19, <1>20 DEF Next, Accepts,
     LoopStep, DestructorStep

\* The user hears of each connection once up and once down at most, and of
\* none once the server has been destroyed: TcpServer implements
\* ServerCallbacks, for any number of connections and loops.
THEOREM ImplementsServerCallbacks == Spec => ServerCallbacksSpec
<1>1. Init => SC!Init
  BY DEF Init, SC!Init
<1>2. QED
  BY <1>1, StepRefines, Inductive, PTL DEF Spec, ServerCallbacksSpec, SC!Spec
=============================================================================
