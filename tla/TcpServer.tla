------------------------------ MODULE TcpServer ------------------------------
(***************************************************************************)
(* A TcpServer with its Acceptor and its pool of loops, and all of its     *)
(* connections (TcpServer.cc, Acceptor.cc, getNextLoop of                  *)
(* EventLoopThreadPool.cc), from start() to the end of the base loop.      *)
(*                                                                         *)
(* A connection is reduced to what the server has to do with: its state_,  *)
(* whether its channel is registered, the callbacks it makes; its handlers *)
(* are one step each (TcpConnection has them in detail).  A loop is a      *)
(* round of events, a swap of its queue, and the run of the batch.  A      *)
(* pool's thread is started and joined as EventLoopThreadPool has it.      *)
(***************************************************************************)
EXTENDS Naturals, Sequences, FiniteSets

CONSTANTS
    MaxConns,   \* bound: connections, numbered in the order they are made
    NumThreads, \* values setThreadNum may be given
    MaxFds,     \* descriptors left for connections
    IdSpace,    \* values nextConnId_ takes before it wraps (2^32)
    MaxStarts   \* bound: calls of start()

ASSUME ServerAssumption ==
    /\ MaxConns \in Nat
    /\ NumThreads \subseteq Nat
    /\ MaxFds \in Nat
    /\ IdSpace \in Nat \ {0}
    /\ MaxStarts \in Nat

Conn == 1..MaxConns
NoConn == 0
Base == 0
LoopId == UNION {0..n : n \in NumThreads}

VARIABLES
    numThreads_,       \* setThreadNum; never changes
    started_,
    server,            \* "up" until destroyed; "dtor", "joining", "gone"
    inside,            \* it is destroyed in a callback of its own loop
    listening,         \* the Acceptor listens, its channel is registered
    next_,             \* EventLoopThreadPool's
    nextConnId_,
    connections_,      \* a function from names to connections
    at,                \* [LoopId -> ...]: where a loop is
    quit_,             \* [LoopId -> BOOLEAN]
    pendingFunctors_,  \* [LoopId -> functors]
    functors,          \* [LoopId -> functors]: what is left of the batch
    conn,              \* [Conn -> ...]: the TcpConnections
    waiting,           \* connections the kernel has made and nobody accepted
    peerGone,          \* connections whose peer has closed or reset
    misused,           \* the undefined behaviour met, if any
    ups, downs,        \* [Conn -> Nat] history: connectionCallback_ calls
    displaced,         \* history: connections that lost their entry to a namesake
    dropped            \* history: whose connectDestroyed went with its loop's queue

serverVars == <<numThreads_, started_, server, inside>>
acceptor == <<listening, next_, nextConnId_>>
queues == <<pendingFunctors_, functors>>
loops == <<at, quit_>>
world == <<waiting, peerGone>>
told == <<ups, downs>>
lost == <<displaced, dropped>>
vars == <<serverVars, acceptor, connections_, loops, queues, conn, world,
          misused, told, lost>>

Sub == 1..numThreads_

FunctorName == {"listen", "connectEstablished", "connectDestroyed",
                "removeConnectionInLoop"}
FunctorValue == FunctorName \X (Conn \cup {NoConn})

State == {"none", "kConnecting", "kConnected", "kDisconnecting", "kDisconnected"}

TypeOK ==
    /\ numThreads_ \in NumThreads
    /\ started_ \in 0..MaxStarts
    /\ server \in {"up", "dtor", "joining", "gone"}
    /\ {inside, listening} \subseteq BOOLEAN
    /\ next_ \in 0..numThreads_
    /\ nextConnId_ \in 0..(IdSpace - 1)
    /\ DOMAIN connections_ \subseteq 0..(IdSpace - 1)
    /\ \A n \in DOMAIN connections_ : connections_[n] \in Conn
    /\ at \in [LoopId -> {"none", "poll", "run", "stopped", "gone"}]
    /\ quit_ \in [LoopId -> BOOLEAN]
    /\ pendingFunctors_ \in [LoopId -> Seq(FunctorValue)]
    /\ functors \in [LoopId -> Seq(FunctorValue)]
    /\ conn \in [Conn -> [state_: State, registered: BOOLEAN, loop: LoopId,
                          name: 0..(IdSpace - 1)]]
    /\ waiting \subseteq Conn
    /\ peerGone \subseteq Conn
    /\ misused \in {"nothing", "index", "server"}
    /\ {ups, downs} \subseteq [Conn -> Nat]
    /\ {displaced, dropped} \subseteq SUBSET Conn

Init ==
    /\ numThreads_ \in NumThreads
    /\ started_ = 0
    /\ server = "up"
    /\ inside = FALSE
    /\ listening = FALSE
    /\ next_ = 0
    /\ nextConnId_ = 1 % IdSpace
    /\ connections_ = [n \in {} |-> NoConn]
    /\ at = [l \in LoopId |-> IF l = Base THEN "poll" ELSE "none"]
    /\ quit_ = [l \in LoopId |-> FALSE]
    /\ pendingFunctors_ = [l \in LoopId |-> <<>>]
    /\ functors = [l \in LoopId |-> <<>>]
    /\ conn = [c \in Conn |-> [state_ |-> "none", registered |-> FALSE,
                               loop |-> Base, name |-> 0]]
    /\ waiting = {}
    /\ peerGone = {}
    /\ misused = "nothing"
    /\ ups = [c \in Conn |-> 0]
    /\ downs = [c \in Conn |-> 0]
    /\ displaced = {}
    /\ dropped = {}
-----------------------------------------------------------------------------
(***************************************************************************)
(* Who keeps a connection alive: the map, and functors bound to it.  (The  *)
(* functors of a batch that have run keep theirs to the end of the batch,  *)
(* which is left out.)                                                     *)
(***************************************************************************)
Mapped == {connections_[n] : n \in DOMAIN connections_}
Bound(queue) == {queue[i][2] : i \in DOMAIN queue}
Owned ==
    Mapped \cup UNION {Bound(pendingFunctors_[l]) \cup Bound(functors[l]) : l \in LoopId}

\* Accepted connections that exist hold a descriptor each.
Full == Cardinality(Owned \ {NoConn}) >= MaxFds

Defined == misused = "nothing"

\* Loop l is between two callbacks.  The base loop's thread is also the one
\* that destroys the server.
Handling(l) ==
    /\ Defined
    /\ at[l] = "poll"
    /\ l = Base => server \in {"up", "gone"}

isPending(l, name, c) ==
    \E i \in DOMAIN pendingFunctors_[l] : pendingFunctors_[l][i] = <<name, c>>

Queued(l, name, c) ==
    [pendingFunctors_ EXCEPT ![l] = Append(pendingFunctors_[l], <<name, c>>)]

\* Mutant of Erased: the entry stays.
notErased(name) == connections_

\* connections_.erase(name).
Erased(name) == [n \in DOMAIN connections_ \ {name} |-> connections_[n]]

\* The entry of name goes because of c: another connection may be the one in it.
Displaced(name, c) ==
    displaced \cup ({connections_[n] : n \in DOMAIN connections_ \cap {name}} \ {c})
-----------------------------------------------------------------------------
(***************************************************************************)
(* What a connection does on its loop, as operators on its record.         *)
(***************************************************************************)
established(r) == [r EXCEPT !.state_ = "kConnected", !.registered = TRUE]

\* Mutant of isReported: connectDestroyed looks at no state.
isReportedAlways(r) == TRUE

\* connectDestroyed reports and disables only what is still connected.
isReported(r) == r.state_ = "kConnected"

\* Mutant of destroyed: the channel stays in the poller.
destroyedUnremoved(r) == [r EXCEPT !.state_ = "kDisconnected"]

destroyed(r) ==
    [r EXCEPT !.state_ = IF isReported(r) THEN "kDisconnected" ELSE r.state_,
              !.registered = FALSE]

\* connectEstablished and connectDestroyed of c.
Establish(c) ==
    /\ conn' = [conn EXCEPT ![c] = established(conn[c])]
    /\ ups' = [ups EXCEPT ![c] = ups[c] + 1]
    /\ UNCHANGED downs

Destroy(c) ==
    /\ conn' = [conn EXCEPT ![c] = destroyed(conn[c])]
    /\ downs' = [downs EXCEPT ![c] = downs[c] + (IF isReported(conn[c]) THEN 1 ELSE 0)]
    /\ UNCHANGED ups
-----------------------------------------------------------------------------
(***************************************************************************)
(* Starting, and accepting.                                                *)
(***************************************************************************)

\* start(): the first call starts the pool and lets the base loop listen, at
\* once on its own thread, through its queue from another one.
start(onBase) ==
    /\ Defined /\ server = "up" /\ at[Base] = "poll"
    /\ started_ < MaxStarts
    /\ started_' = started_ + 1
    /\ IF started_ = 0
         THEN /\ at' = [l \in LoopId |-> IF l \in Sub THEN "poll" ELSE at[l]]
              /\ IF onBase
                   THEN listening' = TRUE /\ UNCHANGED pendingFunctors_
                   ELSE /\ pendingFunctors_' = Queued(Base, "listen", NoConn)
                        /\ UNCHANGED listening
         ELSE UNCHANGED <<at, listening, pendingFunctors_>>
    /\ UNCHANGED <<numThreads_, server, inside, next_, nextConnId_, connections_,
                   quit_, functors, conn, world, misused, told, lost>>

\* getNextLoop reads loops_[next_], moves next_ on, and puts it back to zero
\* when it has gone past loops_.size().
pastTheEnd == numThreads_ > 0 /\ next_ >= numThreads_
nextLoop == IF numThreads_ = 0 THEN Base ELSE next_ + 1
nextAfter ==
    IF numThreads_ = 0 THEN 0
    ELSE IF next_ + 1 > numThreads_ THEN 0 ELSE next_ + 1

\* Mutant of nextName: the counter does not wrap.
widerName == nextConnId_ + 1

nextName == (nextConnId_ + 1) % IdSpace

\* Acceptor::handleRead, accept4 succeeding, and newConnection.  With the
\* descriptors exhausted accept4 fails, nothing changes, and the level-triggered
\* channel is reported again.
newConnection(c) ==
    /\ Handling(Base)
    /\ listening /\ ~Full
    /\ c \in waiting /\ \A d \in waiting : c <= d
    /\ IF pastTheEnd
         THEN /\ misused' = "index"
              /\ UNCHANGED <<next_, nextConnId_, connections_, pendingFunctors_,
                             conn, waiting, told, displaced>>
         ELSE LET made == [state_ |-> "kConnecting", registered |-> FALSE,
                           loop |-> nextLoop, name |-> nextConnId_]
              IN  /\ waiting' = waiting \ {c}
                  /\ next_' = nextAfter
                  /\ nextConnId_' = nextName
                  /\ connections_' = [n \in DOMAIN connections_ \cup {nextConnId_} |->
                                         IF n = nextConnId_ THEN c ELSE connections_[n]]
                  /\ displaced' = Displaced(nextConnId_, c)
                  /\ IF nextLoop = Base
                       THEN /\ conn' = [conn EXCEPT ![c] = established(made)]
                            /\ ups' = [ups EXCEPT ![c] = ups[c] + 1]
                            /\ UNCHANGED pendingFunctors_
                       ELSE /\ conn' = [conn EXCEPT ![c] = made]
                            /\ pendingFunctors_' = Queued(nextLoop, "connectEstablished", c)
                            /\ UNCHANGED ups
                  /\ UNCHANGED <<misused, downs>>
    /\ UNCHANGED <<serverVars, listening, loops, functors, peerGone, dropped>>
-----------------------------------------------------------------------------
(***************************************************************************)
(* Closing and removing.                                                   *)
(***************************************************************************)

\* removeConnectionInLoop(c), given what is queued so far.
Removes(c) ==
    /\ connections_' = Erased(conn[c].name)
    /\ displaced' = Displaced(conn[c].name, c)
    /\ pendingFunctors_' = Queued(conn[c].loop, "connectDestroyed", c)

\* handleClose of c on its loop: DOWN, then removeConnection through a bare
\* TcpServer*.
handleClose(c) ==
    LET l == conn[c].loop IN
    /\ Handling(l)
    /\ conn[c].registered /\ c \in Owned /\ c \in peerGone
    /\ conn[c].state_ \in {"kConnected", "kDisconnecting"}
    /\ conn' = [conn EXCEPT ![c].state_ = "kDisconnected"]
    /\ downs' = [downs EXCEPT ![c] = downs[c] + 1]
    /\ IF server = "gone"
         THEN misused' = "server" /\ UNCHANGED <<connections_, pendingFunctors_, displaced>>
         ELSE /\ IF l = Base
                   THEN Removes(c)
                   ELSE /\ pendingFunctors_' = Queued(Base, "removeConnectionInLoop", c)
                        /\ UNCHANGED <<connections_, displaced>>
              /\ UNCHANGED misused
    /\ UNCHANGED <<serverVars, acceptor, loops, functors, world, ups, dropped>>

\* The user's callback calls shutdown() on the connection.
shutdown(c) ==
    /\ Handling(conn[c].loop)
    /\ conn[c].state_ = "kConnected" /\ c \in Owned
    /\ conn' = [conn EXCEPT ![c].state_ = "kDisconnecting"]
    /\ UNCHANGED <<serverVars, acceptor, connections_, loops, queues, world,
                   misused, told, lost>>
-----------------------------------------------------------------------------
(***************************************************************************)
(* A loop swaps its queue out, runs the batch, and tests quit_.            *)
(***************************************************************************)
doPendingFunctors(l) ==
    /\ Handling(l)
    /\ pendingFunctors_[l] # <<>> \/ quit_[l]
    /\ at' = [at EXCEPT ![l] = "run"]
    /\ functors' = [functors EXCEPT ![l] = pendingFunctors_[l]]
    /\ pendingFunctors_' = [pendingFunctors_ EXCEPT ![l] = <<>>]
    /\ UNCHANGED <<serverVars, acceptor, connections_, quit_, conn, world,
                   misused, told, lost>>

\* Loop l is about to run the functor name of its batch, for c.
Runs(l, name, c) ==
    /\ Defined
    /\ at[l] = "run" /\ functors[l] # <<>>
    /\ l = Base => server \in {"up", "gone"}
    /\ Head(functors[l]) = <<name, c>>
    /\ functors' = [functors EXCEPT ![l] = Tail(functors[l])]
    /\ UNCHANGED <<serverVars, next_, nextConnId_, loops, world>>

listen ==
    /\ Runs(Base, "listen", NoConn)
    /\ IF server = "gone"
         THEN misused' = "server" /\ UNCHANGED listening
         ELSE listening' = TRUE /\ UNCHANGED misused
    /\ UNCHANGED <<connections_, pendingFunctors_, conn, told, lost>>

connectEstablished(l, c) ==
    /\ Runs(l, "connectEstablished", c)
    /\ Establish(c)
    /\ UNCHANGED <<listening, connections_, pendingFunctors_, misused, lost>>

connectDestroyed(l, c) ==
    /\ Runs(l, "connectDestroyed", c)
    /\ Destroy(c)
    /\ UNCHANGED <<listening, connections_, pendingFunctors_, misused, lost>>

removeConnectionInLoop(c) ==
    /\ Runs(Base, "removeConnectionInLoop", c)
    /\ IF server = "gone"
         THEN misused' = "server" /\ UNCHANGED <<connections_, pendingFunctors_, displaced>>
         ELSE Removes(c) /\ UNCHANGED misused
    /\ UNCHANGED <<listening, conn, told, dropped>>

\* The batch is done: while (!quit_).
endOfBatch(l) ==
    /\ Defined
    /\ at[l] = "run" /\ functors[l] = <<>>
    /\ l = Base => server \in {"up", "gone"}
    /\ at' = [at EXCEPT ![l] = IF quit_[l] THEN "stopped" ELSE "poll"]
    /\ UNCHANGED <<serverVars, acceptor, connections_, quit_, queues, conn,
                   world, misused, told, lost>>

\* loop() has returned and the EventLoop is destroyed, with the functors it
\* still has.  The base loop outlives the server.
loopGone(l) ==
    /\ Defined
    /\ at[l] = "stopped"
    /\ l = Base => server = "gone"
    /\ at' = [at EXCEPT ![l] = "gone"]
    /\ pendingFunctors_' = [pendingFunctors_ EXCEPT ![l] = <<>>]
    /\ dropped' = dropped \cup {c \in Conn : isPending(l, "connectDestroyed", c)}
    /\ UNCHANGED <<serverVars, acceptor, connections_, quit_, functors, conn,
                   world, misused, told, displaced>>

\* The user ends the base loop.
quit ==
    /\ Defined /\ at[Base] \in {"poll", "run"} /\ ~quit_[Base]
    /\ server \in {"up", "gone"}
    /\ quit_' = [quit_ EXCEPT ![Base] = TRUE]
    /\ UNCHANGED <<serverVars, acceptor, connections_, at, queues, conn, world,
                   misused, told, lost>>
-----------------------------------------------------------------------------
(***************************************************************************)
(* ~TcpServer, on the base loop's thread: after loop() has returned, or in *)
(* a callback of the loop.  Its body hands every connection to its loop;   *)
(* then the members go, and with threadPool_ the sub-loops, in order; the  *)
(* Acceptor is the last.                                                   *)
(***************************************************************************)
destroyServer ==
    /\ Defined /\ server = "up"
    /\ at[Base] \in {"poll", "stopped"}
    /\ inside' = (at[Base] = "poll")
    /\ server' = "dtor"
    /\ UNCHANGED <<numThreads_, started_, acceptor, connections_, loops, queues,
                   conn, world, misused, told, lost>>

\* Mutant of handedOver: only the base loop's connections are destroyed.
handedOverNowhere(c) == pendingFunctors_

\* A connection of a sub-loop is destroyed there, by a functor.
handedOver(c) == Queued(conn[c].loop, "connectDestroyed", c)

\* One turn of the destructor's loop.
destroyConnection(c) ==
    /\ Defined /\ server = "dtor"
    /\ c \in Mapped
    /\ connections_' = Erased(conn[c].name)
    /\ IF conn[c].loop = Base
         THEN Destroy(c) /\ UNCHANGED pendingFunctors_
         ELSE pendingFunctors_' = handedOver(c) /\ UNCHANGED <<conn, told>>
    /\ UNCHANGED <<serverVars, acceptor, loops, functors, world, misused, lost>>

\* Mutant of joins: ~EventLoopThread does not wait.
joinsNobody(l) == TRUE

\* join() returns once the thread has destroyed its loop.
joins(l) == at[l] \in {"none", "gone"}

\* ~EventLoopThread of loop l, once those before it have been joined.
quitLoop(l) ==
    /\ Defined
    /\ \/ server = "dtor" /\ Mapped = {}
       \/ server = "joining"
    /\ at[l] # "none" /\ ~quit_[l]
    /\ \A k \in Sub : k < l => joins(k)
    /\ server' = "joining"
    /\ quit_' = [quit_ EXCEPT ![l] = TRUE]
    /\ UNCHANGED <<numThreads_, started_, inside, acceptor, connections_, at,
                   queues, conn, world, misused, told, lost>>

\* The last thread has been joined; the acceptor closes, the server is gone.
serverGone ==
    /\ Defined
    /\ \/ server = "dtor" /\ Mapped = {}
       \/ server = "joining"
    /\ \A k \in Sub : at[k] = "none" \/ (quit_[k] /\ joins(k))
    /\ server' = "gone"
    /\ listening' = FALSE
    /\ UNCHANGED <<numThreads_, started_, inside, next_, nextConnId_,
                   connections_, loops, queues, conn, world, misused, told, lost>>
-----------------------------------------------------------------------------
(***************************************************************************)
(* The peers.                                                              *)
(***************************************************************************)
peerConnects(c) ==
    /\ Defined /\ listening
    /\ conn[c].state_ = "none" /\ c \notin waiting
    /\ \A d \in 1..(c - 1) : conn[d].state_ # "none" \/ d \in waiting
    /\ waiting' = waiting \cup {c}
    /\ UNCHANGED <<serverVars, acceptor, connections_, loops, queues, conn,
                   peerGone, misused, told, lost>>

peerGoes(c) ==
    /\ Defined
    /\ conn[c].state_ # "none" /\ c \notin peerGone
    /\ peerGone' = peerGone \cup {c}
    /\ UNCHANGED <<serverVars, acceptor, connections_, loops, queues, conn,
                   waiting, misused, told, lost>>
-----------------------------------------------------------------------------
\* What loop l has to do, quitting and accepting apart.
LoopStep(l) ==
    \/ doPendingFunctors(l)
    \/ endOfBatch(l)
    \/ loopGone(l)
    \/ \E c \in Conn :
          \/ connectEstablished(l, c)
          \/ connectDestroyed(l, c)
          \/ l = Base /\ removeConnectionInLoop(c)
          \/ conn[c].loop = l /\ handleClose(c)
    \/ l = Base /\ listen

DestructorStep ==
    \/ \E c \in Conn : destroyConnection(c)
    \/ \E l \in Sub : quitLoop(l)
    \/ serverGone

Accepts == \E c \in Conn : newConnection(c)

Next ==
    \/ \E onBase \in BOOLEAN : start(onBase)
    \/ Accepts
    \/ \E l \in LoopId : LoopStep(l)
    \/ quit
    \/ destroyServer
    \/ DestructorStep
    \/ \E c \in Conn : shutdown(c) \/ peerConnects(c) \/ peerGoes(c)

Spec == Init /\ [][Next]_vars

(***************************************************************************)
(* Every loop keeps going round (its wakeups are EventLoop's business) and *)
(* hears of the sockets that are ready.  Nobody has to start, to quit, to  *)
(* connect or to close.                                                    *)
(***************************************************************************)
Fairness ==
    /\ \A l \in LoopId : WF_vars(LoopStep(l))
    /\ WF_vars(Accepts)

FairSpec == Spec /\ Fairness
-----------------------------------------------------------------------------
(***************************************************************************)
(* Properties.                                                             *)
(***************************************************************************)

\* No loop is left with the channel of a connection that nobody owns, whatever
\* removals, destructions and swaps cross each other; the exception is a
\* connection whose entry of connections_ a namesake overwrote or erased, once
\* nextConnId_ had come round (TcpServer.cc:69-72, 96, 123).
RegisteredIsOwned ==
    \A c \in Conn :
        Defined /\ conn[c].registered /\ at[conn[c].loop] # "gone"
            => c \in Owned \/ c \in displaced

\* A server destroyed after its loop has returned, as in the example's main, is
\* not used any more: its sub-loops are joined before it is gone, and what they
\* queued in the base loop is dropped.  One destroyed in a callback of its loop
\* may be: a queued removeConnectionInLoop has a bare this (TcpServer.cc:115-116).
UsedOnlyAlive == misused = "server" => inside

\* The server is gone: who came up has been told down, if not in
\* kDisconnecting (TcpConnection.cc:179), nor displaced.  For a connection of a
\* sub-loop that is so because the connectDestroyed it was handed to that loop
\* with ran before the loop was joined, or else was thrown away unrun with the
\* queue of a loop that had tested quit_ before (TcpServer.cc:32-43).
EveryoneIsTold ==
    server = "gone" =>
        \A c \in Conn :
            \/ ups[c] = downs[c]
            \/ conn[c].state_ = "kDisconnecting"
            \/ c \in dropped \cup displaced

\* The promise of ServerCallbacks: up and down once each, none after the end.
SC == INSTANCE ServerCallbacks WITH
        told <- [c \in Conn |-> CASE ups[c] = 0 /\ downs[c] = 0 -> "nothing"
                                  [] ups[c] = 1 /\ downs[c] = 0 -> "up"
                                  [] ups[c] = 1 /\ downs[c] = 1 -> "down"
                                  [] OTHER -> "told too often"],
        closed <- server = "gone"

ServerCallbacksSpec == SC!Spec

\* The base loop is done, or about to be.
Over == ~Defined \/ server # "up" \/ quit_[Base]

\* A peer that waits is accepted, or every descriptor is held by a connection
\* whose peer is still there: a full table is waited out and not given up on, and
\* the descriptor of a closed connection comes back once its removal has made
\* its way through both loops (Acceptor.cc:49-72, TcpServer.cc:113-126).
WaitingIsAccepted ==
    waiting # {} ~>
        waiting = {} \/ Cardinality((Owned \ {NoConn}) \ peerGone) >= MaxFds \/ Over

\* EventLoopThreadPool.h:21-23, "round-robin": getNextLoop stays in loops_.
IndexInRange == misused # "index"

\* TcpServer.cc:37-40, "the resources are released ... destroy the connection":
\* nothing is left connected behind a server that is gone.
NobodyIsLeft ==
    server = "gone" => \A c \in Conn : conn[c].state_ # "kConnected"
=============================================================================
