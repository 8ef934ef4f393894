---------------------------- MODULE TcpConnection ----------------------------
(***************************************************************************)
(* One TcpConnection (TcpConnection.cc) from newConnection to its          *)
(* destructor: the thread of its loop, the server that owns it, other      *)
(* threads that hold a TcpConnectionPtr, the socket and the peer.          *)
(*                                                                         *)
(* agenda is what the loop thread has still to run, innermost call first:  *)
(* the rest of handleEventWithGuard, of a handler, of the functors of      *)
(* doPendingFunctors.  Each entry is run in one step.  The loop's queue is *)
(* the FIFO that EventLoop implements; a Channel's index_ stands for its   *)
(* registration, which EPollPoller keeps exact.                            *)
(***************************************************************************)
EXTENDS Channel, Naturals

CONSTANTS
    User,          \* threads, not the loop's, that may hold the connection
    SingleLoop,    \* kinds of server: TRUE is one without sub-loops
    SndBuf,        \* bytes the socket holds until the peer takes them
    HighWaterMark,
    MaxSends,      \* bound: messages handed to send()
    MaxInput       \* bound: unread bytes in the socket

ASSUME TcpConnectionAssumption ==
    /\ SingleLoop \subseteq BOOLEAN
    /\ SndBuf \in Nat \ {0}
    /\ HighWaterMark \in Nat \ {0}
    /\ MaxSends \in Nat
    /\ MaxInput \in Nat \ {0}

VARIABLES
    state_,
    channel,          \* channel_: events and index
    outputBuffer_,    \* its readable bytes; message k is the byte k
    agenda,           \* calls the loop thread has still to run
    pendingFunctors_, \* functors queued in the loop for this connection
    guard,            \* the loop thread's shared_ptr: the tie, or the batch
    singleLoop,       \* the server's loop is the connection's; never changes
    inServer,         \* TcpServer::connections_ holds the connection
    removals,         \* removeConnectionInLoop functors in the server's loop
    serverUp,         \* the TcpServer has not been destroyed
    holds,            \* [User -> BOOLEAN]: the thread has a TcpConnectionPtr
    call,             \* [User -> ...]: where the thread is in a call
    socket,           \* the kernel's side
    killed,           \* a write raised SIGPIPE, which nobody ignores
    sent,             \* history: messages handed over
    ups, downs,       \* history: connectionCallback_ calls, by kind
    destroys          \* history: connectDestroyed calls

connection == <<state_, channel, outputBuffer_>>
loop == <<agenda, pendingFunctors_, guard>>
server == <<singleLoop, inServer, removals, serverUp>>
users == <<holds, call>>
history == <<sent, ups, downs, destroys>>
vars == <<connection, loop, server, users, socket, killed, history>>

\* Entries of agenda and pendingFunctors_.
Run(name) == <<name, 0>>
SendFunctor(msg) == <<"sendInLoop", msg>>

Garbage == 0  \* what is found behind message.c_str() once message is gone

UserCallback == {"connectionUp", "connectionDown", "messageCallback",
                 "writeCompleteCallback", "highWaterMarkCallback"}

\* Mutant of Counted: the functors of the connection's own calls are raw.
CountedCallbacks == {"writeCompleteCallback", "highWaterMarkCallback"}

\* Functors that own a share of the connection, and functors with a bare this.
Counted == {"connectEstablished", "connectDestroyed",
            "writeCompleteCallback", "highWaterMarkCallback"}
Raw == {"sendInLoop", "shutdownInLoop"}

Entries ==
    (   (UserCallback \cup Counted \cup {"shutdownInLoop", "handleClose",
           "handleError", "handleRead", "handleWrite", "closeCallback",
           "disconnect", "remove", "doPendingFunctors", "endOfBatch"}) \X {0}
    ) \cup ({"sendInLoop"} \X (1..MaxSends))

Names(seq) == {seq[i][1] : i \in DOMAIN seq}

\* Somebody owns a share of the connection.
Referenced ==
    \/ inServer
    \/ removals > 0
    \/ guard
    \/ Names(pendingFunctors_) \cap Counted # {}
    \/ \E u \in User : holds[u]

TypeOK ==
    /\ state_ \in {"kConnecting", "kConnected", "kDisconnecting", "kDisconnected"}
    /\ channel \in ChannelValue
    /\ outputBuffer_ \in Seq(0..MaxSends)
    /\ agenda \in Seq(Entries)
    /\ pendingFunctors_ \in Seq(Entries)
    /\ {guard, singleLoop, inServer, serverUp, killed} \subseteq BOOLEAN
    /\ removals \in Nat
    /\ holds \in [User -> BOOLEAN]
    /\ call \in [User -> {"none", "send", "shutdown", "shutdownInLoop"}]
    /\ socket \in [rcv: 0..MaxInput, fin: BOOLEAN, rst: BOOLEAN, err: BOOLEAN,
                   wrShut: BOOLEAN, wire: Seq(0..MaxSends), taken: 0..MaxSends]
    /\ sent \in 0..MaxSends
    /\ {ups, downs, destroys} \subseteq Nat

\* newConnection: made, entered in connections_, connectEstablished run at once
\* or queued in the connection's loop.
Init ==
    /\ singleLoop \in SingleLoop
    /\ state_ = "kConnecting"
    /\ channel = NewChannel
    /\ outputBuffer_ = <<>>
    /\ agenda = IF singleLoop THEN <<Run("connectEstablished"), Run("endOfBatch")>> ELSE <<>>
    /\ pendingFunctors_ = IF singleLoop THEN <<>> ELSE <<Run("connectEstablished")>>
    /\ guard = singleLoop
    /\ inServer = TRUE
    /\ removals = 0
    /\ serverUp = TRUE
    /\ holds = [u \in User |-> FALSE]
    /\ call = [u \in User |-> "none"]
    /\ socket = [rcv |-> 0, fin |-> FALSE, rst |-> FALSE, err |-> FALSE,
                 wrShut |-> FALSE, wire |-> <<>>, taken |-> 0]
    /\ killed = FALSE
    /\ sent = 0 /\ ups = 0 /\ downs = 0 /\ destroys = 0
-----------------------------------------------------------------------------
(***************************************************************************)
(* The socket.  rcv counts unread bytes; wire is everything write() has    *)
(* accepted and taken how much of it the peer has; fin and rst are what    *)
(* the peer has sent; err is SO_ERROR; wrShut is shutdown(SHUT_WR).        *)
(***************************************************************************)
Space == SndBuf - (Len(socket.wire) - socket.taken)

\* write() fails for good, and then raises SIGPIPE unless SO_ERROR is pending.
WriteBroken == socket.rst \/ socket.wrShut
RaisesSigpipe == WriteBroken /\ ~socket.err

\* What epoll sees on the socket, and what it reports of it for channel_.
Ready ==
    {e \in {"IN", "OUT", "HUP", "ERR"} :
        CASE e = "IN"  -> socket.rcv > 0 \/ socket.fin \/ socket.rst
          [] e = "OUT" -> Space > 0 \/ WriteBroken
          [] e = "HUP" -> socket.rst \/ (socket.fin /\ socket.wrShut)
          [] e = "ERR" -> socket.err}

revents ==
    IF channel.index = kAdded THEN Ready \cap (channel.events \cup AlwaysReported) ELSE {}

PeerStep(s) ==
    /\ ~killed
    /\ Referenced
    /\ ~socket.rst
    /\ socket' = s
    /\ UNCHANGED <<connection, loop, server, users, killed, history>>

peerSends ==
    /\ ~socket.fin /\ socket.rcv < MaxInput
    /\ PeerStep([socket EXCEPT !.rcv = socket.rcv + 1])
peerTakes ==
    /\ socket.taken < Len(socket.wire)
    /\ PeerStep([socket EXCEPT !.taken = socket.taken + 1])
peerCloses == ~socket.fin /\ PeerStep([socket EXCEPT !.fin = TRUE])
peerResets == PeerStep([socket EXCEPT !.rst = TRUE, !.err = TRUE])
-----------------------------------------------------------------------------
(***************************************************************************)
(* The loop thread between two callbacks of this connection.               *)
(***************************************************************************)

\* A server without sub-loops is destroyed once its loop has returned.
looping == singleLoop => serverUp

\* epoll_wait returns, and handleEvent locks the tie.  With functors queued it
\* may have returned before the socket was ready.
poll ==
    /\ ~killed /\ looping
    /\ agenda = <<>>
    /\ \E reported \in {revents, {}} :
          /\ reported = {} => pendingFunctors_ # <<>>
          /\ guard' = (reported # {})
          /\ agenda' = [i \in DOMAIN callbacks(reported) |-> Run(callbacks(reported)[i])]
                       \o <<Run("doPendingFunctors")>>
    /\ UNCHANGED <<connection, pendingFunctors_, server, users, socket, killed, history>>

\* The next entry is name; the connection it is a member function of exists.
Runs(name) ==
    /\ ~killed
    /\ agenda # <<>>
    /\ Head(agenda)[1] = name
    /\ name \in Raw => Referenced

doPendingFunctors ==
    /\ Runs("doPendingFunctors")
    /\ agenda' = pendingFunctors_ \o <<Run("endOfBatch")>>
    /\ guard' = (Names(pendingFunctors_) \cap Counted # {})
    /\ pendingFunctors_' = <<>>
    /\ UNCHANGED <<connection, server, users, socket, killed, history>>

\* The vector of functors is destroyed, with the shares they own.
endOfBatch ==
    /\ Runs("endOfBatch")
    /\ agenda' = Tail(agenda)
    /\ guard' = FALSE
    /\ UNCHANGED <<connection, pendingFunctors_, server, users, socket, killed, history>>
-----------------------------------------------------------------------------
(***************************************************************************)
(* Setting up and tearing down.                                            *)
(***************************************************************************)
connectEstablished ==
    /\ Runs("connectEstablished")
    /\ state_' = "kConnected"
    /\ channel' = updated(readingEnabled(channel))
    /\ agenda' = <<Run("connectionUp")>> \o Tail(agenda)
    /\ ups' = ups + 1
    /\ UNCHANGED <<outputBuffer_, pendingFunctors_, guard, server, users, socket,
                   killed, sent, downs, destroys>>

\* Mutants of hasToDisconnect and mayShutDown: the state is not looked at.
disconnectsAlways == TRUE
shutsDownAlways == TRUE

\* The tests of connectDestroyed and of shutdown().
hasToDisconnect == state_ = "kConnected"
mayShutDown == state_ = "kConnected"

\* connectDestroyed: its test, and the two parts that follow it.
connectDestroyed ==
    /\ Runs("connectDestroyed")
    /\ agenda' = (IF hasToDisconnect THEN <<Run("disconnect")>> ELSE <<>>)
                 \o <<Run("remove")>> \o Tail(agenda)
    /\ destroys' = destroys + 1
    /\ UNCHANGED <<connection, pendingFunctors_, guard, server, users, socket,
                   killed, sent, ups, downs>>

\* setState(kDisconnected), disableAll, and what is called next.
Disconnects(name, next) ==
    /\ Runs(name)
    /\ state_' = "kDisconnected"
    /\ channel' = updated(allDisabled(channel))
    /\ agenda' = next \o Tail(agenda)
    /\ downs' = downs + 1
    /\ UNCHANGED <<outputBuffer_, pendingFunctors_, guard, server, users, socket,
                   killed, sent, ups, destroys>>

disconnect == Disconnects("disconnect", <<Run("connectionDown")>>)
handleClose == Disconnects("handleClose", <<Run("connectionDown"), Run("closeCallback")>>)

remove ==
    /\ Runs("remove")
    /\ channel' = removed(channel)
    /\ agenda' = Tail(agenda)
    /\ UNCHANGED <<state_, outputBuffer_, pendingFunctors_, guard, server, users,
                   socket, killed, history>>

\* Mutant of afterRemoval: connectDestroyed is not queued.
afterErasing == pendingFunctors_

\* The connection's functors after removeConnectionInLoop.
afterRemoval == Append(pendingFunctors_, Run("connectDestroyed"))

\* TcpServer::removeConnection, the closeCallback_: on to the server's loop.
closeCallback ==
    /\ Runs("closeCallback")
    /\ agenda' = Tail(agenda)
    /\ IF singleLoop
         THEN /\ inServer' = FALSE
              /\ pendingFunctors_' = afterRemoval
              /\ UNCHANGED removals
         ELSE /\ removals' = removals + 1
              /\ UNCHANGED <<inServer, pendingFunctors_>>
    /\ UNCHANGED <<connection, guard, singleLoop, serverUp, users, socket, killed, history>>

\* The server's loop runs removeConnectionInLoop.
removeConnectionInLoop ==
    /\ ~killed /\ serverUp
    /\ removals > 0
    /\ removals' = removals - 1
    /\ inServer' = FALSE
    /\ pendingFunctors_' = afterRemoval
    /\ UNCHANGED <<connection, agenda, guard, singleLoop, serverUp, users, socket, killed, history>>

\* ~TcpServer, after its own loop has returned: connectDestroyed goes to the
\* connection's loop, which is the same thread when there are no sub-loops.
destroyServer ==
    /\ ~killed /\ serverUp
    /\ singleLoop => agenda = <<>>
    /\ serverUp' = FALSE
    /\ inServer' = FALSE
    /\ IF singleLoop
         THEN /\ agenda' = IF inServer THEN <<Run("connectDestroyed"), Run("endOfBatch")>> ELSE <<>>
              /\ guard' = inServer
              /\ UNCHANGED pendingFunctors_
         ELSE /\ pendingFunctors_' = IF inServer
                                       THEN Append(pendingFunctors_, Run("connectDestroyed"))
                                       ELSE pendingFunctors_
              /\ UNCHANGED <<agenda, guard>>
    /\ UNCHANGED <<connection, singleLoop, removals, users, socket, killed, history>>
-----------------------------------------------------------------------------
(***************************************************************************)
(* Reading and writing.                                                    *)
(***************************************************************************)
HandlerStep(name, next) ==
    /\ Runs(name)
    /\ agenda' = next \o Tail(agenda)
    /\ UNCHANGED <<guard, server, users, history>>

\* readv takes bytes, or finds the end of the stream, or fails (handleError
\* then only reads SO_ERROR away).
handleRead ==
    \/ \E n \in 1..socket.rcv :
          /\ HandlerStep("handleRead", <<Run("messageCallback")>>)
          /\ socket' = [socket EXCEPT !.rcv = socket.rcv - n]
          /\ UNCHANGED <<connection, pendingFunctors_, killed>>
    \/ /\ socket.rcv = 0 /\ ~socket.err /\ (socket.fin \/ socket.rst)
       /\ HandlerStep("handleRead", <<Run("handleClose")>>)
       /\ UNCHANGED <<connection, pendingFunctors_, socket, killed>>
    \/ /\ socket.rcv = 0 /\ (socket.err \/ ~(socket.fin \/ socket.rst))
       /\ HandlerStep("handleRead", <<>>)
       /\ socket' = [socket EXCEPT !.err = FALSE]
       /\ UNCHANGED <<connection, pendingFunctors_, killed>>

handleError ==
    /\ HandlerStep("handleError", <<>>)
    /\ socket' = [socket EXCEPT !.err = FALSE]
    /\ UNCHANGED <<connection, pendingFunctors_, killed>>

\* Mutants of shutDown, shutDownIfDue and unwritten: the write side goes at
\* once; never after a drain; retrieve() takes a byte too many, or too few.
shutDownAtOnce(c, s) == [s EXCEPT !.wrShut = TRUE]
neverShutDown(c, s) == s
unwrittenLosingOne(n) == SubSeq(outputBuffer_, n + 2, Len(outputBuffer_))
unwrittenKeepingOne(n) == SubSeq(outputBuffer_, n, Len(outputBuffer_))

\* shutdownInLoop, on a channel c: the socket afterwards.
shutDown(c, s) == IF isWriting(c) THEN s ELSE [s EXCEPT !.wrShut = TRUE]

\* The call of shutdownInLoop at the end of handleWrite.
shutDownIfDue(c, s) == IF state_ = "kDisconnecting" THEN shutDown(c, s) ELSE s

\* outputBuffer_ after retrieve(n).
unwritten(n) == SubSeq(outputBuffer_, n + 1, Len(outputBuffer_))

\* write() takes n bytes of outputBuffer_; with the last one go the interest
\* in writing and, if the connection is being shut down, the write side.
writesSome(n) ==
    LET onWire == [socket EXCEPT !.wire = socket.wire \o SubSeq(outputBuffer_, 1, n)]
    IN  /\ outputBuffer_' = unwritten(n)
        /\ IF unwritten(n) # <<>>
             THEN /\ socket' = onWire
                  /\ UNCHANGED <<channel, pendingFunctors_>>
             ELSE /\ channel' = updated(writingDisabled(channel))
                  /\ pendingFunctors_' = Append(pendingFunctors_, Run("writeCompleteCallback"))
                  /\ socket' = shutDownIfDue(channel', onWire)

handleWrite ==
    /\ HandlerStep("handleWrite", <<>>)
    /\ UNCHANGED state_
    /\ \/ /\ isWriting(channel) /\ ~WriteBroken
          /\ \E n \in 1..Len(outputBuffer_) : n <= Space /\ writesSome(n)
          /\ UNCHANGED killed
       \/ /\ isWriting(channel) /\ (WriteBroken \/ Space = 0)
          /\ socket' = [socket EXCEPT !.err = FALSE]
          /\ killed' = RaisesSigpipe
          /\ UNCHANGED <<channel, outputBuffer_, pendingFunctors_>>
       \/ /\ ~isWriting(channel)
          /\ UNCHANGED <<channel, outputBuffer_, pendingFunctors_, socket, killed>>

\* The test for a direct write: no interest in writing, and writableBytes() is
\* zero.  An empty buffer always has room (Buffer, EmptyIsReset); one that is
\* not empty may or may not.
directWrites ==
    IF isWriting(channel) \/ outputBuffer_ = <<>> THEN {FALSE} ELSE BOOLEAN

\* Mutant of askedToWrite: the test is inverted.
askedOnlyIfWriting(c) == IF isWriting(c) THEN updated(writingEnabled(c)) ELSE c

\* channel_ once EPOLLOUT is asked for.
askedToWrite(c) == IF isWriting(c) THEN c ELSE updated(writingEnabled(c))

\* The part of sendInLoop that keeps the byte and asks for EPOLLOUT.
keeps(byte) ==
    LET oldLen == Len(outputBuffer_) IN
    /\ outputBuffer_' = Append(outputBuffer_, byte)
    /\ channel' = askedToWrite(channel)
    /\ pendingFunctors_' =
          IF oldLen < HighWaterMark /\ oldLen + 1 >= HighWaterMark
            THEN Append(pendingFunctors_, Run("highWaterMarkCallback"))
            ELSE pendingFunctors_

sendInLoop(byte) ==
    IF state_ = "kDisconnected"
      THEN UNCHANGED <<channel, outputBuffer_, pendingFunctors_, socket, killed>>
      ELSE \E direct \in directWrites :
             IF direct /\ ~WriteBroken /\ Space > 0
               THEN /\ socket' = [socket EXCEPT !.wire = Append(socket.wire, byte)]
                    /\ pendingFunctors_' = Append(pendingFunctors_, Run("writeCompleteCallback"))
                    /\ UNCHANGED <<channel, outputBuffer_, killed>>
               ELSE /\ killed' = (direct /\ RaisesSigpipe)
                    /\ socket' = [socket EXCEPT !.err = socket.err /\ ~direct]
                    /\ IF direct /\ WriteBroken
                         THEN UNCHANGED <<channel, outputBuffer_, pendingFunctors_>>
                         ELSE keeps(byte)

\* A functor queued by another thread's send(): it kept message.c_str(), and
\* the string may be gone.
queuedSend ==
    /\ HandlerStep("sendInLoop", <<>>)
    /\ \E byte \in {Head(agenda)[2], Garbage} : sendInLoop(byte)
    /\ UNCHANGED state_

queuedShutdown ==
    /\ HandlerStep("shutdownInLoop", <<>>)
    /\ socket' = shutDown(channel, socket)
    /\ UNCHANGED <<connection, pendingFunctors_, killed>>
-----------------------------------------------------------------------------
(***************************************************************************)
(* User code in a callback on the loop thread.                             *)
(***************************************************************************)
InCallback == \E name \in UserCallback : Runs(name)

\* send() and shutdown() test state_ and do the rest on the spot.
callbackSends ==
    /\ InCallback
    /\ state_ = "kConnected"
    /\ sent < MaxSends
    /\ sent' = sent + 1
    /\ sendInLoop(sent')
    /\ UNCHANGED <<state_, agenda, guard, server, users, ups, downs, destroys>>

callbackShutsDown ==
    /\ InCallback
    /\ mayShutDown
    /\ state_' = "kDisconnecting"
    /\ socket' = shutDown(channel, socket)
    /\ UNCHANGED <<channel, outputBuffer_, loop, server, users, killed, history>>

\* The callback hands its TcpConnectionPtr to another thread.
callbackShares(u) ==
    /\ InCallback
    /\ ~holds[u]
    /\ holds' = [holds EXCEPT ![u] = TRUE]
    /\ UNCHANGED <<connection, loop, server, call, socket, killed, history>>

callbackReturns ==
    /\ InCallback
    /\ agenda' = Tail(agenda)
    /\ UNCHANGED <<connection, pendingFunctors_, guard, server, users, socket,
                   killed, history>>
-----------------------------------------------------------------------------
(***************************************************************************)
(* Another thread that holds the connection.  state_ is read in one step   *)
(* and acted upon in later ones.                                           *)
(***************************************************************************)
goesOn(u, from, to) ==
    /\ ~killed
    /\ call[u] = from
    /\ call' = [call EXCEPT ![u] = to]

send(u) ==
    /\ holds[u] /\ sent < MaxSends
    /\ state_ = "kConnected"
    /\ goesOn(u, "none", "send")
    /\ UNCHANGED <<connection, loop, server, holds, socket, killed, history>>

sendQueues(u) ==
    /\ sent < MaxSends
    /\ goesOn(u, "send", "none")
    /\ sent' = sent + 1
    /\ pendingFunctors_' = Append(pendingFunctors_, SendFunctor(sent'))
    /\ UNCHANGED <<connection, agenda, guard, server, holds, socket, killed,
                   ups, downs, destroys>>

shutdown(u) ==
    /\ holds[u]
    /\ mayShutDown
    /\ goesOn(u, "none", "shutdown")
    /\ UNCHANGED <<connection, loop, server, holds, socket, killed, history>>

shutdownSets(u) ==
    /\ goesOn(u, "shutdown", "shutdownInLoop")
    /\ state_' = "kDisconnecting"
    /\ UNCHANGED <<channel, outputBuffer_, loop, server, holds, socket, killed, history>>

shutdownQueues(u) ==
    /\ goesOn(u, "shutdownInLoop", "none")
    /\ pendingFunctors_' = Append(pendingFunctors_, Run("shutdownInLoop"))
    /\ UNCHANGED <<connection, agenda, guard, server, holds, socket, killed, history>>

letsGo(u) ==
    /\ holds[u]
    /\ goesOn(u, "none", "none")
    /\ holds' = [holds EXCEPT ![u] = FALSE]
    /\ UNCHANGED <<connection, loop, server, socket, killed, history>>
-----------------------------------------------------------------------------
LoopStep ==
    \/ poll
    \/ doPendingFunctors
    \/ endOfBatch
    \/ connectEstablished
    \/ connectDestroyed
    \/ disconnect
    \/ handleClose
    \/ remove
    \/ closeCallback
    \/ handleRead
    \/ handleError
    \/ handleWrite
    \/ queuedSend
    \/ queuedShutdown
    \/ callbackReturns

UserStep ==
    \/ callbackSends
    \/ callbackShutsDown
    \/ \E u \in User :
          \/ callbackShares(u)
          \/ send(u)
          \/ sendQueues(u)
          \/ shutdown(u)
          \/ shutdownSets(u)
          \/ shutdownQueues(u)
          \/ letsGo(u)

Next ==
    \/ LoopStep
    \/ UserStep
    \/ removeConnectionInLoop
    \/ destroyServer
    \/ peerSends
    \/ peerTakes
    \/ peerCloses
    \/ peerResets

Spec == Init /\ [][Next]_vars

(***************************************************************************)
(* The two loops run and callbacks return; nobody has to call, to send or  *)
(* to close.  The peer takes what the socket holds for it.                 *)
(***************************************************************************)
Fairness == WF_vars(LoopStep) /\ WF_vars(removeConnectionInLoop) /\ WF_vars(peerTakes)

FairSpec == Spec /\ Fairness
-----------------------------------------------------------------------------
(***************************************************************************)
(* Properties.                                                             *)
(***************************************************************************)

\* What the user sends is what the peer gets: the bytes on the wire and the
\* bytes still buffered are the messages handed to send(), each once and in
\* order, across partial writes and the end of the connection
\* (sendInLoop, handleWrite; TcpConnection.h:44).
StreamIntact == socket.wire \o outputBuffer_ = [k \in 1..sent |-> k]

\* However the threads interleave, no message goes out twice
\* (handleWrite and retrieve, TcpConnection.cc:218-224).
SentOnce ==
    LET stream == socket.wire \o outputBuffer_
    IN  \A i, j \in DOMAIN stream :
            i # j /\ stream[i] # Garbage => stream[i] # stream[j]

\* "called by the user, sends data to the client" (TcpConnection.h:44): what
\* goes out is what was given to send().
OnlySentBytes == Garbage \notin {socket.wire[i] : i \in DOMAIN socket.wire}

\* The write side is closed only when everything buffered has been written
\* ("the data in outputBuffer has all been sent", TcpConnection.cc:144-146).
ShutdownFlushes == socket.wrShut => outputBuffer_ = <<>>

\* EPOLLOUT is asked for exactly while there is something to write: no busy
\* loop on an empty buffer, no bytes left behind without a wakeup
\* (TcpConnection.cc:111-128, 224-226).
WritingIffBuffered ==
    state_ \in {"kConnected", "kDisconnecting"} /\ channel.index = kAdded
        => (isWriting(channel) <=> outputBuffer_ # <<>>)

\* kDisconnected is the last of the states (TcpConnection.h:72-73), but for a
\* shutdown() that read kConnected on another thread, lost the processor and
\* only then stored kDisconnecting (TcpConnection.cc:135-137).
DisconnectedIsFinal ==
    [][state_ = "kDisconnected" /\ state_' # "kDisconnected"
         => \E u \in User : call[u] = "shutdown" /\ call'[u] = "shutdownInLoop"]_vars

\* The user sees one UP and at most one DOWN, and messages only in between;
\* connectDestroyed runs once ("should be called only once",
\* TcpConnection.h:69), and by its end the DOWN has come, unless it found the
\* connection in kDisconnecting (connectEstablished, handleClose,
\* connectDestroyed).
CallbacksPaired ==
    /\ ups <= 1
    /\ downs <= ups
    /\ "messageCallback" \in Names(agenda) => ups = 1 /\ downs = 0
    /\ destroys <= 1
    /\ destroys = 1 /\ {"disconnect", "remove"} \cap Names(agenda) = {}
         => downs = ups \/ state_ = "kDisconnecting"

\* The destructor never runs while the poller still has the channel
\* (Poller.h:28): a registered channel always has an owner of its connection.
NeverDestroyedRegistered == channel.index # kNew => Referenced

\* A connection whose peer has gone is closed, removed from the server and
\* from the poller, and freed (handleClose to connectDestroyed).
GoneIsFreed ==
    socket.fin \/ socket.rst
        ~> \/ state_ = "kDisconnected" /\ channel.index = kNew /\ ~Referenced
           \/ ~serverUp \/ killed

\* shutdown() closes the write side once the peer has taken what was buffered,
\* unless the connection ends first (handleWrite, TcpConnection.cc:234-237).
ShutdownCompletes ==
    state_ = "kDisconnecting"
        ~> socket.wrShut \/ state_ = "kDisconnected" \/ socket.rst \/ ~serverUp \/ killed
=============================================================================
