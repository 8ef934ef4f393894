---------------------- MODULE TcpConnectionLoopProofs ----------------------
(***************************************************************************)
(* A TcpConnection that no other thread calls (User = {}), for any number  *)
(* of messages and bytes, with sub-loops or without: what is sent is what  *)
(* goes out, the write side is closed last, the user is told once of the   *)
(* beginning and of the end, and a registered channel has an owner.        *)
(***************************************************************************)
EXTENDS TcpConnectionProofs

\* The connection is reached from its loop and its server only.
Alone == User = {}

\* Neither send() nor shutdown() of another thread is queued.
NothingRaw == Calls \cap Raw = {}

\* The write side goes last: after what is buffered, and after kConnected.
WriteSideLast ==
    socket.wrShut => outputBuffer_ = <<>> /\ state_ \in {"kDisconnecting", "kDisconnected"}

\* The user has been told what the state says.
ToldByState ==
    /\ state_ = "kConnecting" => ups = 0 /\ downs = 0
    /\ state_ \in {"kConnected", "kDisconnecting"} => ups = 1 /\ downs = 0
    /\ state_ = "kDisconnected" => ups = 1 /\ downs = 1

\* A channel in epoll reads for a connection that is up; one taken out of it for
\* want of events has none.
AddedIsUp ==
    /\ channel.index = kAdded =>
          state_ \in {"kConnected", "kDisconnecting"} /\ kReadEvent \subseteq channel.events
    /\ channel.index = kDeleted => ~isWriting(channel)

\* A connection that is kConnecting waits for connectEstablished ahead of all
\* else about it.
Establishing ==
    state_ = "kConnecting" =>
        /\ destroys = 0
        /\ \/ agenda # <<>> /\ Head(agenda)[1] = "connectEstablished"
           \/ /\ ~singleLoop
              /\ pendingFunctors_ # <<>> /\ Head(pendingFunctors_)[1] = "connectEstablished"
              /\ agenda = <<>> \/ agenda = <<Run("doPendingFunctors")>>

\* connectDestroyed and its two parts.
Teardown == {"connectDestroyed", "disconnect", "remove"}

\* While messageCallback_ is to be called nothing can take the connection down.
MessageUp ==
    "messageCallback" \in Names(agenda) =>
        /\ channel.index = kAdded
        /\ Names(agenda) \cap ({"handleClose", "handleRead"} \cup Teardown) = {}

\* Handlers and the calls of connectDestroyed never share a round of the loop.
RoundsApart ==
    Names(agenda) \cap Handlers # {} => channel.index # kNew /\ Names(agenda) \cap Teardown = {}

\* The server hears of the close once, and has the connection until then.
OneClose ==
    /\ OnceIn(agenda, "closeCallback")
    /\ removals > 0 => removals = 1 /\ ~singleLoop /\ "closeCallback" \notin Names(agenda)
    /\ "closeCallback" \in Names(agenda) \/ removals > 0 => downs = 1 /\ (serverUp => inServer)
    /\ downs = 0 /\ serverUp => inServer
    /\ inServer => serverUp

\* connectDestroyed is called once, by whoever takes the connection out of
\* connections_, and reports the end of a connection that is up.
OneDestroy ==
    /\ OnceIn(agenda, "connectDestroyed") /\ OnceIn(pendingFunctors_, "connectDestroyed")
    /\ "connectDestroyed" \notin Names(agenda) \cap Names(pendingFunctors_)
    /\ inServer \/ "connectDestroyed" \in Calls => destroys = 0
    /\ inServer => "connectDestroyed" \notin Calls
    /\ destroys <= 1
    /\ destroys = 1 /\ state_ = "kConnected" => "disconnect" \in Names(agenda)

\* What ends a round comes last in it; in a server without sub-loops that is
\* gone, connectDestroyed is all that runs.
Ends == {"doPendingFunctors", "endOfBatch"}
LastIn(q) == \A i \in DOMAIN q : q[i][1] \in Ends => i = Len(q)

LastRound ==
    /\ LastIn(agenda)
    /\ singleLoop /\ ~serverUp => Names(agenda) \subseteq Teardown \cup {"connectionDown", "endOfBatch"}

\* A connection in the poller, or on its way there, is in connections_, or on its
\* way out of it to remove, and the batch that does so owns a share of it.
Owned ==
    /\ Names(agenda) \cap Teardown # {} => guard
    /\ channel.index # kNew \/ state_ = "kConnecting" =>
          inServer \/ removals > 0 \/ "connectDestroyed" \in Calls \/ "remove" \in Names(agenda)

LInv ==
    /\ NothingRaw
    /\ StreamIntact
    /\ WriteSideLast
    /\ ToldByState
    /\ AddedIsUp
    /\ Establishing
    /\ MessageUp
    /\ RoundsApart
    /\ OneClose
    /\ OneDestroy
    /\ LastRound
    /\ Owned
-----------------------------------------------------------------------------
(***************************************************************************)
(* What a step does to the two queues.                                     *)
(***************************************************************************)

\* The next call of the agenda, called name, is replaced by calls called names.
Rest == Names(Tail(agenda))

Popped(name, names) ==
    /\ agenda # <<>> /\ Head(agenda)[1] = name
    /\ Names(agenda) = {name} \cup Rest
    /\ Names(agenda') = names \cup Rest
    /\ \A x : OnceIn(agenda, x) =>
          /\ x = name => x \notin Rest
          /\ x \notin names \cap Rest => OnceIn(agenda', x)
    /\ LastIn(agenda) => LastIn(agenda') /\ (name \in Ends => Rest = {} /\ agenda' = <<>>)

LEMMA PopOf ==
  ASSUME TypeOK, NEW name, Runs(name), NEW next \in Shorts, agenda' = next \o Tail(agenda),
         Names(next) \cap Ends = {}, \A x : OnceIn(next, x),
         name \in Ends => next = <<>>
  PROVE  Popped(name, Names(next))
<1>1. agenda # <<>> /\ Head(agenda)[1] = name
  BY DEF Runs
<1>2. agenda \in Seq(Entries)
  BY DEF TypeOK
<1>3. /\ Tail(agenda) \in Seq(Entries) /\ Len(agenda) \in Nat \ {0} /\ Head(agenda) = agenda[1]
      /\ DOMAIN agenda = 1..Len(agenda) /\ DOMAIN Tail(agenda) = 1..(Len(agenda) - 1)
      /\ Len(Tail(agenda)) = Len(agenda) - 1
      /\ \A i \in DOMAIN Tail(agenda) : Tail(agenda)[i] = agenda[i + 1]
  BY <1>1, <1>2, TailOf
<1>4. Names(agenda) = {name} \cup Rest
  BY <1>1, <1>2, NamesTail DEF Rest
<1>5. Names(agenda') = Names(next) \cup Rest
  BY <1>1, TakesOf DEF Rest
<1>6. next \in Seq(Entries)
  BY ShortsOf
<1>7. ASSUME NEW x, OnceIn(agenda, x)
      PROVE  /\ x = name => x \notin Rest
             /\ x \notin Names(next) \cap Rest => OnceIn(agenda', x)
  <2>1. OnceIn(Tail(agenda), x) /\ (x = name => x \notin Rest)
    BY <1>1, <1>2, <1>7, OnceTail DEF Rest
  <2>2. x \notin Names(next) \cap Rest => OnceIn(next \o Tail(agenda), x)
    BY <1>3, <1>6, <2>1, OnceConcat DEF Rest
  <2>3. QED
    BY <2>1, <2>2
<1>8. ASSUME LastIn(agenda) PROVE LastIn(agenda')
  <2>1. /\ Len(next) \in Nat /\ Len(agenda') = Len(next) + Len(Tail(agenda))
        /\ \A i \in DOMAIN next : agenda'[i] = next[i]
        /\ \A i \in DOMAIN agenda' :
              \/ i \in DOMAIN next
              \/ i - Len(next) \in DOMAIN Tail(agenda) /\ agenda'[i] = Tail(agenda)[i - Len(next)]
    <3>1. PICK t \in Seq(Entries) : t = Tail(agenda)
      BY <1>3
    <3>2. agenda' = next \o t
      BY <3>1
    <3>3. /\ Len(next) \in Nat /\ Len(next \o t) = Len(next) + Len(t)
          /\ \A i \in DOMAIN next : (next \o t)[i] = next[i]
          /\ \A i \in DOMAIN (next \o t) :
                \/ i \in DOMAIN next
                \/ i - Len(next) \in DOMAIN t /\ (next \o t)[i] = t[i - Len(next)]
      BY <1>6, ConcatOf
    <3>4. QED
      BY <3>1, <3>2, <3>3
  <2> SUFFICES ASSUME NEW i \in DOMAIN agenda', agenda'[i][1] \in Ends
               PROVE  i = Len(agenda')
    BY DEF LastIn
  <2>2. i \notin DOMAIN next
    BY <2>1 DEF Names
  <2>3. i - Len(next) \in DOMAIN Tail(agenda) /\ agenda'[i] = Tail(agenda)[i - Len(next)]
    BY <2>1, <2>2
  <2>4. PICK k \in DOMAIN Tail(agenda) : k = i - Len(next)
    BY <2>3
  <2>5. k \in Nat /\ k + 1 \in DOMAIN agenda /\ agenda[k + 1] = Tail(agenda)[k]
    BY <1>3
  <2>6. k + 1 = Len(agenda)
    BY <1>8, <2>3, <2>4, <2>5 DEF LastIn
  <2>7. agenda' \in Seq(Entries)
    BY <1>1, TakesOf
  <2>8. i \in Nat
    BY <2>7
  <2>9. /\ Len(agenda') = Len(next) + (Len(agenda) - 1)
        /\ Len(next) \in Nat /\ Len(agenda) \in Nat /\ k = i - Len(next) /\ k + 1 = Len(agenda)
    BY <1>3, <2>1, <2>4, <2>6
  <2>10. QED
    BY <2>8, <2>9
<1>9. ASSUME LastIn(agenda), name \in Ends PROVE Rest = {} /\ agenda' = <<>>
  <2>1. 1 \in DOMAIN agenda /\ agenda[1][1] \in Ends
    BY <1>1, <1>3, <1>9
  <2>2. Len(agenda) = 1
    BY <1>9, <2>1 DEF LastIn
  <2>3. DOMAIN Tail(agenda) = {} /\ Len(Tail(agenda)) = 0
    BY <1>3, <2>2
  <2>4. Tail(agenda) = <<>>
    BY <1>3, <2>3
  <2>5. QED
    BY <1>9, <2>4, NamesShort, Joins DEF Rest
<1>10. QED
  BY <1>1, <1>4, <1>5, <1>7, <1>8, <1>9 DEF Popped

LEMMA PopNone ==
  ASSUME TypeOK, NEW name, Runs(name), agenda' \in {Tail(agenda), <<>> \o Tail(agenda)}
  PROVE  Popped(name, {})
<1>1. agenda # <<>>
  BY DEF Runs
<1>2. <<>> \o Tail(agenda) = Tail(agenda)
  BY <1>1, HeadOf
<1>3. PICK next \in Shorts : next = <<>>
  BY ShortsHas
<1>4. agenda' = next \o Tail(agenda)
  BY <1>2, <1>3
<1>5. Names(next) = {} /\ \A x : OnceIn(next, x)
  BY <1>3, NamesShort, OnceShort
<1>6. Popped(name, Names(next))
  BY <1>3, <1>4, <1>5, PopOf
<1>7. QED
  BY <1>5, <1>6

LEMMA PopOne ==
  ASSUME TypeOK, NEW name, name \notin Ends, Runs(name), NEW a \in Short \ Ends,
         agenda' = <<Run(a)>> \o Tail(agenda)
  PROVE  Popped(name, {a})
<1>1. PICK next \in Shorts : next = <<Run(a)>>
  BY ShortsHas
<1>2. agenda' = next \o Tail(agenda)
  BY <1>1
<1>3. Names(next) = {a} /\ \A x : OnceIn(next, x)
  BY <1>1, NamesShort, OnceShort DEF Run
<1>4. Names(next) \cap Ends = {}
  BY <1>3
<1>5. Popped(name, Names(next))
  BY <1>2, <1>3, <1>4, PopOf
<1>6. QED
  BY <1>3, <1>5

LEMMA PopTwo ==
  ASSUME TypeOK, NEW name, name \notin Ends, Runs(name),
         NEW a \in Short \ Ends, NEW b \in Short \ Ends, a # b,
         agenda' = <<Run(a), Run(b)>> \o Tail(agenda)
  PROVE  Popped(name, {a, b})
<1>1. PICK next \in Shorts : next = <<Run(a), Run(b)>>
  BY ShortsHas
<1>2. agenda' = next \o Tail(agenda)
  BY <1>1
<1>3. Run(a)[1] = a /\ Run(b)[1] = b
  BY DEF Run
<1>4. Names(next) = {a, b} /\ \A x : OnceIn(next, x)
  BY <1>1, <1>3, NamesShort, OnceShort
<1>5. Names(next) \cap Ends = {}
  BY <1>4
<1>6. Popped(name, Names(next))
  BY <1>2, <1>4, <1>5, PopOf
<1>7. QED
  BY <1>4, <1>6

LEMMA PopSteps ==
  ASSUME TypeOK
  PROVE  /\ endOfBatch => Popped("endOfBatch", {})
         /\ connectEstablished => Popped("connectEstablished", {"connectionUp"})
         /\ connectDestroyed => Popped("connectDestroyed",
               IF state_ = "kConnected" THEN {"disconnect", "remove"} ELSE {"remove"})
         /\ disconnect => Popped("disconnect", {"connectionDown"})
         /\ handleClose => Popped("handleClose", {"connectionDown", "closeCallback"})
         /\ remove => Popped("remove", {})
         /\ closeCallback => Popped("closeCallback", {})
         /\ handleRead => \E names \in {{"messageCallback"}, {"handleClose"}, {}} :
                             Popped("handleRead", names)
         /\ handleError => Popped("handleError", {})
         /\ handleWrite => Popped("handleWrite", {})
         /\ callbackReturns => \E name \in UserCallback : Popped(name, {})
<1>1. {"connectionUp", "disconnect", "remove", "connectionDown", "closeCallback",
       "messageCallback", "handleClose"} \subseteq Short \ Ends
  BY ShortsHas DEF Ends
<1>2. {"connectEstablished", "connectDestroyed", "disconnect", "handleClose", "handleRead"}
          \cap Ends = {}
  BY DEF Ends
<1>3. ASSUME endOfBatch PROVE Popped("endOfBatch", {})
  BY <1>3, PopNone DEF endOfBatch
<1>4. ASSUME connectEstablished PROVE Popped("connectEstablished", {"connectionUp"})
  BY <1>1, <1>2, <1>4, PopOne DEF connectEstablished
<1>5. ASSUME connectDestroyed
      PROVE  Popped("connectDestroyed",
                IF state_ = "kConnected" THEN {"disconnect", "remove"} ELSE {"remove"})
  <2>1. Runs("connectDestroyed")
    BY <1>5 DEF connectDestroyed
  <2>2. CASE state_ = "kConnected"
    <3>1. agenda' = (<<Run("disconnect")>> \o <<Run("remove")>>) \o Tail(agenda)
      BY <1>5, <2>2 DEF connectDestroyed, hasToDisconnect
    <3>2. <<Run("disconnect")>> \o <<Run("remove")>> = <<Run("disconnect"), Run("remove")>>
      BY Joins
    <3>3. agenda' = <<Run("disconnect"), Run("remove")>> \o Tail(agenda)
      BY <3>1, <3>2
    <3>4. Popped("connectDestroyed", {"disconnect", "remove"})
      BY <1>1, <1>2, <2>1, <3>3, PopTwo
    <3>5. QED
      BY <2>2, <3>4
  <2>3. CASE state_ # "kConnected"
    <3>1. agenda' = (<<>> \o <<Run("remove")>>) \o Tail(agenda)
      BY <1>5, <2>3 DEF connectDestroyed, hasToDisconnect
    <3>2. <<>> \o <<Run("remove")>> = <<Run("remove")>>
      BY Joins
    <3>3. agenda' = <<Run("remove")>> \o Tail(agenda)
      BY <3>1, <3>2
    <3>4. Popped("connectDestroyed", {"remove"})
      BY <1>1, <1>2, <2>1, <3>3, PopOne
    <3>5. QED
      BY <2>3, <3>4
  <2>4. QED
    BY <2>2, <2>3
<1>6. ASSUME disconnect PROVE Popped("disconnect", {"connectionDown"})
  <2>1. Runs("disconnect") /\ agenda' = <<Run("connectionDown")>> \o Tail(agenda)
    BY <1>6 DEF disconnect, Disconnects
  <2>2. QED
    BY <1>1, <1>2, <2>1, PopOne
<1>7. ASSUME handleClose PROVE Popped("handleClose", {"connectionDown", "closeCallback"})
  <2>1. /\ Runs("handleClose")
        /\ agenda' = <<Run("connectionDown"), Run("closeCallback")>> \o Tail(agenda)
    BY <1>7 DEF handleClose, Disconnects
  <2>2. QED
    BY <1>1, <1>2, <2>1, PopTwo
<1>8. ASSUME remove PROVE Popped("remove", {})
  BY <1>8, PopNone DEF remove
<1>9. ASSUME closeCallback PROVE Popped("closeCallback", {})
  <2>1. Runs("closeCallback") /\ agenda' = Tail(agenda)
    BY <1>9 DEF closeCallback
  <2>2. QED
    BY <2>1, PopNone
<1>10. ASSUME handleRead
       PROVE  \E names \in {{"messageCallback"}, {"handleClose"}, {}} : Popped("handleRead", names)
  <2>1. Runs("handleRead")
    BY <1>10 DEF handleRead, HandlerStep
  <2>2. \/ agenda' = <<Run("messageCallback")>> \o Tail(agenda)
        \/ agenda' = <<Run("handleClose")>> \o Tail(agenda)
        \/ agenda' = <<>> \o Tail(agenda)
    BY <1>10 DEF handleRead, HandlerStep
  <2>3. CASE agenda' = <<Run("messageCallback")>> \o Tail(agenda)
    BY <1>1, <1>2, <2>1, <2>3, PopOne
  <2>4. CASE agenda' = <<Run("handleClose")>> \o Tail(agenda)
    BY <1>1, <1>2, <2>1, <2>4, PopOne
  <2>5. CASE agenda' = <<>> \o Tail(agenda)
    BY <2>1, <2>5, PopNone
  <2>6. QED
    BY <2>2, <2>3, <2>4, <2>5
<1>11. ASSUME handleError PROVE Popped("handleError", {})
  BY <1>11, PopNone DEF handleError, HandlerStep
<1>12. ASSUME handleWrite PROVE Popped("handleWrite", {})
  <2>1. Runs("handleWrite") /\ agenda' = <<>> \o Tail(agenda)
    BY <1>12 DEF handleWrite, HandlerStep
  <2>2. QED
    BY <2>1, PopNone
<1>13. ASSUME callbackReturns PROVE \E name \in UserCallback : Popped(name, {})
  BY <1>13, PopNone DEF callbackReturns, InCallback
<1>14. QED
  BY <1>3, <1>4, <1>5, <1>6, <1>7, <1>8, <1>9, <1>10, <1>11, <1>12, <1>13

\* pendingFunctors_ keeps what it has and gains at most calls called names.
Gains(names) ==
    /\ Names(pendingFunctors_) \subseteq Names(pendingFunctors_')
    /\ Names(pendingFunctors_') \subseteq Names(pendingFunctors_) \cup names
    /\ \A x : OnceIn(pendingFunctors_, x) /\ (x \in names => x \notin Names(pendingFunctors_))
                 => OnceIn(pendingFunctors_', x)
    /\ pendingFunctors_ # <<>> =>
          pendingFunctors_' # <<>> /\ Head(pendingFunctors_') = Head(pendingFunctors_)

LEMMA GainsNone ==
  ASSUME pendingFunctors_' = pendingFunctors_
  PROVE  \A names : Gains(names)
BY DEF Gains, OnceIn

LEMMA GainsOne ==
  ASSUME TypeOK, NEW name \in Queued,
         pendingFunctors_' = Append(pendingFunctors_, Run(name))
  PROVE  Gains({name}) /\ name \in Names(pendingFunctors_')
<1>1. pendingFunctors_ \in Seq(Entries)
  BY DEF TypeOK
<1>2. PICK e \in Entries : e = Run(name) /\ e[1] = name
  BY EntriesOf, ShortsHas DEF Short
<1>3. PICK last \in Seq(Entries) : last = <<e>>
  <2>1. \A x \in Entries : <<x>> \in Seq(Entries)
    OBVIOUS
  <2>2. QED
    BY <2>1
<1>4. Names(last) = {name} /\ \A x : OnceIn(last, x)
  BY <1>2, <1>3, NamesShort, OnceShort
<1>5. pendingFunctors_' = pendingFunctors_ \o last
  BY <1>1, <1>2, <1>3
<1>6. Names(pendingFunctors_ \o last) = Names(pendingFunctors_) \cup Names(last)
  BY <1>1, NamesConcat
<1>7. ASSUME NEW x, OnceIn(pendingFunctors_, x), x = name => x \notin Names(pendingFunctors_)
      PROVE  OnceIn(pendingFunctors_ \o last, x)
  <2>1. x \notin Names(pendingFunctors_) \cap Names(last)
    BY <1>4, <1>7
  <2>2. QED
    BY <1>1, <1>4, <1>7, <2>1, OnceConcat
<1>8. pendingFunctors_ # <<>> =>
         pendingFunctors_' # <<>> /\ Head(pendingFunctors_') = Head(pendingFunctors_)
  BY <1>1, <1>5, <1>3
<1>9. QED
  BY <1>4, <1>5, <1>6, <1>7, <1>8 DEF Gains

\* The functors of the user's own callbacks.
Later == {"writeCompleteCallback", "highWaterMarkCallback"}

LEMMA GainsLater ==
  ASSUME TypeOK, NEW names, names \subseteq Later, Queues(names)
  PROVE  Gains(Later)
<1>1. CASE pendingFunctors_' = pendingFunctors_
  BY <1>1, GainsNone
<1>2. ASSUME NEW name \in names, pendingFunctors_' = Append(pendingFunctors_, Run(name))
      PROVE  Gains(Later)
  <2>1. name \in Queued /\ name \in Later
    BY <1>2 DEF Later, Queued, Counted
  <2>2. Gains({name})
    BY <1>2, <2>1, GainsOne
  <2>3. QED
    BY <2>1, <2>2 DEF Gains
<1>3. QED
  BY <1>1, <1>2 DEF Queues

-----------------------------------------------------------------------------
(***************************************************************************)
(* The steps that neither set up nor tear down.                            *)
(***************************************************************************)
Fleeting == UserCallback \cup {"handleError", "handleWrite", "endOfBatch"}

\* agenda' is agenda, or agenda without its next call, a fleeting one.
AgendaQuiet ==
    /\ Names(agenda') \subseteq Names(agenda)
    /\ Names(agenda) \subseteq Names(agenda') \cup Fleeting
    /\ \A x : OnceIn(agenda, x) => OnceIn(agenda', x)
    /\ LastIn(agenda) => LastIn(agenda')
    /\ agenda' = agenda \/ (agenda # <<>> /\ Head(agenda)[1] \in Fleeting)

ChannelQuiet ==
    IF channel.index = kAdded
      THEN channel'.index = kAdded /\ kReadEvent \subseteq channel'.events
      ELSE channel' = channel

Quiet ==
    /\ state_' = state_ \/ (state_ = "kConnected" /\ state_' = "kDisconnecting")
    /\ ChannelQuiet
    /\ AgendaQuiet
    /\ Gains(Later)
    /\ guard' = guard \/ Names(agenda') = {}
    /\ UNCHANGED <<server, ups, downs, destroys>>

LEMMA PoppedQuiet ==
  ASSUME NEW name \in Fleeting, Popped(name, {})
  PROVE  AgendaQuiet
BY DEF AgendaQuiet, Popped

LEMMA SameAgenda ==
  ASSUME agenda' = agenda
  PROVE  AgendaQuiet
BY DEF AgendaQuiet, OnceIn, LastIn

\* A channel that is not in epoll is not written to.
LEMMA WriteQuiet ==
  ASSUME TypeOK, AddedIsUp, RoundsApart, handleWrite
  PROVE  ChannelQuiet
<1>1. channel \in ChannelValue
  BY DEF TypeOK
<1>2. CASE channel.index = kAdded
  BY <1>2, WriteEffect DEF KeepsReading, AddedIsUp, ChannelQuiet
<1>3. CASE channel.index # kAdded
  <2>1. "handleWrite" \in Names(agenda)
    BY HeadOf DEF handleWrite, HandlerStep, Runs
  <2>2. channel.index # kNew
    BY <2>1 DEF RoundsApart, Handlers
  <2>3. channel.index = kDeleted
    BY <1>1, <1>3, <2>2 DEF ChannelValue
  <2>4. ~isWriting(channel)
    BY <2>3 DEF AddedIsUp
  <2>5. channel' = channel
    BY <2>4 DEF handleWrite
  <2>6. QED
    BY <1>3, <2>5 DEF ChannelQuiet
<1>4. QED
  BY <1>2, <1>3

LEMMA QuietSteps ==
  ASSUME TypeOK, AddedIsUp, UpIsReading, RoundsApart, LastRound,
         \/ endOfBatch \/ handleError \/ handleWrite \/ callbackReturns
         \/ callbackSends \/ callbackShutsDown
         \/ peerSends \/ peerTakes \/ peerCloses \/ peerResets
         \/ UNCHANGED vars
  PROVE  Quiet
<1>1. channel' = channel => ChannelQuiet
  BY DEF ChannelQuiet, AddedIsUp
<1>2. CASE endOfBatch
  <2>1. Popped("endOfBatch", {})
    BY <1>2, PopSteps
  <2>2. AgendaQuiet
    BY <2>1, PoppedQuiet DEF Fleeting
  <2>3. agenda' = <<>>
    BY <2>1 DEF Popped, LastRound, Ends
  <2>4. Names(agenda') = {}
    BY <2>3, NamesShort
  <2>5. Gains(Later)
    BY <1>2, GainsNone DEF endOfBatch
  <2>6. QED
    BY <1>1, <1>2, <2>2, <2>4, <2>5 DEF endOfBatch, Quiet, connection, history
<1>3. CASE handleError
  <2>1. Popped("handleError", {})
    BY <1>3, PopSteps
  <2>2. AgendaQuiet
    BY <2>1, PoppedQuiet DEF Fleeting
  <2>3. Gains(Later)
    BY <1>3, GainsNone DEF handleError
  <2>4. QED
    BY <1>1, <1>3, <2>2, <2>3
       DEF handleError, HandlerStep, Quiet, connection, history
<1>4. CASE handleWrite
  <2>1. Popped("handleWrite", {})
    BY <1>4, PopSteps
  <2>2. AgendaQuiet
    BY <2>1, PoppedQuiet DEF Fleeting
  <2>3. Gains(Later)
    BY <1>4, WriteEffect, GainsLater DEF Later
  <2>4. ChannelQuiet
    BY <1>4, WriteQuiet
  <2>5. QED
    BY <1>4, <2>2, <2>3, <2>4 DEF handleWrite, HandlerStep, Quiet, history
<1>5. CASE callbackReturns
  <2>1. PICK name \in UserCallback : Popped(name, {})
    BY <1>5, PopSteps
  <2>2. AgendaQuiet
    BY <2>1, PoppedQuiet DEF Fleeting
  <2>3. Gains(Later)
    BY <1>5, GainsNone DEF callbackReturns
  <2>4. QED
    BY <1>1, <1>5, <2>2, <2>3 DEF callbackReturns, Quiet, connection, history
<1>6. CASE callbackSends
  <2>1. AgendaQuiet
    BY <1>6, SameAgenda DEF callbackSends
  <2>2. sent' \in 0..MaxSends /\ sendInLoop(sent')
    BY <1>6, CallbackByte
  <2>3. Gains(Later)
    BY <2>2, SendEffect, GainsLater DEF Later
  <2>4. ChannelQuiet
    BY <1>6, <2>2, SendEffect
       DEF callbackSends, UpIsReading, KeepsReading, ChannelQuiet
  <2>5. QED
    BY <1>6, <2>1, <2>3, <2>4 DEF callbackSends, Quiet
<1>7. CASE callbackShutsDown
  <2>1. AgendaQuiet /\ Gains(Later)
    BY <1>7, SameAgenda, GainsNone DEF callbackShutsDown, loop
  <2>2. QED
    BY <1>1, <1>7, <2>1 DEF callbackShutsDown, mayShutDown, Quiet, loop, history
<1>8. CASE peerSends \/ peerTakes \/ peerCloses \/ peerResets
  <2>1. AgendaQuiet /\ Gains(Later)
    BY <1>8, SameAgenda, GainsNone
       DEF peerSends, peerTakes, peerCloses, peerResets, PeerStep, loop
  <2>2. QED
    BY <1>1, <1>8, <2>1
       DEF peerSends, peerTakes, peerCloses, peerResets, PeerStep, Quiet,
           connection, loop, history
<1>9. CASE UNCHANGED vars
  <2>1. AgendaQuiet /\ Gains(Later)
    BY <1>9, SameAgenda, GainsNone DEF vars, loop
  <2>2. QED
    BY <1>1, <1>9, <2>1 DEF vars, Quiet, connection, loop, history
<1>10. QED
  BY <1>2, <1>3, <1>4, <1>5, <1>6, <1>7, <1>8, <1>9

\* No other thread takes a step, and nothing of theirs is run.
LEMMA Steps ==
  ASSUME Alone, IInv, LInv, [Next]_vars
  PROVE  \/ poll \/ doPendingFunctors \/ connectEstablished \/ connectDestroyed
         \/ disconnect \/ handleClose \/ remove \/ closeCallback \/ handleRead
         \/ removeConnectionInLoop \/ destroyServer
         \/ Quiet
<1>1. /\ TypeOK /\ AddedIsUp /\ UpIsReading /\ RoundsApart /\ LastRound /\ NothingRaw
      /\ ~\E u \in User : TRUE
  BY DEF IInv, LInv, Alone
<1>2. ~queuedSend /\ ~queuedShutdown
  <2>1. \A name \in Raw : ~Runs(name)
    BY <1>1, HeadCalls DEF NothingRaw
  <2>2. QED
    BY <2>1 DEF queuedSend, queuedShutdown, HandlerStep, Raw
<1>3. QED
  BY <1>1, <1>2, QuietSteps DEF Next, LoopStep, UserStep


-----------------------------------------------------------------------------
(***************************************************************************)
(* The other steps, as what they do to the names in the queues.            *)
(***************************************************************************)
LEMMA EndsLast ==
  ASSUME NEW S, NEW p \in Seq(S), Names(p) \cap Ends = {}, NEW e \in S
  PROVE  LastIn(p \o <<e>>)
<1>1. PICK last \in Seq(S) : last = <<e>>
  <2>1. \A x \in S : <<x>> \in Seq(S)
    OBVIOUS
  <2>2. QED
    BY <2>1
<1>2. /\ Len(p) \in Nat /\ Len(p \o last) = Len(p) + Len(last)
      /\ \A i \in DOMAIN p : (p \o last)[i] = p[i]
      /\ \A i \in DOMAIN (p \o last) : i \in DOMAIN p \/ i - Len(p) \in DOMAIN last
      /\ DOMAIN (p \o last) = 1..(Len(p) + Len(last))
  BY ConcatOf
<1>3. DOMAIN last = {1} /\ Len(last) = 1
  BY <1>1
<1> SUFFICES ASSUME NEW i \in DOMAIN (p \o last), (p \o last)[i][1] \in Ends
             PROVE  i = Len(p \o last)
  BY <1>1 DEF LastIn
<1>4. i \notin DOMAIN p
  BY <1>2 DEF Names
<1>5. i - Len(p) = 1 /\ i \in Nat
  BY <1>2, <1>3, <1>4
<1>6. QED
  BY <1>2, <1>3, <1>5

PollMove ==
    /\ agenda = <<>> /\ Names(agenda) = {}
    /\ Names(agenda') \subseteq Handlers \cup {"doPendingFunctors"}
    /\ \A x : OnceIn(agenda', x) \/ x \in Handlers \cup {"doPendingFunctors"}
    /\ LastIn(agenda')
    /\ channel.index = kAdded \/ agenda' = <<Run("doPendingFunctors")>>
    /\ looping
    /\ UNCHANGED <<state_, channel, pendingFunctors_, server, ups, downs, destroys>>

LEMMA PollMoves == poll => PollMove
<1> SUFFICES ASSUME poll PROVE PollMove
  OBVIOUS
<1>1. PICK reported : /\ "PRI" \notin reported /\ agenda' = Reports(reported)
                      /\ reported # {} => channel.index = kAdded
  BY PollOf
<1>2. /\ Names(agenda') \subseteq Handlers \cup {"doPendingFunctors"}
      /\ reported = {} => agenda' = <<Run("doPendingFunctors")>>
  BY <1>1, ReportsOf
<1>3. \A x : OnceIn(agenda', x) \/ x \in Handlers \cup {"doPendingFunctors"}
  BY <1>2, NoneIsOnce
<1>4. LastIn(agenda')
  <2> DEFINE c == callbacks(reported)
             p == [i \in DOMAIN c |-> Run(c[i])]
  <2>1. c \in Seq(Handlers)
    <3>1. \A x, y, z \in Handlers : /\ <<>> \in Seq(Handlers) /\ <<x>> \in Seq(Handlers)
                                    /\ <<x, y>> \in Seq(Handlers) /\ <<x, y, z>> \in Seq(Handlers)
      OBVIOUS
    <3>2. {"handleClose", "handleError", "handleRead", "handleWrite"} \subseteq Handlers
      BY DEF Handlers
    <3>3. QED
      BY <1>1, <3>1, <3>2, CallbacksOf
  <2> HIDE DEF c
  <2>2. /\ p \in Seq(Entries)
        /\ \A i \in DOMAIN p : p[i][1] \in Handlers
    BY <2>1, EntriesOf DEF Simple, Run
  <2>3. Run("doPendingFunctors") \in Entries
    BY EntriesOf DEF Simple
  <2>4. Names(p) \cap Ends = {}
    BY <2>2 DEF Names, Ends, Handlers
  <2> HIDE DEF p
  <2>5. LastIn(p \o <<Run("doPendingFunctors")>>)
    BY <2>2, <2>3, <2>4, EndsLast
  <2>6. agenda' = p \o <<Run("doPendingFunctors")>>
    BY <1>1 DEF Reports, p, c
  <2>7. QED
    BY <2>5, <2>6
<1>5. agenda = <<>> /\ Names(agenda) = {}
  BY NamesShort DEF poll
<1>6. QED
  BY <1>1, <1>2, <1>3, <1>4, <1>5 DEF poll, PollMove, connection, history

BatchMove ==
    /\ Names(agenda) = {"doPendingFunctors"} /\ Head(agenda)[1] = "doPendingFunctors"
    /\ Names(agenda') = Names(pendingFunctors_) \cup {"endOfBatch"}
    /\ \A x : OnceIn(pendingFunctors_, x) /\ x # "endOfBatch" => OnceIn(agenda', x)
    /\ LastIn(agenda')
    /\ pendingFunctors_ # <<>> => agenda' # <<>> /\ Head(agenda') = Head(pendingFunctors_)
    /\ pendingFunctors_' = <<>> /\ Names(pendingFunctors_') = {}
    /\ \A x : OnceIn(pendingFunctors_', x)
    /\ guard' = (Names(pendingFunctors_) \cap Counted # {})
    /\ UNCHANGED <<state_, channel, server, ups, downs, destroys>>

LEMMA BatchMoves == TypeOK /\ InPlace /\ LastRound /\ doPendingFunctors => BatchMove
<1> SUFFICES ASSUME TypeOK, InPlace, LastRound, doPendingFunctors PROVE BatchMove
  OBVIOUS
<1>1. /\ pendingFunctors_ \in Seq(Entries) /\ agenda \in Seq(Entries)
      /\ Names(pendingFunctors_) \cap Ends = {}
  BY DEF TypeOK, InPlace, Ends, Counted, Raw
<1>2. PICK e \in Entries : e = Run("endOfBatch") /\ e[1] = "endOfBatch"
  BY EntriesOf DEF Simple
<1>3. PICK last \in Seq(Entries) : last = <<e>>
  <2>1. \A x \in Entries : <<x>> \in Seq(Entries)
    OBVIOUS
  <2>2. QED
    BY <2>1
<1>4. agenda' = pendingFunctors_ \o last
  BY <1>2, <1>3 DEF doPendingFunctors
<1>5. Names(last) = {"endOfBatch"} /\ \A x : OnceIn(last, x)
  BY <1>2, <1>3, NamesShort, OnceShort
<1>6. Names(pendingFunctors_ \o last) = Names(pendingFunctors_) \cup Names(last)
  BY <1>1, NamesConcat
<1>7. \A x : OnceIn(pendingFunctors_, x) /\ x # "endOfBatch" => OnceIn(pendingFunctors_ \o last, x)
  BY <1>1, <1>5, OnceConcat
<1>8. LastIn(pendingFunctors_ \o last)
  BY <1>1, <1>3, EndsLast
<1>9. pendingFunctors_ # <<>> => agenda' # <<>> /\ Head(agenda') = Head(pendingFunctors_)
  BY <1>1, <1>3, <1>4
<1>10. Names(agenda) = {"doPendingFunctors"} /\ Head(agenda)[1] = "doPendingFunctors"
  <2>1. agenda # <<>> /\ Head(agenda)[1] = "doPendingFunctors"
    BY DEF doPendingFunctors, Runs
  <2>2. /\ Len(agenda) \in Nat \ {0} /\ Head(agenda) = agenda[1] /\ DOMAIN agenda = 1..Len(agenda)
        /\ 1 \in DOMAIN agenda
    BY <1>1, <2>1
  <2>3. Len(agenda) = 1
    BY <2>1, <2>2 DEF LastRound, LastIn, Ends
  <2>4. QED
    BY <2>1, <2>2, <2>3 DEF Names
<1>11. /\ pendingFunctors_' = <<>> /\ Names(pendingFunctors_') = {}
       /\ \A x : OnceIn(pendingFunctors_', x)
  BY NamesShort, OnceShort DEF doPendingFunctors
<1>12. QED
  BY <1>4, <1>5, <1>6, <1>7, <1>8, <1>9, <1>10, <1>11
     DEF doPendingFunctors, BatchMove, connection, history

\* connectDestroyed is queued.
Destroyed == Gains({"connectDestroyed"}) /\ "connectDestroyed" \in Names(pendingFunctors_')

LEMMA DestroyedOf ==
  ASSUME TypeOK, pendingFunctors_' = afterRemoval
  PROVE  Destroyed
<1>1. "connectDestroyed" \in Queued
  BY DEF Queued, Counted
<1>2. QED
  BY <1>1, GainsOne DEF Destroyed, afterRemoval

ServerMove ==
    /\ serverUp /\ ~serverUp' /\ ~inServer'
    /\ IF singleLoop
         THEN /\ agenda = <<>> /\ Names(agenda) = {}
              /\ Names(agenda') = IF inServer THEN {"connectDestroyed", "endOfBatch"} ELSE {}
              /\ \A x : OnceIn(agenda', x)
              /\ LastIn(agenda')
              /\ guard' = inServer
              /\ UNCHANGED pendingFunctors_
         ELSE /\ IF inServer THEN Destroyed ELSE UNCHANGED pendingFunctors_
              /\ UNCHANGED <<agenda, guard>>
    /\ UNCHANGED <<state_, channel, singleLoop, removals, ups, downs, destroys>>

LEMMA ServerMoves == TypeOK /\ destroyServer => ServerMove
<1> SUFFICES ASSUME TypeOK, destroyServer PROVE ServerMove
  OBVIOUS
<1>1. CASE singleLoop
  <2>1. agenda = <<>> /\ Names(agenda) = {}
    BY <1>1, NamesShort DEF destroyServer
  <2>2. Names(agenda') = IF inServer THEN {"connectDestroyed", "endOfBatch"} ELSE {}
    BY <1>1, NamesShort DEF destroyServer, Run
  <2>3. \A x : OnceIn(agenda', x)
    BY <1>1, OnceShort DEF destroyServer, Run
  <2>4. LastIn(agenda')
    <3>1. CASE inServer
      <4>1. agenda' = <<Run("connectDestroyed"), Run("endOfBatch")>>
        BY <1>1, <3>1 DEF destroyServer
      <4>2. Run("connectDestroyed")[1] \notin Ends
        BY DEF Run, Ends
      <4>3. QED
        BY <4>1, <4>2 DEF LastIn
    <3>2. CASE ~inServer
      BY <1>1, <3>2 DEF destroyServer, LastIn
    <3>3. QED
      BY <3>1, <3>2
  <2>5. QED
    BY <1>1, <2>1, <2>2, <2>3, <2>4
       DEF destroyServer, ServerMove, connection, history
<1>2. CASE ~singleLoop
  <2>1. inServer => pendingFunctors_' = afterRemoval
    BY <1>2 DEF destroyServer, afterRemoval
  <2>2. IF inServer THEN Destroyed ELSE UNCHANGED pendingFunctors_
    BY <1>2, <2>1, DestroyedOf DEF destroyServer
  <2>3. QED
    BY <1>2, <2>2 DEF destroyServer, ServerMove, connection, history
<1>3. QED
  BY <1>1, <1>2

EstablishMove ==
    /\ Popped("connectEstablished", {"connectionUp"})
    /\ Calls \cap Handlers = {} /\ channel.index = kNew
    /\ state_ = "kConnecting" /\ state_' = "kConnected"
    /\ channel'.index = kAdded /\ kReadEvent \subseteq channel'.events
    /\ ups' = ups + 1
    /\ UNCHANGED <<pendingFunctors_, guard, server, downs, destroys>>

TearMove ==
    /\ Popped("connectDestroyed",
              IF state_ = "kConnected" THEN {"disconnect", "remove"} ELSE {"remove"})
    /\ destroys' = destroys + 1
    /\ UNCHANGED <<state_, channel, pendingFunctors_, guard, server, ups, downs>>

DownMove(name, names) ==
    /\ Popped(name, names)
    /\ channel.index = kAdded /\ channel'.index = kDeleted /\ ~isWriting(channel')
    /\ state_' = "kDisconnected"
    /\ downs' = downs + 1
    /\ UNCHANGED <<pendingFunctors_, guard, server, ups, destroys>>

RemoveMove ==
    /\ Popped("remove", {})
    /\ state_ # "kConnected" /\ channel'.index = kNew
    /\ UNCHANGED <<state_, pendingFunctors_, guard, server, ups, downs, destroys>>

ClosedMove ==
    /\ Popped("closeCallback", {})
    /\ IF singleLoop
         THEN ~inServer' /\ Destroyed /\ UNCHANGED removals
         ELSE removals' = removals + 1 /\ UNCHANGED <<inServer, pendingFunctors_>>
    /\ UNCHANGED <<state_, channel, guard, singleLoop, serverUp, ups, downs, destroys>>

ReadMove ==
    /\ \E names \in {{"messageCallback"}, {"handleClose"}, {}} : Popped("handleRead", names)
    /\ channel.index = kAdded /\ Rest \cap Closers = {}
    /\ UNCHANGED <<state_, channel, pendingFunctors_, guard, server, ups, downs, destroys>>

EraseMove ==
    /\ serverUp /\ removals > 0 /\ removals' = removals - 1 /\ ~inServer'
    /\ Destroyed
    /\ UNCHANGED <<state_, channel, agenda, guard, singleLoop, serverUp, ups, downs, destroys>>

Move ==
    \/ PollMove \/ BatchMove \/ EstablishMove \/ TearMove
    \/ DownMove("disconnect", {"connectionDown"})
    \/ DownMove("handleClose", {"connectionDown", "closeCallback"})
    \/ RemoveMove \/ ClosedMove \/ ReadMove \/ EraseMove \/ ServerMove \/ Quiet

LEMMA Moves ==
  ASSUME Alone, IInv, LInv, [Next]_vars
  PROVE  Move
<1>1. TypeOK /\ Fresh /\ InPlace /\ LastRound /\ channel \in ChannelValue
  BY DEF IInv, LInv, TypeOK
<1>2. CASE connectEstablished
  <2>1. Popped("connectEstablished", {"connectionUp"})
    BY <1>1, <1>2, PopSteps
  <2>2. state_ = "kConnecting" /\ state_' = "kConnected"
    BY <1>1, <1>2, Established
  <2>3. Calls \cap Handlers = {} /\ channel.index = kNew
    BY <1>1, <2>2, ChannelIsNew DEF Fresh, Blank
  <2>4. channel'.index = kAdded /\ kReadEvent \subseteq channel'.events
    BY <1>1, <1>2, ChannelOps DEF connectEstablished
  <2>5. QED
    BY <1>2, <2>1, <2>2, <2>3, <2>4 DEF connectEstablished, EstablishMove, Move
<1>3. CASE connectDestroyed
  <2>1. Popped("connectDestroyed",
               IF state_ = "kConnected" THEN {"disconnect", "remove"} ELSE {"remove"})
    BY <1>1, <1>3, PopSteps
  <2>2. QED
    BY <1>3, <2>1 DEF connectDestroyed, TearMove, Move, connection
<1>4. ASSUME NEW name \in {"disconnect", "handleClose"}, NEW names, NEW next,
             Disconnects(name, next), Popped(name, names)
      PROVE  DownMove(name, names)
  <2>1. channel.index = kAdded
    BY <1>1, <1>4, HeadCalls DEF Disconnects
  <2>2. channel'.index = kDeleted /\ ~isWriting(channel')
    BY <1>1, <1>4, <2>1, ChannelOps DEF Disconnects
  <2>3. QED
    BY <1>4, <2>1, <2>2 DEF Disconnects, DownMove
<1>5. CASE disconnect
  <2>1. Popped("disconnect", {"connectionDown"})
    BY <1>1, <1>5, PopSteps
  <2>2. QED
    BY <1>4, <1>5, <2>1 DEF disconnect, Move
<1>6. CASE handleClose
  <2>1. Popped("handleClose", {"connectionDown", "closeCallback"})
    BY <1>1, <1>6, PopSteps
  <2>2. QED
    BY <1>4, <1>6, <2>1 DEF handleClose, Move
<1>7. CASE remove
  <2>1. Popped("remove", {})
    BY <1>1, <1>7, PopSteps
  <2>2. state_ # "kConnected"
    BY <1>1, <1>7, HeadCalls DEF remove
  <2>3. channel'.index = kNew
    BY <1>1, <1>7 DEF remove, removed, ChannelValue
  <2>4. QED
    BY <1>7, <2>1, <2>2, <2>3 DEF remove, RemoveMove, Move, history
<1>8. CASE closeCallback
  <2>1. Popped("closeCallback", {})
    BY <1>1, <1>8, PopSteps
  <2>2. singleLoop => Destroyed
    BY <1>1, <1>8, DestroyedOf DEF closeCallback
  <2>3. QED
    BY <1>8, <2>1, <2>2 DEF closeCallback, ClosedMove, Move, connection, history
<1>9. CASE handleRead
  <2>1. \E names \in {{"messageCallback"}, {"handleClose"}, {}} : Popped("handleRead", names)
    BY <1>1, <1>9, PopSteps
  <2>2. Runs("handleRead")
    BY <1>9 DEF handleRead, HandlerStep
  <2>3. channel.index = kAdded
    BY <1>1, <2>2, HeadCalls
  <2>4. Rest \cap Closers = {}
    BY <1>1, <2>2, Calm DEF Runs, Rest
  <2>5. QED
    BY <1>9, <2>1, <2>3, <2>4
       DEF handleRead, HandlerStep, ReadMove, Move, connection, history
<1>10. CASE removeConnectionInLoop
  <2>1. Destroyed
    BY <1>1, <1>10, DestroyedOf DEF removeConnectionInLoop
  <2>2. QED
    BY <1>10, <2>1
       DEF removeConnectionInLoop, EraseMove, Move, connection, history
<1>11. QED
  BY <1>1, <1>2, <1>3, <1>5, <1>6, <1>7, <1>8, <1>9, <1>10, Steps, PollMoves,
     BatchMoves,
     ServerMoves DEF Move

-----------------------------------------------------------------------------
(***************************************************************************)
(* Every step keeps every part.                                            *)
(***************************************************************************)
LEMMA RawNext ==
  ASSUME Alone, IInv, LInv, [Next]_vars
  PROVE  NothingRaw'
<1>1. Move
  BY Moves
<1>2. NothingRaw /\ InPlace
  BY DEF LInv, IInv
<1>3. CASE PollMove
  BY <1>2, <1>3 DEF PollMove, NothingRaw, Calls, Raw, Handlers
<1>4. CASE BatchMove
  BY <1>2, <1>4 DEF BatchMove, NothingRaw, Calls, Raw
<1>5. CASE EstablishMove
  BY <1>2, <1>5 DEF EstablishMove, Popped, NothingRaw, Calls, Raw
<1>6. CASE TearMove
  BY <1>2, <1>6 DEF TearMove, Popped, NothingRaw, Calls, Raw
<1>7. CASE DownMove("disconnect", {"connectionDown"})
  BY <1>2, <1>7 DEF DownMove, Popped, NothingRaw, Calls, Raw
<1>8. CASE DownMove("handleClose", {"connectionDown", "closeCallback"})
  BY <1>2, <1>8 DEF DownMove, Popped, NothingRaw, Calls, Raw
<1>9. CASE RemoveMove
  BY <1>2, <1>9 DEF RemoveMove, Popped, NothingRaw, Calls
<1>10. CASE ClosedMove
  BY <1>2, <1>10
     DEF ClosedMove, Popped, Destroyed, Gains, NothingRaw, Calls, Raw
<1>11. CASE ReadMove
  BY <1>2, <1>11 DEF ReadMove, Popped, NothingRaw, Calls, Raw
<1>12. CASE EraseMove
  BY <1>2, <1>12 DEF EraseMove, Destroyed, Gains, NothingRaw, Calls, Raw
<1>13. CASE ServerMove
  BY <1>2, <1>13 DEF ServerMove, Destroyed, Gains, NothingRaw, Calls, Raw
<1>14. CASE Quiet
  BY <1>2, <1>14 DEF Quiet, AgendaQuiet, Gains, NothingRaw, Calls, Raw, Later
<1>15. QED
  BY <1>1, <1>3, <1>4, <1>5, <1>6, <1>7, <1>8, <1>9, <1>10, <1>11, <1>12,
     <1>13, <1>14 DEF Move

LEMMA ToldNext ==
  ASSUME Alone, IInv, LInv, [Next]_vars
  PROVE  ToldByState'
<1>1. Move
  BY Moves
<1>2. ToldByState /\ AddedIsUp /\ TypeOK
  BY DEF LInv, IInv
<1>3. CASE PollMove
  BY <1>2, <1>3 DEF PollMove, ToldByState
<1>4. CASE BatchMove
  BY <1>2, <1>4 DEF BatchMove, ToldByState
<1>5. CASE EstablishMove
  BY <1>2, <1>5 DEF EstablishMove, ToldByState
<1>6. CASE TearMove
  BY <1>2, <1>6 DEF TearMove, ToldByState
<1>7. CASE DownMove("disconnect", {"connectionDown"})
  BY <1>2, <1>7 DEF DownMove, ToldByState, AddedIsUp
<1>8. CASE DownMove("handleClose", {"connectionDown", "closeCallback"})
  BY <1>2, <1>8 DEF DownMove, ToldByState, AddedIsUp
<1>9. CASE RemoveMove
  BY <1>2, <1>9 DEF RemoveMove, ToldByState
<1>10. CASE ClosedMove
  BY <1>2, <1>10 DEF ClosedMove, ToldByState
<1>11. CASE ReadMove
  BY <1>2, <1>11 DEF ReadMove, ToldByState
<1>12. CASE EraseMove
  BY <1>2, <1>12 DEF EraseMove, ToldByState
<1>13. CASE ServerMove
  BY <1>2, <1>13 DEF ServerMove, ToldByState
<1>14. CASE Quiet
  BY <1>2, <1>14 DEF Quiet, ToldByState
<1>15. QED
  BY <1>1, <1>3, <1>4, <1>5, <1>6, <1>7, <1>8, <1>9, <1>10, <1>11, <1>12,
     <1>13, <1>14 DEF Move

LEMMA AddedNext ==
  ASSUME Alone, IInv, LInv, [Next]_vars
  PROVE  AddedIsUp'
<1>1. Move
  BY Moves
<1>2. AddedIsUp
  BY DEF LInv
<1>3. CASE PollMove
  BY <1>2, <1>3 DEF PollMove, AddedIsUp
<1>4. CASE BatchMove
  BY <1>2, <1>4 DEF BatchMove, AddedIsUp
<1>5. CASE EstablishMove
  BY <1>2, <1>5 DEF EstablishMove, AddedIsUp, kAdded, kDeleted
<1>6. CASE TearMove
  BY <1>2, <1>6 DEF TearMove, AddedIsUp
<1>7. CASE DownMove("disconnect", {"connectionDown"})
  BY <1>2, <1>7 DEF DownMove, AddedIsUp, kAdded, kDeleted
<1>8. CASE DownMove("handleClose", {"connectionDown", "closeCallback"})
  BY <1>2, <1>8 DEF DownMove, AddedIsUp, kAdded, kDeleted
<1>9. CASE RemoveMove
  BY <1>2, <1>9 DEF RemoveMove, AddedIsUp, kNew, kAdded, kDeleted
<1>10. CASE ClosedMove
  BY <1>2, <1>10 DEF ClosedMove, AddedIsUp
<1>11. CASE ReadMove
  BY <1>2, <1>11 DEF ReadMove, AddedIsUp
<1>12. CASE EraseMove
  BY <1>2, <1>12 DEF EraseMove, AddedIsUp
<1>13. CASE ServerMove
  BY <1>2, <1>13 DEF ServerMove, AddedIsUp
<1>14. CASE Quiet
  BY <1>2, <1>14 DEF Quiet, ChannelQuiet, AddedIsUp, kAdded, kDeleted
<1>15. QED
  BY <1>1, <1>3, <1>4, <1>5, <1>6, <1>7, <1>8, <1>9, <1>10, <1>11, <1>12,
     <1>13, <1>14 DEF Move

LEMMA ApartNext ==
  ASSUME Alone, IInv, LInv, [Next]_vars
  PROVE  RoundsApart'
<1>1. Move
  BY Moves
<1>2. RoundsApart /\ InPlace
  BY DEF LInv, IInv
<1>3. CASE PollMove
  BY <1>2, <1>3, NamesShort
     DEF PollMove, RoundsApart, Handlers, Teardown, kNew, kAdded, Run
<1>4. CASE BatchMove
  BY <1>2, <1>4 DEF BatchMove, RoundsApart, Handlers, InPlace, Counted, Raw
<1>5. CASE EstablishMove
  BY <1>2, <1>5 DEF EstablishMove, Popped, RoundsApart, Handlers
<1>6. CASE TearMove
  BY <1>2, <1>6 DEF TearMove, Popped, RoundsApart, Handlers, Teardown
<1>7. CASE DownMove("disconnect", {"connectionDown"})
  BY <1>2, <1>7 DEF DownMove, Popped, RoundsApart, Handlers, Teardown
<1>8. CASE DownMove("handleClose", {"connectionDown", "closeCallback"})
  BY <1>2, <1>8
     DEF DownMove, Popped, RoundsApart, Handlers, Teardown, kNew, kDeleted
<1>9. CASE RemoveMove
  BY <1>2, <1>9 DEF RemoveMove, Popped, RoundsApart, Teardown
<1>10. CASE ClosedMove
  BY <1>2, <1>10 DEF ClosedMove, Popped, RoundsApart
<1>11. CASE ReadMove
  BY <1>2, <1>11 DEF ReadMove, Popped, RoundsApart, Handlers, Teardown
<1>12. CASE EraseMove
  BY <1>2, <1>12 DEF EraseMove, RoundsApart
<1>13. CASE ServerMove
  BY <1>2, <1>13 DEF ServerMove, RoundsApart, Handlers
<1>14. CASE Quiet
  BY <1>2, <1>14 DEF Quiet, AgendaQuiet, ChannelQuiet, RoundsApart
<1>15. QED
  BY <1>1, <1>3, <1>4, <1>5, <1>6, <1>7, <1>8, <1>9, <1>10, <1>11, <1>12,
     <1>13, <1>14 DEF Move

LEMMA MessageNext ==
  ASSUME Alone, IInv, LInv, [Next]_vars
  PROVE  MessageUp'
<1>1. Move
  BY Moves
<1>2. MessageUp /\ RoundsApart /\ InPlace
  BY DEF LInv, IInv
<1>3. CASE PollMove
  BY <1>2, <1>3 DEF PollMove, MessageUp, Handlers
<1>4. CASE BatchMove
  BY <1>2, <1>4 DEF BatchMove, MessageUp, InPlace, Counted, Raw
<1>5. CASE EstablishMove
  BY <1>2, <1>5 DEF EstablishMove, Popped, MessageUp, kNew, kAdded
<1>6. CASE TearMove
  BY <1>2, <1>6 DEF TearMove, Popped, MessageUp, Teardown
<1>7. CASE DownMove("disconnect", {"connectionDown"})
  BY <1>2, <1>7 DEF DownMove, Popped, MessageUp, Teardown
<1>8. CASE DownMove("handleClose", {"connectionDown", "closeCallback"})
  BY <1>2, <1>8 DEF DownMove, Popped, MessageUp
<1>9. CASE RemoveMove
  BY <1>2, <1>9 DEF RemoveMove, Popped, MessageUp, Teardown
<1>10. CASE ClosedMove
  BY <1>2, <1>10 DEF ClosedMove, Popped, MessageUp
<1>11. CASE ReadMove
  BY <1>2, <1>11
     DEF ReadMove, Popped, MessageUp, RoundsApart, Closers, Handlers, Teardown
<1>12. CASE EraseMove
  BY <1>2, <1>12 DEF EraseMove, MessageUp
<1>13. CASE ServerMove
  BY <1>2, <1>13 DEF ServerMove, MessageUp
<1>14. CASE Quiet
  BY <1>2, <1>14 DEF Quiet, AgendaQuiet, ChannelQuiet, MessageUp
<1>15. QED
  BY <1>1, <1>3, <1>4, <1>5, <1>6, <1>7, <1>8, <1>9, <1>10, <1>11, <1>12,
     <1>13, <1>14 DEF Move

LEMMA EstablishingNext ==
  ASSUME Alone, IInv, LInv, [Next]_vars
  PROVE  Establishing'
<1>1. Move
  BY Moves
<1>2. Establishing /\ AddedIsUp
  BY DEF LInv
<1>3. CASE PollMove
  BY <1>2, <1>3 DEF PollMove, server, Establishing, AddedIsUp
<1>4. CASE BatchMove
  BY <1>2, <1>4 DEF BatchMove, Establishing
<1>5. CASE EstablishMove
  BY <1>2, <1>5 DEF EstablishMove, Establishing
<1>6. CASE TearMove
  BY <1>2, <1>6 DEF TearMove, Popped, Establishing, Run
<1>7. CASE DownMove("disconnect", {"connectionDown"})
  BY <1>2, <1>7 DEF DownMove, Establishing
<1>8. CASE DownMove("handleClose", {"connectionDown", "closeCallback"})
  BY <1>2, <1>8 DEF DownMove, Establishing
<1>9. CASE RemoveMove
  BY <1>2, <1>9 DEF RemoveMove, Popped, Establishing, Run
<1>10. CASE ClosedMove
  BY <1>2, <1>10 DEF ClosedMove, Popped, Establishing, Run
<1>11. CASE ReadMove
  BY <1>2, <1>11 DEF ReadMove, Establishing, AddedIsUp
<1>12. CASE EraseMove
  BY <1>2, <1>12 DEF EraseMove, Destroyed, Gains, Establishing
<1>13. CASE ServerMove
  BY <1>2, <1>13 DEF ServerMove, Destroyed, Gains, Establishing
<1>14. CASE Quiet
  BY <1>2, <1>14
     DEF Quiet, AgendaQuiet, Gains, server, Establishing, Fleeting,
         UserCallback, Run
<1>15. QED
  BY <1>1, <1>3, <1>4, <1>5, <1>6, <1>7, <1>8, <1>9, <1>10, <1>11, <1>12,
     <1>13, <1>14 DEF Move

LEMMA OneCloseNext ==
  ASSUME Alone, IInv, LInv, [Next]_vars
  PROVE  OneClose'
<1>1. Move
  BY Moves
<1>2. OneClose /\ ToldByState /\ AddedIsUp /\ InPlace /\ LastRound /\ removals \in Nat
  BY DEF LInv, IInv, TypeOK
<1>3. CASE PollMove
  BY <1>2, <1>3 DEF PollMove, server, OneClose, Handlers
<1>4. CASE BatchMove
  BY <1>2, <1>4, NoneIsOnce
     DEF BatchMove, server, OneClose, Counted, Raw, InPlace
<1>5. CASE EstablishMove
  BY <1>2, <1>5 DEF EstablishMove, Popped, server, OneClose
<1>6. CASE TearMove
  BY <1>2, <1>6 DEF TearMove, Popped, server, OneClose
<1>7. CASE DownMove("disconnect", {"connectionDown"})
  BY <1>2, <1>7 DEF DownMove, Popped, server, OneClose, ToldByState, AddedIsUp
<1>8. CASE DownMove("handleClose", {"connectionDown", "closeCallback"})
  BY <1>2, <1>8 DEF DownMove, Popped, server, OneClose, ToldByState, AddedIsUp
<1>9. CASE RemoveMove
  BY <1>2, <1>9 DEF RemoveMove, Popped, server, OneClose
<1>10. CASE ClosedMove
  BY <1>2, <1>10 DEF ClosedMove, Popped, OneClose
<1>11. CASE ReadMove
  BY <1>2, <1>11 DEF ReadMove, Popped, server, OneClose
<1>12. CASE EraseMove
  BY <1>2, <1>12 DEF EraseMove, OneClose
<1>13. CASE ServerMove
  BY <1>2, <1>13 DEF ServerMove, OneClose
<1>14. CASE Quiet
  BY <1>2, <1>14 DEF Quiet, AgendaQuiet, server, OneClose
<1>15. QED
  BY <1>1, <1>3, <1>4, <1>5, <1>6, <1>7, <1>8, <1>9, <1>10, <1>11, <1>12,
     <1>13, <1>14 DEF Move

LEMMA OneDestroyNext ==
  ASSUME Alone, IInv, LInv, [Next]_vars
  PROVE  OneDestroy'
<1>1. Move
  BY Moves
<1>2. OneDestroy /\ OneClose /\ Establishing /\ RoundsApart /\ LastRound /\ destroys \in Nat
  BY DEF LInv, IInv, TypeOK
<1>3. CASE PollMove
  BY <1>2, <1>3 DEF PollMove, server, OneDestroy, Calls, Handlers
<1>4. CASE BatchMove
  BY <1>2, <1>4 DEF BatchMove, server, OneDestroy, Calls
<1>5. CASE EstablishMove
  BY <1>2, <1>5
     DEF EstablishMove, Popped, server, OneDestroy, Establishing, Calls
<1>6. CASE TearMove
  BY <1>2, <1>6 DEF TearMove, Popped, server, OneDestroy, Calls
<1>7. CASE DownMove("disconnect", {"connectionDown"})
  BY <1>2, <1>7 DEF DownMove, Popped, server, OneDestroy, Calls
<1>8. CASE DownMove("handleClose", {"connectionDown", "closeCallback"})
  BY <1>2, <1>8 DEF DownMove, Popped, server, OneDestroy, Calls
<1>9. CASE RemoveMove
  BY <1>2, <1>9 DEF RemoveMove, Popped, server, OneDestroy, Calls
<1>10. CASE ClosedMove
  BY <1>2, <1>10
     DEF ClosedMove, Popped, Destroyed, Gains, OneDestroy, OneClose, LastRound,
         Calls, Teardown
<1>11. CASE ReadMove
  BY <1>2, <1>11 DEF ReadMove, Popped, server, OneDestroy, Calls
<1>12. CASE EraseMove
  BY <1>2, <1>12 DEF EraseMove, Destroyed, Gains, OneDestroy, OneClose, Calls
<1>13. CASE ServerMove
  BY <1>2, <1>13 DEF ServerMove, Destroyed, Gains, OneDestroy, Calls
<1>14. CASE Quiet
  BY <1>2, <1>14
     DEF Quiet, AgendaQuiet, Gains, server, OneDestroy, Calls, Later, Fleeting,
         UserCallback
<1>15. QED
  BY <1>1, <1>3, <1>4, <1>5, <1>6, <1>7, <1>8, <1>9, <1>10, <1>11, <1>12,
     <1>13, <1>14 DEF Move

LEMMA LastNext ==
  ASSUME Alone, IInv, LInv, [Next]_vars
  PROVE  LastRound'
<1>1. Move
  BY Moves
<1>2. LastRound
  BY DEF LInv
<1>3. CASE PollMove
  BY <1>2, <1>3 DEF PollMove, looping, server, LastRound
<1>4. CASE BatchMove
  BY <1>2, <1>4 DEF BatchMove, server, LastRound, Teardown
<1>5. CASE EstablishMove
  BY <1>2, <1>5 DEF EstablishMove, Popped, server, LastRound, Teardown
<1>6. CASE TearMove
  BY <1>2, <1>6 DEF TearMove, Popped, server, LastRound, Teardown
<1>7. CASE DownMove("disconnect", {"connectionDown"})
  BY <1>2, <1>7 DEF DownMove, Popped, server, LastRound
<1>8. CASE DownMove("handleClose", {"connectionDown", "closeCallback"})
  BY <1>2, <1>8 DEF DownMove, Popped, server, LastRound, Teardown
<1>9. CASE RemoveMove
  BY <1>2, <1>9 DEF RemoveMove, Popped, server, LastRound
<1>10. CASE ClosedMove
  BY <1>2, <1>10 DEF ClosedMove, Popped, LastRound
<1>11. CASE ReadMove
  BY <1>2, <1>11 DEF ReadMove, Popped, server, LastRound, Teardown
<1>12. CASE EraseMove
  BY <1>2, <1>12 DEF EraseMove, LastRound
<1>13. CASE ServerMove
  BY <1>2, <1>13 DEF ServerMove, LastRound, Teardown
<1>14. CASE Quiet
  BY <1>2, <1>14 DEF Quiet, AgendaQuiet, server, LastRound
<1>15. QED
  BY <1>1, <1>3, <1>4, <1>5, <1>6, <1>7, <1>8, <1>9, <1>10, <1>11, <1>12,
     <1>13, <1>14 DEF Move

LEMMA OwnedNext ==
  ASSUME Alone, IInv, LInv, [Next]_vars
  PROVE  Owned'
<1>1. Move
  BY Moves
<1>2. Owned /\ RoundsApart /\ OneClose /\ InPlace /\ Establishing /\ removals \in Nat
  BY DEF LInv, IInv, TypeOK
<1>3. CASE PollMove
  BY <1>2, <1>3 DEF PollMove, server, Owned, Calls, Handlers, Teardown
<1>4. CASE BatchMove
  BY <1>2, <1>4 DEF BatchMove, server, Owned, Calls, Teardown, InPlace, Raw
<1>5. CASE EstablishMove
  BY <1>2, <1>5 DEF EstablishMove, Popped, server, Owned, Calls, Teardown
<1>6. CASE TearMove
  BY <1>2, <1>6 DEF TearMove, Popped, Owned, Teardown
<1>7. CASE DownMove("disconnect", {"connectionDown"})
  BY <1>2, <1>7
     DEF DownMove, Popped, server, Owned, Calls, Teardown, kNew, kAdded
<1>8. CASE DownMove("handleClose", {"connectionDown", "closeCallback"})
  BY <1>2, <1>8
     DEF DownMove, Popped, server, Owned, Calls, Teardown, kNew, kAdded
<1>9. CASE RemoveMove
  BY <1>2, <1>9 DEF RemoveMove, Popped, Owned, Establishing, Run
<1>10. CASE ClosedMove
  BY <1>2, <1>10 DEF ClosedMove, Popped, Destroyed, Owned, Calls
<1>11. CASE ReadMove
  BY <1>2, <1>11 DEF ReadMove, Popped, server, Owned, Calls, Teardown
<1>12. CASE EraseMove
  BY <1>2, <1>12 DEF EraseMove, Destroyed, Owned, Calls
<1>13. CASE ServerMove
  BY <1>2, <1>13 DEF ServerMove, Destroyed, Owned, Calls
<1>14. CASE Quiet
  BY <1>2, <1>14
     DEF Quiet, AgendaQuiet, ChannelQuiet, Gains, server, Owned, Calls,
         Fleeting, UserCallback
<1>15. QED
  BY <1>1, <1>3, <1>4, <1>5, <1>6, <1>7, <1>8, <1>9, <1>10, <1>11, <1>12,
     <1>13, <1>14 DEF Move

-----------------------------------------------------------------------------
(***************************************************************************)
(* The bytes, and the write side.                                          *)
(***************************************************************************)
Bytes == Seq(0..MaxSends)

LEMMA Associates == \A p, q, r \in Bytes : (p \o q) \o r = p \o (q \o r)
BY ConcatAssociative DEF Bytes

LEMMA AppendBehind ==
  ASSUME NEW p \in Bytes, NEW q \in Bytes, NEW x \in 0..MaxSends
  PROVE  p \o Append(q, x) = Append(p \o q, x)
<1>1. PICK last \in Bytes : last = <<x>>
  <2>1. \A e \in 0..MaxSends : <<e>> \in Bytes
    BY DEF Bytes
  <2>2. QED
    BY <2>1
<1>2. PICK pq \in Bytes : pq = p \o q
  BY ConcatOf DEF Bytes
<1>3. Append(q, x) = q \o last /\ Append(pq, x) = pq \o last
  <2>1. \A s \in Seq(0..MaxSends) : Append(s, x) = s \o <<x>>
    OBVIOUS
  <2>2. QED
    BY <1>1, <2>1 DEF Bytes
<1>4. (p \o q) \o last = p \o (q \o last)
  BY Associates
<1>5. QED
  BY <1>2, <1>3, <1>4

LEMMA Parts ==
  ASSUME NEW S, NEW q \in Seq(S), NEW n \in 0..Len(q)
  PROVE  /\ SubSeq(q, 1, n) \in Seq(S) /\ SubSeq(q, n + 1, Len(q)) \in Seq(S)
         /\ SubSeq(q, 1, n) \o SubSeq(q, n + 1, Len(q)) = q
<1>1. /\ SubSeq(q, 1, n) \in Seq(S) /\ Len(SubSeq(q, 1, n)) = n
      /\ \A i \in 1..n : SubSeq(q, 1, n)[i] = q[i]
      /\ SubSeq(q, n + 1, Len(q)) \in Seq(S) /\ Len(SubSeq(q, n + 1, Len(q))) = Len(q) - n
      /\ \A i \in 1..(Len(q) - n) : SubSeq(q, n + 1, Len(q))[i] = q[n + i]
      /\ Len(q) \in Nat
  BY SplitOf
<1>2. PICK head \in Seq(S) : head = SubSeq(q, 1, n)
  BY <1>1
<1>3. PICK tail \in Seq(S) : tail = SubSeq(q, n + 1, Len(q))
  BY <1>1
<1>4. /\ Len(head) = n /\ \A i \in 1..n : head[i] = q[i]
      /\ Len(tail) = Len(q) - n /\ \A i \in 1..(Len(q) - n) : tail[i] = q[n + i]
  BY <1>1, <1>2, <1>3
<1>5. head \o tail = q
  <2>1. /\ head \o tail \in Seq(S) /\ Len(head \o tail) = Len(head) + Len(tail)
        /\ \A i \in 1..Len(head) + Len(tail) :
              (head \o tail)[i] = IF i <= Len(head) THEN head[i] ELSE tail[i - Len(head)]
    BY ConcatProperties
  <2>2. Len(q) \in Nat /\ n \in Nat /\ n <= Len(q) /\ n + (Len(q) - n) = Len(q)
    BY <1>1
  <2>3. ASSUME NEW i \in 1..Len(q) PROVE (head \o tail)[i] = q[i]
    <3>1. (head \o tail)[i] = IF i <= n THEN head[i] ELSE tail[i - n]
      BY <1>4, <2>1, <2>2
    <3>2. CASE i <= n
      <4>1. i \in 1..n
        BY <2>2, <3>2
      <4>2. QED
        BY <1>4, <3>1, <3>2, <4>1
    <3>3. CASE ~(i <= n)
      <4>1. i - n \in 1..(Len(q) - n) /\ n + (i - n) = i
        BY <2>2, <3>3
      <4>2. tail[i - n] = q[n + (i - n)]
        BY <1>4, <4>1
      <4>3. QED
        BY <3>1, <3>3, <4>1, <4>2
    <3>4. QED
      BY <3>2, <3>3
  <2>4. Len(head \o tail) = Len(q)
    BY <1>4, <2>1, <2>2
  <2>5. QED
    BY <2>1, <2>3, <2>4, SeqEqual
<1>6. QED
  BY <1>1, <1>2, <1>3, <1>5

LEMMA Rejoined ==
  ASSUME TypeOK, NEW n \in 0..Len(outputBuffer_)
  PROVE  (socket.wire \o SubSeq(outputBuffer_, 1, n))
             \o SubSeq(outputBuffer_, n + 1, Len(outputBuffer_))
         = socket.wire \o outputBuffer_
<1>1. socket.wire \in Seq(0..MaxSends) /\ outputBuffer_ \in Seq(0..MaxSends)
  BY DEF TypeOK
<1>2. /\ SubSeq(outputBuffer_, 1, n) \in Seq(0..MaxSends)
      /\ SubSeq(outputBuffer_, n + 1, Len(outputBuffer_)) \in Seq(0..MaxSends)
      /\ SubSeq(outputBuffer_, 1, n) \o SubSeq(outputBuffer_, n + 1, Len(outputBuffer_))
            = outputBuffer_
  BY <1>1, Parts
<1>3. (socket.wire \o SubSeq(outputBuffer_, 1, n))
          \o SubSeq(outputBuffer_, n + 1, Len(outputBuffer_))
      = socket.wire
          \o (SubSeq(outputBuffer_, 1, n) \o SubSeq(outputBuffer_, n + 1, Len(outputBuffer_)))
  BY <1>1, <1>2, Associates, Zenon DEF Bytes
<1>4. QED
  BY <1>2, <1>3, Zenon

StillStep ==
    /\ outputBuffer_' = outputBuffer_ /\ socket'.wire = socket.wire
    /\ socket'.wrShut = socket.wrShut
    /\ sent' = sent

\* Only send() in a callback, handleWrite and shutdown() in a callback touch the
\* stream.
LEMMA StillSteps ==
  ASSUME Alone, IInv, LInv, [Next]_vars
  PROVE  StillStep \/ handleWrite \/ callbackSends \/ callbackShutsDown
<1>1. TypeOK /\ NothingRaw /\ socket \in SocketValue /\ ~\E u \in User : TRUE
  BY DEF IInv, LInv, TypeOK, SocketValue, Alone
<1>2. ~queuedSend /\ ~queuedShutdown
  <2>1. \A name \in Raw : ~Runs(name)
    BY <1>1, HeadCalls DEF NothingRaw
  <2>2. QED
    BY <2>1 DEF queuedSend, queuedShutdown, HandlerStep, Raw
<1>3. CASE handleRead \/ handleError
  BY <1>1, <1>3
     DEF handleRead, handleError, HandlerStep, connection, history, StillStep,
         SocketValue
<1>4. CASE peerSends \/ peerTakes \/ peerCloses \/ peerResets
  BY <1>1, <1>4
     DEF peerSends, peerTakes, peerCloses, peerResets, PeerStep, connection,
         history,
     StillStep, SocketValue
<1>5. CASE poll \/ doPendingFunctors \/ endOfBatch \/ connectEstablished \/ connectDestroyed
  BY <1>5
     DEF poll, doPendingFunctors, endOfBatch, connectEstablished,
         connectDestroyed,
     connection, history, StillStep
<1>6. CASE disconnect \/ handleClose \/ remove \/ closeCallback \/ callbackReturns
  BY <1>6
     DEF disconnect, handleClose, Disconnects, remove, closeCallback,
         callbackReturns,
     connection, history, StillStep
<1>7. CASE removeConnectionInLoop \/ destroyServer \/ UNCHANGED vars
  BY <1>7
     DEF removeConnectionInLoop, destroyServer, vars, connection, history,
         StillStep
<1>8. QED
  BY <1>1, <1>2, <1>3, <1>4, <1>5, <1>6, <1>7 DEF Next, LoopStep, UserStep

\* While kConnected is up a byte is always buffered: with an empty buffer
\* writableBytes() is not zero, and with another EPOLLOUT is asked for.
LEMMA CallbackBuffers ==
  ASSUME IInv, callbackSends
  PROVE  /\ outputBuffer_' = Append(outputBuffer_, sent + 1) /\ sent' = sent + 1
         /\ socket'.wire = socket.wire /\ socket'.wrShut = socket.wrShut
         /\ state_ = "kConnected"
<1>1. state_ = "kConnected" /\ sent' = sent + 1 /\ sendInLoop(sent')
  BY DEF callbackSends
<1>2. directWrites = {FALSE}
  BY <1>1 DEF IInv, UpIsReading, WritesBuffered, directWrites
<1>3. keeps(sent') /\ socket' = [socket EXCEPT !.err = socket.err /\ ~FALSE]
  BY <1>1, <1>2 DEF sendInLoop
<1>4. QED
  BY <1>1, <1>3 DEF keeps, IInv, TypeOK

LEMMA IntactNext ==
  ASSUME Alone, IInv, LInv, [Next]_vars
  PROVE  StreamIntact'
<1>1. /\ socket.wire \in Seq(0..MaxSends) /\ outputBuffer_ \in Seq(0..MaxSends) /\ sent \in Nat
      /\ socket.wire \o outputBuffer_ = [k \in 1..sent |-> k]
  BY TcpConnectionAssumption DEF IInv, LInv, TypeOK, StreamIntact
<1>2. CASE StillStep \/ callbackShutsDown
  <2>1. outputBuffer_' = outputBuffer_ /\ socket'.wire = socket.wire /\ sent' = sent
    BY <1>2, ShutDownOf
       DEF StillStep, callbackShutsDown, history, IInv, TypeOK, SocketValue
  <2>2. QED
    BY <1>1, <2>1 DEF StreamIntact
<1>3. CASE callbackSends
  <2>1. /\ outputBuffer_' = Append(outputBuffer_, sent + 1) /\ sent' = sent + 1
        /\ socket'.wire = socket.wire
    BY <1>3, CallbackBuffers
  <2>2. socket.wire \o Append(outputBuffer_, sent + 1)
           = Append(socket.wire \o outputBuffer_, sent + 1)
    <3>1. sent + 1 \in 0..MaxSends
      BY <1>3, CallbackByte DEF IInv
    <3>2. socket.wire \in Seq(0..MaxSends) /\ outputBuffer_ \in Seq(0..MaxSends)
      BY <1>1
    <3>3. QED
      BY <3>1, <3>2, AppendBehind DEF Bytes
  <2>3. Append([k \in 1..sent |-> k], sent + 1) = [k \in 1..(sent + 1) |-> k]
    BY <1>1
  <2>4. QED
    BY <1>1, <2>1, <2>2, <2>3 DEF StreamIntact
<1>4. CASE handleWrite
  <2>1. PICK n \in 0..Len(outputBuffer_) : Writes(n)
    BY <1>4, WriteEffect DEF IInv
  <2>2. (socket.wire \o SubSeq(outputBuffer_, 1, n))
            \o SubSeq(outputBuffer_, n + 1, Len(outputBuffer_))
        = socket.wire \o outputBuffer_
    BY Rejoined DEF IInv
  <2>3. sent' = sent
    BY <1>4 DEF handleWrite, HandlerStep, history
  <2>4. QED
    BY <1>1, <2>1, <2>2, <2>3 DEF StreamIntact, Writes
<1>5. QED
  BY <1>2, <1>3, <1>4, StillSteps

LEMMA WriteSideNext ==
  ASSUME Alone, IInv, LInv, [Next]_vars
  PROVE  WriteSideLast'
<1>1. /\ TypeOK /\ Fresh /\ InPlace /\ UpIsReading /\ WritesBuffered /\ WriteSideLast
      /\ socket \in SocketValue /\ ~\E u \in User : TRUE
  BY DEF IInv, LInv, TypeOK, SocketValue, Alone
<1>2. CASE StillStep
  <2>1. StateStep
    BY <1>1, StateNext
  <2>2. QED
    BY <1>1, <1>2, <2>1 DEF StateStep, StillStep, WriteSideLast
<1>3. CASE callbackSends
  BY <1>1, <1>3, CallbackBuffers DEF IInv, WriteSideLast
<1>4. CASE callbackShutsDown
  <2>1. state_ = "kConnected" /\ state_' = "kDisconnecting" /\ outputBuffer_' = outputBuffer_
    BY <1>4 DEF callbackShutsDown, mayShutDown
  <2>2. isWriting(channel) => socket' = socket
    BY <1>4 DEF callbackShutsDown, shutDown
  <2>3. QED
    BY <1>1, <2>1, <2>2 DEF UpIsReading, WritesBuffered, WriteSideLast
<1>5. CASE handleWrite
  <2>1. state_' = state_
    BY <1>5 DEF handleWrite
  <2>2. CASE /\ isWriting(channel) /\ (WriteBroken \/ Space = 0)
             /\ socket' = [socket EXCEPT !.err = FALSE] /\ outputBuffer_' = outputBuffer_
    BY <1>1, <2>1, <2>2 DEF WriteSideLast, SocketValue
  <2>3. CASE socket' = socket /\ outputBuffer_' = outputBuffer_
    BY <1>1, <2>1, <2>3 DEF WriteSideLast
  <2>4. ASSUME ~WriteBroken, NEW n \in 1..Len(outputBuffer_), writesSome(n)
        PROVE  WriteSideLast'
    <3>1. ~socket.wrShut
      BY <2>4 DEF WriteBroken
    <3>2. CASE unwritten(n) # <<>>
      BY <1>1, <2>1, <2>4, <3>1, <3>2 DEF writesSome, WriteSideLast, SocketValue
    <3>3. CASE unwritten(n) = <<>>
      BY <1>1, <2>1, <2>4, <3>1, <3>3
         DEF writesSome, WriteSideLast, SocketValue, shutDownIfDue
    <3>4. QED
      BY <3>2, <3>3
  <2>5. QED
    BY <1>5, <2>2, <2>3, <2>4 DEF handleWrite
<1>6. QED
  BY <1>2, <1>3, <1>4, <1>5, StillSteps DEF IInv

-----------------------------------------------------------------------------
(***************************************************************************)
(* The theorems.  The hypothesis User = {} says that the connection is     *)
(* called from its loop only, as it is by a server whose callbacks keep no *)
(* TcpConnectionPtr.                                                       *)
(***************************************************************************)
LEMMA InitLInv == Alone /\ Init => LInv
<1> SUFFICES ASSUME Alone, Init PROVE LInv
  OBVIOUS
<1>1. /\ agenda = IF singleLoop THEN <<Run("connectEstablished"), Run("endOfBatch")>> ELSE <<>>
      /\ pendingFunctors_ = IF singleLoop THEN <<>> ELSE <<Run("connectEstablished")>>
  BY DEF Init
<1>2. /\ Names(agenda) = IF singleLoop THEN {"connectEstablished", "endOfBatch"} ELSE {}
      /\ Names(pendingFunctors_) = IF singleLoop THEN {} ELSE {"connectEstablished"}
  <2>1. Run("connectEstablished")[1] = "connectEstablished" /\ Run("endOfBatch")[1] = "endOfBatch"
    BY DEF Run
  <2>2. CASE singleLoop
    BY <1>1, <2>1, <2>2, NamesShort
  <2>3. CASE ~singleLoop
    BY <1>1, <2>1, <2>3, NamesShort
  <2>4. QED
    BY <2>2, <2>3
<1>3. \A x : OnceIn(agenda, x) /\ OnceIn(pendingFunctors_, x)
  BY <1>1, OnceShort DEF Run
<1>4. NothingRaw
  BY <1>2 DEF NothingRaw, Calls, Raw
<1>5. StreamIntact
  <2>1. socket.wire \o outputBuffer_ = <<>>
    BY Joins DEF Init
  <2>2. [k \in 1..0 |-> k] = <<>>
    OBVIOUS
  <2>3. QED
    BY <2>1, <2>2 DEF Init, StreamIntact
<1>6. WriteSideLast /\ ToldByState /\ AddedIsUp
  BY ChannelIsNew
     DEF Init, WriteSideLast, ToldByState, AddedIsUp, NewChannel, kNew, kAdded,
         kDeleted
<1>7. Establishing
  <2>1. Run("connectEstablished")[1] = "connectEstablished"
    BY DEF Run
  <2>2. QED
    BY <1>1, <2>1 DEF Init, Establishing
<1>8. MessageUp /\ RoundsApart
  BY <1>2 DEF MessageUp, RoundsApart, Handlers, Teardown
<1>9. OneClose /\ OneDestroy
  BY <1>2, <1>3 DEF Init, OneClose, OneDestroy, Calls
<1>10. LastRound
  <2>1. Run("connectEstablished")[1] \notin Ends
    BY DEF Run, Ends
  <2>2. LastIn(agenda)
    BY <1>1, <2>1 DEF LastIn
  <2>3. QED
    BY <2>2 DEF Init, LastRound
<1>11. Owned
  BY <1>2 DEF Init, Owned, Teardown
<1>12. QED
  BY <1>4, <1>5, <1>6, <1>7, <1>8, <1>9, <1>10, <1>11 DEF LInv

LEMMA NextLInv == Alone /\ IInv /\ LInv /\ [Next]_vars => LInv'
BY RawNext, IntactNext, WriteSideNext, ToldNext, AddedNext, EstablishingNext,
   MessageNext,
   ApartNext, OneCloseNext, OneDestroyNext, LastNext, OwnedNext DEF LInv

LEMMA LoopInvariance ==
  ASSUME User = {}
  PROVE  Spec => [](IInv /\ LInv)
<1>1. Init => IInv /\ LInv
  BY InitIInv, InitLInv DEF Alone
<1>2. IInv /\ LInv /\ [Next]_vars => (IInv /\ LInv)'
  BY NextIInv, NextLInv DEF Alone
<1>3. QED
  BY <1>1, <1>2, PTL DEF Spec

\* What the user sends is what the peer gets: the bytes on the wire and those
\* still buffered are the messages handed to send(), each once and in order
\* (sendInLoop, handleWrite; TcpConnection.h:44).
THEOREM StreamStaysIntact ==
  ASSUME User = {}
  PROVE  Spec => []StreamIntact
<1>1. LInv => StreamIntact
  BY DEF LInv
<1>2. QED
  BY <1>1, LoopInvariance, PTL

\* The write side is closed only when everything buffered has been written
\* (TcpConnection.cc:144-146).
THEOREM WriteSideGoesLast ==
  ASSUME User = {}
  PROVE  Spec => []ShutdownFlushes
<1>1. LInv => ShutdownFlushes
  BY DEF LInv, WriteSideLast, ShutdownFlushes
<1>2. QED
  BY <1>1, LoopInvariance, PTL

\* The user sees one UP and at most one DOWN, messages only in between, and
\* connectDestroyed runs once (connectEstablished, handleClose,
\* connectDestroyed; TcpConnection.h:69).
THEOREM CallbacksStayPaired ==
  ASSUME User = {}
  PROVE  Spec => []CallbacksPaired
<1>1. IInv /\ LInv => CallbacksPaired
  <2> SUFFICES ASSUME IInv, LInv PROVE CallbacksPaired
    OBVIOUS
  <2>1. /\ state_ \in {"kConnecting", "kConnected", "kDisconnecting", "kDisconnected"}
        /\ ToldByState /\ MessageUp /\ AddedIsUp /\ OneDestroy /\ Establishing
        /\ destroys \in Nat
    BY DEF IInv, LInv, TypeOK
  <2>2. ups <= 1 /\ downs <= ups
    BY <2>1 DEF ToldByState
  <2>3. "messageCallback" \in Names(agenda) => ups = 1 /\ downs = 0
    BY <2>1 DEF MessageUp, AddedIsUp, ToldByState
  <2>4. destroys <= 1
    BY <2>1 DEF OneDestroy
  <2>5. ASSUME destroys = 1, {"disconnect", "remove"} \cap Names(agenda) = {}
        PROVE  downs = ups \/ state_ = "kDisconnecting"
    BY <2>1, <2>5 DEF OneDestroy, Establishing, ToldByState
  <2>6. QED
    BY <2>2, <2>3, <2>4, <2>5 DEF CallbacksPaired
<1>2. QED
  BY <1>1, LoopInvariance, PTL

\* The destructor never runs while the poller still has the channel: a
\* registered channel always has an owner of its connection (Poller.h:28).
THEOREM RegisteredStaysReferenced ==
  ASSUME User = {}
  PROVE  Spec => []NeverDestroyedRegistered
<1>1. LInv => NeverDestroyedRegistered
  BY DEF LInv, Owned, NeverDestroyedRegistered, Referenced, Calls, Teardown,
     Counted
<1>2. QED
  BY <1>1, LoopInvariance, PTL
=============================================================================
