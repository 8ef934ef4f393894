------------------------ MODULE TcpConnectionProofs ------------------------
(***************************************************************************)
(* For any number of threads, messages and bytes: what a TcpConnection     *)
(* keeps true of its channel, its buffer and its bytes however its threads *)
(* interleave.                                                             *)
(***************************************************************************)
EXTENDS TcpConnection, FiniteSetTheorems, SequenceTheorems, TLAPS

Handlers == {"handleClose", "handleError", "handleRead", "handleWrite"}
Calls == Names(agenda) \cup Names(pendingFunctors_)

\* The numbers of the messages in a queue, and in the two queues.
Numbers(q) == {q[i][2] : i \in {j \in DOMAIN q : q[j][1] = "sendInLoop"}}
Waiting == Numbers(agenda) \cup Numbers(pendingFunctors_)

\* A connection that is kConnecting has done nothing, and connectEstablished,
\* the one way out of kConnecting, is called once.
OnceIn(q, name) == \A i, j \in DOMAIN q : q[i][1] = name /\ q[j][1] = name => i = j

OnceQueued ==
    /\ OnceIn(agenda, "connectEstablished")
    /\ OnceIn(pendingFunctors_, "connectEstablished")
    /\ "connectEstablished" \notin Names(agenda) \cap Names(pendingFunctors_)

Blank ==
    /\ channel = NewChannel
    /\ outputBuffer_ = <<>>
    /\ \A u \in User : call[u] = "none"
    /\ Calls \cap (Raw \cup Handlers) = {}

Fresh ==
    /\ state_ = "kConnecting" => Blank
    /\ "connectEstablished" \in Calls => state_ = "kConnecting"
    /\ OnceQueued

\* What may close or read stands where no other call comes between it and the
\* poll that reported it; what removes the channel, behind what disables it.
\* Functors only are queued.
InPlace ==
    /\ Names(pendingFunctors_) \subseteq Counted \cup Raw
    /\ \A i \in DOMAIN agenda :
          /\ agenda[i][1] \in {"handleClose", "disconnect"} => i = 1 /\ channel.index = kAdded
          /\ agenda[i][1] = "handleRead" =>
                /\ channel.index = kAdded
                /\ i = 1 \/ (i = 2 /\ agenda[1][1] = "handleError")
          /\ agenda[i][1] = "remove" =>
                \/ i = 1 /\ state_ # "kConnected"
                \/ i = 2 /\ agenda[1][1] = "disconnect"
                \/ i = 2 /\ agenda[1][1] = "connectionDown" /\ state_ # "kConnected"

\* The channel of a connection that is up is in epoll and reads.
UpIsReading ==
    state_ = "kConnected" => channel.index = kAdded /\ kReadEvent \subseteq channel.events

\* In any state: a channel in epoll writes iff there is something to write.
WritesBuffered == channel.index = kAdded => (isWriting(channel) <=> outputBuffer_ # <<>>)

\* The bytes written and buffered can be traced to different messages, of which
\* they are the bytes or garbage, and none of which still waits in a queue.
Injective(f) == \A i, j \in DOMAIN f : f[i] = f[j] => i = j

Traces(wire, buffer, f, g) ==
    /\ Injective(f) /\ Injective(g)
    /\ \A i \in DOMAIN f, j \in DOMAIN g : f[i] # g[j]
    /\ \A i \in 1..Len(wire) : wire[i] \in {f[i], Garbage}
    /\ \A i \in 1..Len(buffer) : buffer[i] \in {g[i], Garbage}

Traced(wire, buffer, n, waiting) ==
    \E f \in [1..Len(wire) -> 1..n \ waiting], g \in [1..Len(buffer) -> 1..n \ waiting] :
        Traces(wire, buffer, f, g)

DistinctIn(q) ==
    \A i, j \in DOMAIN q :
        q[i][1] = "sendInLoop" /\ q[j][1] = "sendInLoop" /\ q[i][2] = q[j][2] => i = j

DistinctQueued ==
    /\ Waiting \subseteq 1..sent
    /\ DistinctIn(agenda) /\ DistinctIn(pendingFunctors_)
    /\ Numbers(agenda) \cap Numbers(pendingFunctors_) = {}

BytesTraced ==
    /\ Traced(socket.wire, outputBuffer_, sent, Waiting)
    /\ DistinctQueued
    /\ socket.taken <= Len(socket.wire)

IInv ==
    /\ TypeOK
    /\ Fresh
    /\ InPlace
    /\ UpIsReading
    /\ WritesBuffered
    /\ BytesTraced
-----------------------------------------------------------------------------
(***************************************************************************)
(* Queues.                                                                 *)
(***************************************************************************)
LEMMA TailOf ==
  ASSUME NEW S, NEW q \in Seq(S), q # <<>>
  PROVE  /\ Tail(q) \in Seq(S) /\ Len(q) \in Nat \ {0} /\ Head(q) = q[1] /\ Head(q) \in S
         /\ DOMAIN q = 1..Len(q) /\ DOMAIN Tail(q) = 1..(Len(q) - 1)
         /\ Len(Tail(q)) = Len(q) - 1
         /\ \A i \in DOMAIN Tail(q) : Tail(q)[i] = q[i + 1]
OBVIOUS

LEMMA ConcatOf ==
  ASSUME NEW S, NEW p \in Seq(S), NEW q \in Seq(S)
  PROVE  /\ p \o q \in Seq(S) /\ Len(p) \in Nat /\ Len(q) \in Nat
         /\ Len(p \o q) = Len(p) + Len(q)
         /\ DOMAIN p = 1..Len(p) /\ DOMAIN q = 1..Len(q)
         /\ DOMAIN (p \o q) = 1..(Len(p) + Len(q))
         /\ \A i \in DOMAIN p : (p \o q)[i] = p[i]
         /\ \A i \in DOMAIN q : (p \o q)[Len(p) + i] = q[i]
         /\ \A i \in DOMAIN (p \o q) :
               i \in DOMAIN p \/ (i - Len(p) \in DOMAIN q /\ (p \o q)[i] = q[i - Len(p)])
OBVIOUS

LEMMA NamesWithin ==
  ASSUME NEW p, NEW q, \A i \in DOMAIN p : \E j \in DOMAIN q : q[j] = p[i]
  PROVE  Names(p) \subseteq Names(q) /\ Numbers(p) \subseteq Numbers(q)
<1>1. ASSUME NEW i \in DOMAIN p PROVE p[i][1] \in Names(q)
  <2>1. PICK j \in DOMAIN q : q[j] = p[i]
    OBVIOUS
  <2>2. QED
    BY <2>1 DEF Names
<1>2. ASSUME NEW i \in DOMAIN p, p[i][1] = "sendInLoop" PROVE p[i][2] \in Numbers(q)
  <2>1. PICK j \in DOMAIN q : q[j] = p[i]
    OBVIOUS
  <2>2. QED
    BY <1>2, <2>1 DEF Numbers
<1>3. Names(p) \subseteq Names(q)
  BY <1>1 DEF Names
<1>4. Numbers(p) \subseteq Numbers(q)
  BY <1>2 DEF Numbers
<1>5. QED
  BY <1>3, <1>4

LEMMA NamesTail ==
  ASSUME NEW S, NEW q \in Seq(S), q # <<>>
  PROVE  /\ Names(q) = Names(Tail(q)) \cup {Head(q)[1]}
         /\ Numbers(Tail(q)) \subseteq Numbers(q)
         /\ Head(q)[1] = "sendInLoop" => Numbers(q) = Numbers(Tail(q)) \cup {Head(q)[2]}
         /\ Head(q)[1] # "sendInLoop" => Numbers(q) = Numbers(Tail(q))
<1>1. ASSUME NEW i \in DOMAIN Tail(q)
      PROVE  \E j \in DOMAIN q : q[j] = Tail(q)[i]
  <2>1. i + 1 \in DOMAIN q /\ q[i + 1] = Tail(q)[i]
    BY TailOf
  <2>2. QED
    BY <2>1
<1>2. ASSUME NEW i \in DOMAIN q
      PROVE  q[i] = Head(q) \/ \E j \in DOMAIN Tail(q) : Tail(q)[j] = q[i]
  <2>1. CASE i = 1
    BY <2>1, TailOf
  <2>2. CASE i # 1
    <3>1. i - 1 \in DOMAIN Tail(q) /\ Tail(q)[i - 1] = q[i]
      BY <2>2, TailOf
    <3>2. QED
      BY <3>1
  <2>3. QED
    BY <2>1, <2>2
<1>3. \E j \in DOMAIN q : q[j] = Head(q)
  BY TailOf
<1>4. Names(q) \subseteq Names(Tail(q)) \cup {Head(q)[1]}
  <2> SUFFICES ASSUME NEW i \in DOMAIN q PROVE q[i][1] \in Names(Tail(q)) \cup {Head(q)[1]}
    BY DEF Names
  <2>1. CASE q[i] = Head(q)
    BY <2>1
  <2>2. CASE \E j \in DOMAIN Tail(q) : Tail(q)[j] = q[i]
    BY <2>2 DEF Names
  <2>3. QED
    BY <1>2, <2>1, <2>2
<1>5. Names(Tail(q)) \subseteq Names(q)
  <2> SUFFICES ASSUME NEW i \in DOMAIN Tail(q) PROVE Tail(q)[i][1] \in Names(q)
    BY DEF Names
  <2>1. PICK j \in DOMAIN q : q[j] = Tail(q)[i]
    BY <1>1
  <2>2. QED
    BY <2>1 DEF Names
<1>6. Head(q)[1] \in Names(q)
  BY <1>3 DEF Names
<1>7. Numbers(Tail(q)) \subseteq Numbers(q)
  <2> SUFFICES ASSUME NEW i \in DOMAIN Tail(q), Tail(q)[i][1] = "sendInLoop"
               PROVE  Tail(q)[i][2] \in Numbers(q)
    BY DEF Numbers
  <2>1. PICK j \in DOMAIN q : q[j] = Tail(q)[i]
    BY <1>1
  <2>2. QED
    BY <2>1 DEF Numbers
<1>8. Head(q)[1] = "sendInLoop" => Head(q)[2] \in Numbers(q)
  BY <1>3 DEF Numbers
<1>9. ASSUME NEW x \in Numbers(q)
      PROVE  x \in Numbers(Tail(q)) \/ (Head(q)[1] = "sendInLoop" /\ x = Head(q)[2])
  <2>1. PICK i \in DOMAIN q : q[i][1] = "sendInLoop" /\ q[i][2] = x
    BY DEF Numbers
  <2>2. CASE q[i] = Head(q)
    BY <2>1, <2>2
  <2>3. CASE \E j \in DOMAIN Tail(q) : Tail(q)[j] = q[i]
    BY <2>1, <2>3 DEF Numbers
  <2>4. QED
    BY <1>2, <2>2, <2>3
<1>10. QED
  BY <1>4, <1>5, <1>6, <1>7, <1>8, <1>9

LEMMA NamesConcat ==
  ASSUME NEW S, NEW p \in Seq(S), NEW q \in Seq(S)
  PROVE  /\ Names(p \o q) = Names(p) \cup Names(q)
         /\ Numbers(p \o q) = Numbers(p) \cup Numbers(q)
<1>1. ASSUME NEW i \in DOMAIN p PROVE \E j \in DOMAIN (p \o q) : (p \o q)[j] = p[i]
  BY ConcatOf
<1>2. ASSUME NEW i \in DOMAIN q PROVE \E j \in DOMAIN (p \o q) : (p \o q)[j] = q[i]
  <2>1. Len(p) + i \in DOMAIN (p \o q) /\ (p \o q)[Len(p) + i] = q[i]
    BY ConcatOf
  <2>2. QED
    BY <2>1
<1>3. ASSUME NEW j \in DOMAIN (p \o q)
      PROVE  (\E i \in DOMAIN p : p[i] = (p \o q)[j]) \/ \E i \in DOMAIN q : q[i] = (p \o q)[j]
  <2>1. j \in DOMAIN p \/ (j - Len(p) \in DOMAIN q /\ (p \o q)[j] = q[j - Len(p)])
    BY ConcatOf
  <2>2. CASE j \in DOMAIN p
    BY <2>2, ConcatOf
  <2>3. CASE j - Len(p) \in DOMAIN q /\ (p \o q)[j] = q[j - Len(p)]
    BY <2>3
  <2>4. QED
    BY <2>1, <2>2, <2>3
<1>4. Names(p) \subseteq Names(p \o q) /\ Numbers(p) \subseteq Numbers(p \o q)
  BY <1>1, NamesWithin
<1>5. Names(q) \subseteq Names(p \o q) /\ Numbers(q) \subseteq Numbers(p \o q)
  BY <1>2, NamesWithin
<1>6. Names(p \o q) \subseteq Names(p) \cup Names(q)
  BY <1>3 DEF Names
<1>7. Numbers(p \o q) \subseteq Numbers(p) \cup Numbers(q)
  BY <1>3 DEF Numbers
<1>8. QED
  BY <1>4, <1>5, <1>6, <1>7

LEMMA NamesShort ==
  /\ Names(<<>>) = {} /\ Numbers(<<>>) = {}
  /\ \A x : Names(<<x>>) = {x[1]}
  /\ \A x : x[1] # "sendInLoop" => Numbers(<<x>>) = {}
  /\ \A x : x[1] = "sendInLoop" => Numbers(<<x>>) = {x[2]}
  /\ \A x, y : Names(<<x, y>>) = {x[1], y[1]}
  /\ \A x, y : x[1] # "sendInLoop" /\ y[1] # "sendInLoop" => Numbers(<<x, y>>) = {}
BY DEF Names, Numbers

LEMMA NamesAppend ==
  ASSUME NEW S, NEW q \in Seq(S), NEW x \in S
  PROVE  /\ Append(q, x) \in Seq(S)
         /\ Names(Append(q, x)) = Names(q) \cup {x[1]}
         /\ Numbers(Append(q, x)) = Numbers(q) \cup Numbers(<<x>>)
<1>1. Append(q, x) = q \o <<x>> /\ <<x>> \in Seq(S)
  OBVIOUS
<1>2. Names(<<x>>) = {x[1]}
  BY NamesShort
<1>3. /\ q \o <<x>> \in Seq(S)
      /\ Names(q \o <<x>>) = Names(q) \cup Names(<<x>>)
      /\ Numbers(q \o <<x>>) = Numbers(q) \cup Numbers(<<x>>)
  <2>1. PICK r \in Seq(S) : r = <<x>>
    BY <1>1
  <2>2. q \o r \in Seq(S)
    BY ConcatOf
  <2>3. Names(q \o r) = Names(q) \cup Names(r) /\ Numbers(q \o r) = Numbers(q) \cup Numbers(r)
    BY NamesConcat
  <2>4. QED
    BY <2>1, <2>2, <2>3
<1>4. QED
  BY <1>1, <1>2, <1>3

\* Once, and distinct, in a tail and in a concatenation.
LEMMA OnceTail ==
  ASSUME NEW S, NEW q \in Seq(S), q # <<>>
  PROVE  /\ \A name : OnceIn(q, name) =>
               /\ OnceIn(Tail(q), name)
               /\ Head(q)[1] = name => name \notin Names(Tail(q))
         /\ DistinctIn(q) =>
               /\ DistinctIn(Tail(q))
               /\ Head(q)[1] = "sendInLoop" => Head(q)[2] \notin Numbers(Tail(q))
<1>1. \A i \in DOMAIN Tail(q) : i + 1 \in DOMAIN q /\ i + 1 # 1 /\ Tail(q)[i] = q[i + 1]
  BY TailOf
<1>2. \A i, j \in DOMAIN Tail(q) : i + 1 = j + 1 => i = j
  BY TailOf
<1>3. 1 \in DOMAIN q /\ Head(q) = q[1]
  BY TailOf
<1>4. ASSUME NEW name, OnceIn(q, name)
      PROVE  /\ OnceIn(Tail(q), name)
             /\ Head(q)[1] = name => name \notin Names(Tail(q))
  BY <1>1, <1>2, <1>3, <1>4 DEF OnceIn, Names
<1>5. ASSUME DistinctIn(q)
      PROVE  /\ DistinctIn(Tail(q))
             /\ Head(q)[1] = "sendInLoop" => Head(q)[2] \notin Numbers(Tail(q))
  BY <1>1, <1>2, <1>3, <1>5 DEF DistinctIn, Numbers
<1>6. QED
  BY <1>4, <1>5

LEMMA OnceConcat ==
  ASSUME NEW S, NEW p \in Seq(S), NEW q \in Seq(S)
  PROVE  /\ \A name : /\ OnceIn(p, name) /\ OnceIn(q, name)
                      /\ name \notin Names(p) \cap Names(q)
                      => OnceIn(p \o q, name)
         /\ DistinctIn(p) /\ DistinctIn(q) /\ Numbers(p) \cap Numbers(q) = {}
               => DistinctIn(p \o q)
<1>1. \A i \in DOMAIN (p \o q) :
         \/ i \in DOMAIN p /\ (p \o q)[i] = p[i]
         \/ i - Len(p) \in DOMAIN q /\ (p \o q)[i] = q[i - Len(p)]
  BY ConcatOf
<1>2. \A i, j \in DOMAIN (p \o q) : i - Len(p) = j - Len(p) => i = j
  BY ConcatOf
<1>3. ASSUME NEW name, OnceIn(p, name), OnceIn(q, name), name \notin Names(p) \cap Names(q)
      PROVE  OnceIn(p \o q, name)
  BY <1>1, <1>2, <1>3 DEF OnceIn, Names
<1>4. ASSUME DistinctIn(p), DistinctIn(q), Numbers(p) \cap Numbers(q) = {}
      PROVE  DistinctIn(p \o q)
  <2> SUFFICES ASSUME NEW i \in DOMAIN (p \o q), NEW j \in DOMAIN (p \o q),
                      (p \o q)[i][1] = "sendInLoop", (p \o q)[j][1] = "sendInLoop",
                      (p \o q)[i][2] = (p \o q)[j][2]
               PROVE  i = j
    BY DEF DistinctIn
  <2>1. /\ \A k \in DOMAIN p : p[k][1] = "sendInLoop" => p[k][2] \in Numbers(p)
        /\ \A k \in DOMAIN q : q[k][1] = "sendInLoop" => q[k][2] \in Numbers(q)
    BY DEF Numbers
  <2>2. CASE i \in DOMAIN p /\ j \in DOMAIN p
    BY <1>4, <2>2, ConcatOf DEF DistinctIn
  <2>3. CASE i - Len(p) \in DOMAIN q /\ (p \o q)[i] = q[i - Len(p)]
    <3>1. CASE j - Len(p) \in DOMAIN q /\ (p \o q)[j] = q[j - Len(p)]
      BY <1>2, <1>4, <2>3, <3>1 DEF DistinctIn
    <3>2. CASE j \in DOMAIN p /\ (p \o q)[j] = p[j]
      BY <1>4, <2>1, <2>3, <3>2
    <3>3. QED
      BY <1>1, <3>1, <3>2
  <2>4. CASE /\ i \in DOMAIN p /\ (p \o q)[i] = p[i]
             /\ j - Len(p) \in DOMAIN q /\ (p \o q)[j] = q[j - Len(p)]
    BY <1>4, <2>1, <2>4
  <2>5. QED
    BY <1>1, <2>2, <2>3, <2>4
<1>5. QED
  BY <1>3, <1>4

LEMMA OnceShort ==
  /\ \A name : OnceIn(<<>>, name)
  /\ DistinctIn(<<>>)
  /\ \A x : DistinctIn(<<x>>)
  /\ \A x, name : OnceIn(<<x>>, name)
  /\ \A x, y, name : x[1] # name \/ y[1] # name => OnceIn(<<x, y>>, name)
  /\ \A x, y : x[1] # "sendInLoop" \/ y[1] # "sendInLoop" => DistinctIn(<<x, y>>)
BY DEF OnceIn, DistinctIn

\* Names of the entries that are no messages.
Simple == UserCallback \cup Counted \cup Handlers
          \cup {"shutdownInLoop", "closeCallback", "disconnect", "remove",
                "doPendingFunctors", "endOfBatch"}

LEMMA EntriesOf ==
  /\ \A name \in Simple : Run(name) \in Entries /\ Run(name)[1] = name
  /\ \A m \in 1..MaxSends : /\ SendFunctor(m) \in Entries
                            /\ SendFunctor(m)[1] = "sendInLoop" /\ SendFunctor(m)[2] = m
  /\ \A e \in Entries : e[1] \in Simple \/ (e[1] = "sendInLoop" /\ e[2] \in 1..MaxSends)
<1>1. \A name \in Simple : Run(name) \in Entries /\ Run(name)[1] = name
  BY DEF Simple, Handlers, Entries, Run
<1>2. \A m \in 1..MaxSends : /\ SendFunctor(m) \in Entries
                             /\ SendFunctor(m)[1] = "sendInLoop" /\ SendFunctor(m)[2] = m
  BY DEF Entries, SendFunctor
<1>3. \A e \in Entries : e[1] \in Simple \/ (e[1] = "sendInLoop" /\ e[2] \in 1..MaxSends)
  BY DEF Simple, Handlers, Entries
<1>4. QED
  BY <1>1, <1>2, <1>3

-----------------------------------------------------------------------------
(***************************************************************************)
(* The channel.                                                            *)
(***************************************************************************)
LEMMA ChannelOps ==
  ASSUME NEW c \in ChannelValue
  PROVE  /\ LET d == updated(readingEnabled(c)) IN
               /\ d \in ChannelValue /\ d.index = kAdded /\ kReadEvent \subseteq d.events
               /\ isWriting(d) <=> isWriting(c)
         /\ LET d == updated(allDisabled(c)) IN
               /\ d \in ChannelValue /\ ~isWriting(d) /\ d.index # kNew
               /\ c.index = kAdded <=> d.index = kDeleted
         /\ LET d == updated(writingDisabled(c)) IN
               /\ d \in ChannelValue /\ ~isWriting(d) /\ d.index # kNew
               /\ kReadEvent \subseteq c.events => d.index = kAdded /\ kReadEvent \subseteq d.events
         /\ LET d == askedToWrite(c) IN
               /\ d \in ChannelValue /\ isWriting(d)
               /\ kReadEvent \subseteq c.events => kReadEvent \subseteq d.events
               /\ isWriting(c) => d = c
               /\ ~isWriting(c) => d.index = kAdded
         /\ removed(c) \in ChannelValue /\ removed(c).index = kNew
         /\ kNew # kAdded /\ kNew # kDeleted /\ kAdded # kDeleted
<1>1. /\ c.events \in Events /\ c.index \in {kNew, kAdded, kDeleted}
      /\ c = [events |-> c.events, index |-> c.index]
  BY DEF ChannelValue
<1>2. kNew # kAdded /\ kNew # kDeleted /\ kAdded # kDeleted
  BY DEF kNew, kAdded, kDeleted
<1>3. \A e \in Events : /\ e \cup kReadEvent \in Events /\ e \ kWriteEvent \in Events
                        /\ e \cup kWriteEvent \in Events /\ kNoneEvent \in Events
  BY DEF Events, kNoneEvent, kReadEvent, kWriteEvent
<1>4. ASSUME NEW e \in Events, NEW d, d = [events |-> e, index |-> c.index]
      PROVE  /\ updated(d) \in ChannelValue /\ updated(d).events = e
             /\ updated(d).index = IF c.index = kAdded /\ e = kNoneEvent THEN kDeleted ELSE kAdded
  BY <1>1, <1>2, <1>4 DEF updated, operation, isNoneEvent, ChannelValue
<1>5. /\ updated(readingEnabled(c)) \in ChannelValue
      /\ updated(readingEnabled(c)).events = c.events \cup kReadEvent
      /\ updated(readingEnabled(c)).index = kAdded
  <2>1. readingEnabled(c) = [events |-> c.events \cup kReadEvent, index |-> c.index]
    BY <1>1 DEF readingEnabled
  <2>2. c.events \cup kReadEvent # kNoneEvent
    BY DEF kReadEvent, kNoneEvent
  <2>3. c.events \cup kReadEvent \in Events
    BY <1>1, <1>3
  <2>4. QED
    BY <1>4, <2>1, <2>2, <2>3
<1>6. /\ updated(allDisabled(c)) \in ChannelValue
      /\ updated(allDisabled(c)).events = kNoneEvent
      /\ updated(allDisabled(c)).index = IF c.index = kAdded THEN kDeleted ELSE kAdded
  <2>1. allDisabled(c) = [events |-> kNoneEvent, index |-> c.index]
    BY <1>1 DEF allDisabled
  <2>2. QED
    BY <1>1, <1>3, <1>4, <2>1
<1>7. /\ updated(writingDisabled(c)) \in ChannelValue
      /\ updated(writingDisabled(c)).events = c.events \ kWriteEvent
      /\ updated(writingDisabled(c)).index =
            IF c.index = kAdded /\ c.events \ kWriteEvent = kNoneEvent THEN kDeleted ELSE kAdded
  <2>1. writingDisabled(c) = [events |-> c.events \ kWriteEvent, index |-> c.index]
    BY <1>1 DEF writingDisabled
  <2>2. c.events \ kWriteEvent \in Events
    BY <1>1, <1>3
  <2>3. QED
    BY <1>4, <2>1, <2>2
<1>8. /\ updated(writingEnabled(c)) \in ChannelValue
      /\ updated(writingEnabled(c)).events = c.events \cup kWriteEvent
      /\ updated(writingEnabled(c)).index = kAdded
  <2>1. writingEnabled(c) = [events |-> c.events \cup kWriteEvent, index |-> c.index]
    BY <1>1 DEF writingEnabled
  <2>2. c.events \cup kWriteEvent # kNoneEvent
    BY DEF kWriteEvent, kNoneEvent
  <2>3. c.events \cup kWriteEvent \in Events
    BY <1>1, <1>3
  <2>4. QED
    BY <1>4, <2>1, <2>2, <2>3
<1>9. removed(c) \in ChannelValue /\ removed(c).index = kNew
  BY <1>1 DEF removed, ChannelValue
<1>10. LET d == updated(readingEnabled(c)) IN
          /\ d \in ChannelValue /\ d.index = kAdded /\ kReadEvent \subseteq d.events
          /\ isWriting(d) <=> isWriting(c)
  BY <1>5 DEF isWriting, kWriteEvent, kReadEvent
<1>11. LET d == updated(allDisabled(c)) IN
          /\ d \in ChannelValue /\ ~isWriting(d) /\ d.index # kNew
          /\ c.index = kAdded <=> d.index = kDeleted
  BY <1>2, <1>6 DEF isWriting, kWriteEvent, kNoneEvent
<1>12. LET d == updated(writingDisabled(c)) IN
          /\ d \in ChannelValue /\ ~isWriting(d) /\ d.index # kNew
          /\ kReadEvent \subseteq c.events => d.index = kAdded /\ kReadEvent \subseteq d.events
  BY <1>2, <1>7 DEF isWriting, kWriteEvent, kReadEvent, kNoneEvent
<1>13. LET d == askedToWrite(c) IN
          /\ d \in ChannelValue /\ isWriting(d)
          /\ kReadEvent \subseteq c.events => kReadEvent \subseteq d.events
          /\ isWriting(c) => d = c
          /\ ~isWriting(c) => d.index = kAdded
  BY <1>8 DEF askedToWrite, isWriting
<1>14. QED
  BY <1>2, <1>9, <1>10, <1>11, <1>12, <1>13

LEMMA Pair ==
  ASSUME NEW x, NEW y
  PROVE  <<x>> \o <<y>> = <<x, y>>
<1> DEFINE s == <<x>> \o <<y>>
           t == <<x, y>>
<1>1. /\ s \in Seq({x, y}) /\ t \in Seq({x, y}) /\ Len(s) = 2 /\ Len(t) = 2
      /\ s[1] = t[1] /\ s[2] = t[2]
  OBVIOUS
<1>2. \A i \in 1..2 : s[i] = t[i]
  <2> SUFFICES ASSUME NEW i \in 1..2 PROVE s[i] = t[i]
    OBVIOUS
  <2>1. i = 1 \/ i = 2
    OBVIOUS
  <2>2. QED
    BY <1>1, <2>1
<1>3. QED
  BY <1>1, <1>2, SeqEqual

LEMMA Triple ==
  ASSUME NEW x, NEW y, NEW z
  PROVE  <<x, y>> \o <<z>> = <<x, y, z>>
<1> DEFINE s == <<x, y>> \o <<z>>
           t == <<x, y, z>>
<1>1. /\ s \in Seq({x, y, z}) /\ t \in Seq({x, y, z}) /\ Len(s) = 3 /\ Len(t) = 3
      /\ s[1] = t[1] /\ s[2] = t[2] /\ s[3] = t[3]
  OBVIOUS
<1>2. \A i \in 1..3 : s[i] = t[i]
  <2> SUFFICES ASSUME NEW i \in 1..3 PROVE s[i] = t[i]
    OBVIOUS
  <2>1. i = 1 \/ i = 2 \/ i = 3
    OBVIOUS
  <2>2. QED
    BY <1>1, <2>1
<1>3. QED
  BY <1>1, <1>2, SeqEqual

LEMMA Joins ==
  /\ <<>> \o <<>> = <<>>
  /\ \A x : <<x>> \o <<>> = <<x>> /\ <<>> \o <<x>> = <<x>>
  /\ \A x, y : <<x>> \o <<y>> = <<x, y>> /\ <<x, y>> \o <<>> = <<x, y>>
  /\ \A x, y, z : <<x, y>> \o <<z>> = <<x, y, z>>
BY Pair, Triple

\* What a poll puts on the agenda.
Reports(reported) ==
    [i \in DOMAIN callbacks(reported) |-> Run(callbacks(reported)[i])]
        \o <<Run("doPendingFunctors")>>

LEMMA CallbacksOf ==
  ASSUME NEW reported, "PRI" \notin reported
  PROVE  callbacks(reported) \in
            {<<>>, <<"handleClose">>, <<"handleError">>, <<"handleClose", "handleError">>,
             <<"handleRead">>, <<"handleError", "handleRead">>, <<"handleWrite">>,
             <<"handleClose", "handleWrite">>, <<"handleError", "handleWrite">>,
             <<"handleClose", "handleError", "handleWrite">>,
             <<"handleRead", "handleWrite">>, <<"handleError", "handleRead", "handleWrite">>}
<1> DEFINE c == IF "HUP" \in reported /\ "IN" \notin reported THEN <<"handleClose">> ELSE <<>>
           e == IF "ERR" \in reported THEN <<"handleError">> ELSE <<>>
           r == IF reported \cap kReadEvent # {} THEN <<"handleRead">> ELSE <<>>
           w == IF "OUT" \in reported THEN <<"handleWrite">> ELSE <<>>
<1>1. callbacks(reported) = ((c \o e) \o r) \o w
  BY DEF callbacks
<1>2. "IN" \in reported <=> reported \cap kReadEvent # {}
  BY DEF kReadEvent
<1>3. /\ c = <<>> \/ c = <<"handleClose">>
      /\ e = <<>> \/ e = <<"handleError">>
      /\ r = <<>> \/ r = <<"handleRead">>
      /\ w = <<>> \/ w = <<"handleWrite">>
  OBVIOUS
<1>4. r = <<>> \/ c = <<>>
  <2>1. <<"handleRead">> # <<>>
    OBVIOUS
  <2>2. QED
    BY <1>2
<1> HIDE DEF c, e, r, w
<1>5. c \o e \in {<<>>, <<"handleClose">>, <<"handleError">>, <<"handleClose", "handleError">>}
  BY <1>3, Joins
<1>6. c = <<>> => c \o e \in {<<>>, <<"handleError">>}
  BY <1>3, Joins
<1>7. (c \o e) \o r \in {<<>>, <<"handleClose">>, <<"handleError">>,
                        <<"handleClose", "handleError">>,
                        <<"handleRead">>, <<"handleError", "handleRead">>}
  <2>1. CASE r = <<>>
    BY <1>5, <2>1, Joins
  <2>2. CASE r = <<"handleRead">> /\ c = <<>>
    BY <1>6, <2>2, Joins
  <2>3. QED
    BY <1>3, <1>4, <2>1, <2>2
<1>8. CASE w = <<>>
  BY <1>1, <1>7, <1>8, Joins
<1>9. CASE w = <<"handleWrite">>
  <2>1. CASE (c \o e) \o r = <<>>
    <3>1. <<>> \o <<"handleWrite">> = <<"handleWrite">>
      BY Joins
    <3>2. QED
      BY <1>1, <1>9, <2>1, <3>1
  <2>2. CASE (c \o e) \o r = <<"handleClose">>
    <3>1. <<"handleClose">> \o <<"handleWrite">> = <<"handleClose", "handleWrite">>
      BY Joins
    <3>2. QED
      BY <1>1, <1>9, <2>2, <3>1
  <2>3. CASE (c \o e) \o r = <<"handleError">>
    <3>1. <<"handleError">> \o <<"handleWrite">> = <<"handleError", "handleWrite">>
      BY Joins
    <3>2. QED
      BY <1>1, <1>9, <2>3, <3>1
  <2>4. CASE (c \o e) \o r = <<"handleClose", "handleError">>
    <3>1. <<"handleClose", "handleError">> \o <<"handleWrite">> = <<"handleClose", "handleError", "handleWrite">>
      BY Joins
    <3>2. QED
      BY <1>1, <1>9, <2>4, <3>1
  <2>5. CASE (c \o e) \o r = <<"handleRead">>
    <3>1. <<"handleRead">> \o <<"handleWrite">> = <<"handleRead", "handleWrite">>
      BY Joins
    <3>2. QED
      BY <1>1, <1>9, <2>5, <3>1
  <2>6. CASE (c \o e) \o r = <<"handleError", "handleRead">>
    <3>1. <<"handleError", "handleRead">> \o <<"handleWrite">> = <<"handleError", "handleRead", "handleWrite">>
      BY Joins
    <3>2. QED
      BY <1>1, <1>9, <2>6, <3>1
  <2>7. QED
    BY <1>7, <2>1, <2>2, <2>3, <2>4, <2>5, <2>6
<1>10. QED
  BY <1>3, <1>8, <1>9

LEMMA ReportsOf ==
  ASSUME NEW reported, "PRI" \notin reported
  PROVE  /\ Reports(reported) \in Seq(Entries)
         /\ Names(Reports(reported)) \subseteq Handlers \cup {"doPendingFunctors"}
         /\ Numbers(Reports(reported)) = {}
         /\ reported = {} => Reports(reported) = <<Run("doPendingFunctors")>>
         /\ \A i \in DOMAIN Reports(reported) :
               /\ Reports(reported)[i][1] = "handleClose" => i = 1
               /\ Reports(reported)[i][1] = "handleRead" =>
                     i = 1 \/ (i = 2 /\ Reports(reported)[1][1] = "handleError")
<1> DEFINE c == callbacks(reported)
           p == [i \in DOMAIN c |-> Run(c[i])]
           last == <<Run("doPendingFunctors")>>
<1>1. c \in Seq(Handlers)
  <2>1. \A x, y, z \in Handlers : /\ <<>> \in Seq(Handlers) /\ <<x>> \in Seq(Handlers)
                                  /\ <<x, y>> \in Seq(Handlers) /\ <<x, y, z>> \in Seq(Handlers)
    OBVIOUS
  <2>2. {"handleClose", "handleError", "handleRead", "handleWrite"} \subseteq Handlers
    BY DEF Handlers
  <2>3. QED
    BY <2>1, <2>2, CallbacksOf
<1>2. \A i \in DOMAIN c : /\ c[i] = "handleClose" => i = 1
                          /\ c[i] = "handleRead" => i = 1 \/ (i = 2 /\ c[1] = "handleError")
  BY CallbacksOf
<1>3. reported = {} => c = <<>>
  BY DEF callbacks
<1> HIDE DEF c
<1>4. /\ p \in Seq(Entries) /\ DOMAIN p = DOMAIN c
      /\ \A i \in DOMAIN c : p[i][1] = c[i] /\ c[i] \in Handlers
  BY <1>1, EntriesOf DEF Simple, Run
<1>5. last \in Seq(Entries) /\ last[1][1] = "doPendingFunctors" /\ DOMAIN last = {1}
  BY EntriesOf DEF Simple, Run
<1> HIDE DEF p, last
<1>6. Reports(reported) = p \o last
  BY DEF Reports, p, last, c
<1>7. Names(p) \subseteq Handlers /\ Numbers(p) = {}
  BY <1>4 DEF Names, Numbers, Handlers
<1>8. Names(last) = {"doPendingFunctors"} /\ Numbers(last) = {}
  BY <1>5 DEF Names, Numbers
<1>9. p \o last \in Seq(Entries)
  BY <1>4, <1>5, ConcatOf
<1>10. Names(p \o last) = Names(p) \cup Names(last) /\ Numbers(p \o last) = Numbers(p) \cup Numbers(last)
  BY <1>4, <1>5, NamesConcat
<1>11. ASSUME NEW i \in DOMAIN (p \o last), (p \o last)[i][1] \in Handlers
       PROVE  i \in DOMAIN p /\ (p \o last)[i] = p[i]
  <2>1. CASE i \in DOMAIN p
    BY <1>4, <1>5, <2>1, ConcatOf
  <2>2. CASE i - Len(p) \in DOMAIN last /\ (p \o last)[i] = last[i - Len(p)]
    BY <1>5, <1>11, <2>2 DEF Handlers
  <2>3. QED
    BY <1>4, <1>5, <2>1, <2>2, ConcatOf
<1>12. ASSUME NEW i \in DOMAIN (p \o last)
       PROVE  /\ (p \o last)[i][1] = "handleClose" => i = 1
              /\ (p \o last)[i][1] = "handleRead" =>
                    i = 1 \/ (i = 2 /\ (p \o last)[1][1] = "handleError")
  <2>1. i \in DOMAIN p => i = 1 \/ 1 \in DOMAIN p
    BY <1>4
  <2>2. 1 \in DOMAIN p => (p \o last)[1] = p[1]
    BY <1>4, <1>5, ConcatOf
  <2>3. QED
    BY <1>2, <1>4, <1>11, <2>1, <2>2 DEF Handlers
<1>13. reported = {} => p \o last = <<Run("doPendingFunctors")>>
  <2>1. reported = {} => p = <<>>
    BY <1>3 DEF p
  <2>2. <<>> \o last = last
    BY <1>5
  <2>3. QED
    BY <2>1, <2>2 DEF last
<1>14. QED
  BY <1>6, <1>7, <1>8, <1>9, <1>10, <1>12, <1>13

-----------------------------------------------------------------------------
(***************************************************************************)
(* What send() and handleWrite do to the channel, the buffer and the wire. *)
(***************************************************************************)
SocketValue ==
    [rcv: 0..MaxInput, fin: BOOLEAN, rst: BOOLEAN, err: BOOLEAN,
     wrShut: BOOLEAN, wire: Seq(0..MaxSends), taken: 0..MaxSends]

\* s as t but for the bytes written, SO_ERROR and the write side.
SameInput(s, t) == s.rcv = t.rcv /\ s.fin = t.fin /\ s.rst = t.rst /\ s.taken = t.taken

LEMMA ShutDownOf ==
  ASSUME NEW c, NEW s \in SocketValue
  PROVE  /\ shutDown(c, s) \in SocketValue /\ shutDownIfDue(c, s) \in SocketValue
         /\ shutDown(c, s).wire = s.wire /\ shutDownIfDue(c, s).wire = s.wire
         /\ SameInput(shutDown(c, s), s) /\ SameInput(shutDownIfDue(c, s), s)
<1>1. shutDown(c, s) \in SocketValue /\ shutDown(c, s).wire = s.wire /\ SameInput(shutDown(c, s), s)
  BY DEF shutDown, SocketValue, SameInput
<1>2. shutDownIfDue(c, s) \in {s, shutDown(c, s)}
  BY DEF shutDownIfDue
<1>3. SameInput(s, s)
  BY DEF SameInput
<1>4. QED
  BY <1>1, <1>2, <1>3

\* What is queued in the loop by the connection's own steps.
Queues(names) ==
    \/ pendingFunctors_' = pendingFunctors_
    \/ \E name \in names : pendingFunctors_' = Append(pendingFunctors_, Run(name))

KeepsReading ==
    /\ channel.index = kAdded /\ kReadEvent \subseteq channel.events =>
          channel'.index = kAdded /\ kReadEvent \subseteq channel'.events
    /\ WritesBuffered => WritesBuffered'

LEMMA SendEffect ==
  ASSUME TypeOK, NEW byte \in 0..MaxSends, sendInLoop(byte)
  PROVE  /\ channel' \in ChannelValue /\ outputBuffer_' \in Seq(0..MaxSends)
         /\ socket' \in SocketValue /\ killed' \in BOOLEAN
         /\ SameInput(socket', socket) /\ socket'.wrShut = socket.wrShut
         /\ Queues({"writeCompleteCallback", "highWaterMarkCallback"})
         /\ KeepsReading
         /\ channel.index = kAdded => channel'.index = kAdded
         /\ \/ outputBuffer_' = outputBuffer_ /\ socket'.wire = socket.wire
            \/ outputBuffer_' = outputBuffer_ /\ socket'.wire = Append(socket.wire, byte)
            \/ outputBuffer_' = Append(outputBuffer_, byte) /\ socket'.wire = socket.wire
<1>1. /\ channel \in ChannelValue /\ outputBuffer_ \in Seq(0..MaxSends) /\ killed \in BOOLEAN
      /\ socket \in SocketValue
  BY DEF TypeOK, SocketValue
<1>2. CASE UNCHANGED <<channel, outputBuffer_, pendingFunctors_, socket, killed>>
  BY <1>1, <1>2 DEF Queues, KeepsReading, WritesBuffered, SameInput
<1>3. ASSUME /\ socket' = [socket EXCEPT !.wire = Append(socket.wire, byte)]
             /\ pendingFunctors_' = Append(pendingFunctors_, Run("writeCompleteCallback"))
             /\ UNCHANGED <<channel, outputBuffer_, killed>>
      PROVE  /\ socket' \in SocketValue /\ SameInput(socket', socket)
             /\ socket'.wrShut = socket.wrShut
             /\ socket'.wire = Append(socket.wire, byte)
             /\ Queues({"writeCompleteCallback", "highWaterMarkCallback"})
             /\ KeepsReading
  <2>1. Append(socket.wire, byte) \in Seq(0..MaxSends)
    BY <1>1 DEF SocketValue
  <2>2. /\ socket' \in SocketValue /\ SameInput(socket', socket)
        /\ socket'.wrShut = socket.wrShut /\ socket'.wire = Append(socket.wire, byte)
    BY <1>1, <1>3, <2>1 DEF SocketValue, SameInput
  <2>3. Queues({"writeCompleteCallback", "highWaterMarkCallback"})
    BY <1>3 DEF Queues
  <2>4. KeepsReading
    BY <1>3 DEF KeepsReading, WritesBuffered
  <2>5. QED
    BY <2>2, <2>3, <2>4
<1>4. ASSUME NEW direct \in BOOLEAN,
             killed' = (direct /\ RaisesSigpipe),
             socket' = [socket EXCEPT !.err = socket.err /\ ~direct]
      PROVE  /\ socket' \in SocketValue /\ SameInput(socket', socket) /\ killed' \in BOOLEAN
             /\ socket'.wrShut = socket.wrShut /\ socket'.wire = socket.wire
  <2>1. (socket.err /\ ~direct) \in BOOLEAN /\ (direct /\ RaisesSigpipe) \in BOOLEAN
    OBVIOUS
  <2>2. QED
    BY <1>1, <1>4, <2>1 DEF SocketValue, SameInput
<1>5. ASSUME keeps(byte)
      PROVE  /\ channel' \in ChannelValue /\ outputBuffer_' \in Seq(0..MaxSends)
             /\ outputBuffer_' = Append(outputBuffer_, byte)
             /\ Queues({"writeCompleteCallback", "highWaterMarkCallback"})
             /\ KeepsReading
             /\ channel.index = kAdded => channel'.index = kAdded
  <2>1. /\ outputBuffer_' = Append(outputBuffer_, byte) /\ channel' = askedToWrite(channel)
        /\ \/ pendingFunctors_' = pendingFunctors_
           \/ pendingFunctors_' = Append(pendingFunctors_, Run("highWaterMarkCallback"))
    BY <1>5 DEF keeps
  <2>2. outputBuffer_' \in Seq(0..MaxSends) /\ outputBuffer_' # <<>>
    BY <1>1, <2>1
  <2>3. /\ channel' \in ChannelValue /\ isWriting(channel')
        /\ kReadEvent \subseteq channel.events => kReadEvent \subseteq channel'.events
        /\ channel.index = kAdded => channel'.index = kAdded
    BY <1>1, <2>1, ChannelOps
  <2>4. WritesBuffered'
    BY <2>2, <2>3 DEF WritesBuffered
  <2>5. QED
    BY <2>1, <2>2, <2>3, <2>4 DEF Queues, KeepsReading
<1>6. CASE state_ = "kDisconnected"
  BY <1>1, <1>2, <1>6 DEF sendInLoop
<1>7. CASE state_ # "kDisconnected"
  <2>1. PICK direct \in directWrites :
           IF direct /\ ~WriteBroken /\ Space > 0
             THEN /\ socket' = [socket EXCEPT !.wire = Append(socket.wire, byte)]
                  /\ pendingFunctors_' = Append(pendingFunctors_, Run("writeCompleteCallback"))
                  /\ UNCHANGED <<channel, outputBuffer_, killed>>
             ELSE /\ killed' = (direct /\ RaisesSigpipe)
                  /\ socket' = [socket EXCEPT !.err = socket.err /\ ~direct]
                  /\ IF direct /\ WriteBroken
                       THEN UNCHANGED <<channel, outputBuffer_, pendingFunctors_>>
                       ELSE keeps(byte)
    BY <1>7 DEF sendInLoop
  <2>2. direct \in BOOLEAN
    BY DEF directWrites
  <2>3. CASE direct /\ ~WriteBroken /\ Space > 0
    BY <1>1, <1>3, <2>1, <2>3
  <2>4. CASE ~(direct /\ ~WriteBroken /\ Space > 0) /\ direct /\ WriteBroken
    <3>1. UNCHANGED <<channel, outputBuffer_, pendingFunctors_>>
      BY <2>1, <2>4
    <3>2. Queues({"writeCompleteCallback", "highWaterMarkCallback"}) /\ KeepsReading
      BY <3>1 DEF Queues, KeepsReading, WritesBuffered
    <3>3. QED
      BY <1>1, <1>4, <2>1, <2>2, <2>4, <3>1, <3>2
  <2>5. CASE ~(direct /\ ~WriteBroken /\ Space > 0) /\ ~(direct /\ WriteBroken)
    BY <1>4, <1>5, <2>1, <2>2, <2>5
  <2>6. QED
    BY <2>3, <2>4, <2>5
<1>8. QED
  BY <1>6, <1>7

LEMMA SplitOf ==
  ASSUME NEW S, NEW q \in Seq(S), NEW n \in 0..Len(q)
  PROVE  /\ Len(q) \in Nat
         /\ SubSeq(q, 1, n) \in Seq(S) /\ Len(SubSeq(q, 1, n)) = n
         /\ \A i \in 1..n : SubSeq(q, 1, n)[i] = q[i]
         /\ SubSeq(q, n + 1, Len(q)) \in Seq(S) /\ Len(SubSeq(q, n + 1, Len(q))) = Len(q) - n
         /\ \A i \in 1..(Len(q) - n) : SubSeq(q, n + 1, Len(q))[i] = q[n + i]
<1>1. Len(q) \in Nat /\ n \in Int /\ n + 1 \in Int /\ Len(q) \in Int /\ 1 \in Int
      /\ DOMAIN q = 1..Len(q) /\ \A i \in 1..Len(q) : q[i] \in S
  OBVIOUS
<1>2. (\A i \in 1..n : q[i] \in S) /\ \A i \in (n + 1)..Len(q) : q[i] \in S
  BY <1>1
<1>3. /\ SubSeq(q, 1, n) \in Seq(S)
      /\ Len(SubSeq(q, 1, n)) = IF 1 <= n THEN n - 1 + 1 ELSE 0
      /\ \A i \in 1..(n - 1 + 1) : SubSeq(q, 1, n)[i] = q[1 + i - 1]
  BY <1>1, <1>2, SubSeqProperties
<1>4. /\ SubSeq(q, n + 1, Len(q)) \in Seq(S)
      /\ Len(SubSeq(q, n + 1, Len(q))) =
            IF n + 1 <= Len(q) THEN Len(q) - (n + 1) + 1 ELSE 0
      /\ \A i \in 1..(Len(q) - (n + 1) + 1) : SubSeq(q, n + 1, Len(q))[i] = q[n + 1 + i - 1]
  BY <1>1, <1>2, SubSeqProperties
<1>5. /\ n - 1 + 1 = n /\ Len(q) - (n + 1) + 1 = Len(q) - n
      /\ \A i \in 1..n : 1 + i - 1 = i
      /\ \A i \in 1..(Len(q) - n) : n + 1 + i - 1 = n + i
  BY <1>1
<1>6. (IF 1 <= n THEN n ELSE 0) = n
  OBVIOUS
<1>7. (IF n + 1 <= Len(q) THEN Len(q) - n ELSE 0) = Len(q) - n
  <2>1. \A l \in Nat : n <= l => (IF n + 1 <= l THEN l - n ELSE 0) = l - n
    OBVIOUS
  <2>2. Len(q) \in Nat /\ n <= Len(q)
    OBVIOUS
  <2>3. QED
    BY <2>1, <2>2
<1>8. QED
  BY <1>1, <1>3, <1>4, <1>5, <1>6, <1>7

\* The bytes that go out in a handleWrite are the first n of the buffer.
Writes(n) ==
    /\ outputBuffer_' = SubSeq(outputBuffer_, n + 1, Len(outputBuffer_))
    /\ socket'.wire = socket.wire \o SubSeq(outputBuffer_, 1, n)

LEMMA WriteEffect ==
  ASSUME TypeOK, handleWrite
  PROVE  /\ channel' \in ChannelValue /\ outputBuffer_' \in Seq(0..MaxSends)
         /\ socket' \in SocketValue /\ killed' \in BOOLEAN
         /\ SameInput(socket', socket)
         /\ Queues({"writeCompleteCallback"})
         /\ KeepsReading
         /\ \E n \in 0..Len(outputBuffer_) : Writes(n)
<1>1. /\ channel \in ChannelValue /\ outputBuffer_ \in Seq(0..MaxSends) /\ killed \in BOOLEAN
      /\ socket \in SocketValue /\ Len(outputBuffer_) \in Nat
  BY DEF TypeOK, SocketValue
<1>2. /\ SubSeq(outputBuffer_, 1, Len(outputBuffer_)) = outputBuffer_
      /\ SubSeq(outputBuffer_, 1, 0) = <<>>
      /\ 0 + 1 = 1 /\ socket.wire \o <<>> = socket.wire
  BY <1>1 DEF SocketValue
<1>3. ASSUME UNCHANGED <<outputBuffer_, socket>>
      PROVE  Writes(0)
  BY <1>1, <1>2, <1>3 DEF Writes
<1>4. CASE \E n \in 1..Len(outputBuffer_) : isWriting(channel) /\ writesSome(n) /\ UNCHANGED killed
  <2>1. PICK n \in 1..Len(outputBuffer_) : isWriting(channel) /\ writesSome(n) /\ UNCHANGED killed
    BY <1>4
  <2> DEFINE out == SubSeq(outputBuffer_, 1, n)
             onWire == [socket EXCEPT !.wire = socket.wire \o out]
  <2>2. /\ out \in Seq(0..MaxSends)
        /\ unwritten(n) \in Seq(0..MaxSends)
    <3>1. n \in 0..Len(outputBuffer_)
      OBVIOUS
    <3>2. QED
      BY <1>1, <3>1, SplitOf DEF unwritten
  <2> HIDE DEF out
  <2>3. socket.wire \o out \in Seq(0..MaxSends)
    BY <1>1, <2>2 DEF SocketValue
  <2>4. /\ onWire \in SocketValue /\ onWire.wire = socket.wire \o out
        /\ SameInput(onWire, socket)
    BY <1>1, <2>3 DEF SocketValue, SameInput
  <2> HIDE DEF onWire
  <2>5. /\ outputBuffer_' = unwritten(n)
        /\ IF unwritten(n) # <<>>
             THEN /\ socket' = onWire
                  /\ UNCHANGED <<channel, pendingFunctors_>>
             ELSE /\ channel' = updated(writingDisabled(channel))
                  /\ pendingFunctors_' = Append(pendingFunctors_, Run("writeCompleteCallback"))
                  /\ socket' = shutDownIfDue(channel', onWire)
    BY <2>1 DEF writesSome, onWire, out
  <2>6. CASE unwritten(n) # <<>>
    <3>1. UNCHANGED <<channel, pendingFunctors_>> /\ socket' = onWire /\ outputBuffer_' # <<>>
      BY <2>5, <2>6
    <3>2. KeepsReading /\ Queues({"writeCompleteCallback"})
      BY <2>1, <3>1 DEF KeepsReading, Queues, WritesBuffered
    <3>3. Writes(n)
      BY <2>4, <2>5, <3>1 DEF Writes, unwritten, out
    <3>4. QED
      BY <1>1, <2>1, <2>2, <2>4, <2>5, <3>1, <3>2, <3>3
  <2>7. CASE unwritten(n) = <<>>
    <3>1. /\ channel' = updated(writingDisabled(channel)) /\ outputBuffer_' = <<>>
          /\ pendingFunctors_' = Append(pendingFunctors_, Run("writeCompleteCallback"))
          /\ socket' = shutDownIfDue(channel', onWire)
      BY <2>5, <2>7
    <3>2. /\ channel' \in ChannelValue /\ ~isWriting(channel')
          /\ kReadEvent \subseteq channel.events =>
                channel'.index = kAdded /\ kReadEvent \subseteq channel'.events
      BY <1>1, <3>1, ChannelOps
    <3>3. KeepsReading /\ Queues({"writeCompleteCallback"})
      BY <3>1, <3>2 DEF KeepsReading, Queues, WritesBuffered
    <3>4. socket' \in SocketValue /\ socket'.wire = onWire.wire /\ SameInput(socket', onWire)
      BY <2>4, <3>1, ShutDownOf
    <3>5. SameInput(socket', socket)
      BY <2>4, <3>4 DEF SameInput
    <3>6. Writes(n)
      BY <2>4, <2>5, <3>4 DEF Writes, unwritten, out
    <3>7. QED
      BY <1>1, <2>1, <2>2, <2>5, <3>2, <3>3, <3>4, <3>5, <3>6
  <2>8. QED
    BY <2>6, <2>7
<1>5. CASE /\ socket' = [socket EXCEPT !.err = FALSE]
           /\ killed' = RaisesSigpipe
           /\ UNCHANGED <<channel, outputBuffer_, pendingFunctors_>>
  <2>1. /\ socket' \in SocketValue /\ SameInput(socket', socket) /\ socket'.wire = socket.wire
    BY <1>1, <1>5 DEF SocketValue, SameInput
  <2>2. killed' \in BOOLEAN
    BY <1>5 DEF RaisesSigpipe
  <2>3. KeepsReading /\ Queues({"writeCompleteCallback"})
    BY <1>5 DEF KeepsReading, Queues, WritesBuffered
  <2>4. Writes(0)
    BY <1>1, <1>2, <1>5, <2>1 DEF Writes
  <2>5. QED
    BY <1>1, <1>5, <2>1, <2>2, <2>3, <2>4
<1>6. CASE UNCHANGED <<channel, outputBuffer_, pendingFunctors_, socket, killed>>
  <2>1. KeepsReading /\ Queues({"writeCompleteCallback"}) /\ SameInput(socket', socket)
    BY <1>6 DEF KeepsReading, Queues, WritesBuffered, SameInput
  <2>2. QED
    BY <1>1, <1>3, <1>6, <2>1
<1>7. QED
  BY <1>4, <1>5, <1>6 DEF handleWrite

-----------------------------------------------------------------------------
(***************************************************************************)
(* Tracing bytes to messages.                                              *)
(***************************************************************************)

\* The messages that a step hands over, drops or stops waiting for leave the
\* bytes already traced where they are.
LEMMA TracedGrows ==
  ASSUME NEW wire, NEW buffer, NEW n, NEW waiting, NEW m, NEW others,
         1..n \ waiting \subseteq 1..m \ others, Traced(wire, buffer, n, waiting)
  PROVE  Traced(wire, buffer, m, others)
<1>1. PICK f \in [1..Len(wire) -> 1..n \ waiting], g \in [1..Len(buffer) -> 1..n \ waiting] :
         Traces(wire, buffer, f, g)
  BY DEF Traced
<1>2. /\ f \in [1..Len(wire) -> 1..m \ others]
      /\ g \in [1..Len(buffer) -> 1..m \ others]
  OBVIOUS
<1>3. QED
  BY <1>1, <1>2 DEF Traced

\* A byte of a message that no other byte is traced to.
LEMMA TracedAppend ==
  ASSUME NEW S, NEW wire \in Seq(S), NEW buffer \in Seq(S), NEW n, NEW waiting,
         NEW m, NEW others, NEW msg \in 1..m \ others, msg \notin 1..n \ waiting,
         1..n \ waiting \subseteq 1..m \ others,
         NEW byte \in S, byte \in {msg, Garbage},
         Traced(wire, buffer, n, waiting)
  PROVE  /\ Traced(Append(wire, byte), buffer, m, others)
         /\ Traced(wire, Append(buffer, byte), m, others)
<1> DEFINE V == 1..n \ waiting
           U == 1..m \ others
<1>1. PICK f \in [1..Len(wire) -> V], g \in [1..Len(buffer) -> V] :
         Traces(wire, buffer, f, g)
  BY DEF Traced
<1>2. /\ Len(wire) \in Nat /\ Len(buffer) \in Nat
      /\ Len(Append(wire, byte)) = Len(wire) + 1
      /\ Len(Append(buffer, byte)) = Len(buffer) + 1
      /\ \A i \in 1..Len(wire) : Append(wire, byte)[i] = wire[i]
      /\ \A i \in 1..Len(buffer) : Append(buffer, byte)[i] = buffer[i]
      /\ Append(wire, byte)[Len(wire) + 1] = byte
      /\ Append(buffer, byte)[Len(buffer) + 1] = byte
  OBVIOUS
<1>3. V \cup {msg} \subseteq U /\ msg \notin V
  OBVIOUS
<1>4. f \in [1..Len(wire) -> U] /\ g \in [1..Len(buffer) -> U]
  BY <1>3
<1>5. /\ DOMAIN f = 1..Len(wire) /\ DOMAIN g = 1..Len(buffer)
      /\ \A i \in DOMAIN f : f[i] \in V
      /\ \A i \in DOMAIN g : g[i] \in V
  OBVIOUS
<1>6. /\ \A i \in 1..(Len(wire) + 1) : i \in 1..Len(wire) \/ i = Len(wire) + 1
      /\ \A i \in 1..(Len(buffer) + 1) : i \in 1..Len(buffer) \/ i = Len(buffer) + 1
  <2>1. \A l \in Nat : \A i \in 1..(l + 1) : i \in 1..l \/ i = l + 1
    OBVIOUS
  <2>2. Len(wire) \in Nat /\ Len(buffer) \in Nat
    OBVIOUS
  <2>3. QED
    BY <2>1, <2>2
<1> HIDE DEF V, U
<1>7. Len(wire) \in Nat /\ Len(buffer) \in Nat
  OBVIOUS
<1>8. Traced(Append(wire, byte), buffer, m, others)
  <2> DEFINE k == Len(wire)
             h == [i \in 1..(k + 1) |-> IF i \in 1..k THEN f[i] ELSE msg]
  <2>1. /\ k \in Nat /\ k + 1 \notin 1..k /\ k + 1 \in 1..(k + 1) /\ 1..k \subseteq 1..(k + 1)
        /\ \A i \in 1..(k + 1) : i \in 1..k \/ i = k + 1
    OBVIOUS
  <2>2. /\ f \in [1..k -> V] /\ msg \notin V
        /\ \A i, j \in 1..k : f[i] = f[j] => i = j
    BY <1>1, <1>3, <1>5 DEF Traces, Injective
  <2> HIDE DEF k
  <2>3. h \in [1..(k + 1) -> V \cup {msg}] /\ (\A i \in 1..k : h[i] = f[i]) /\ h[k + 1] = msg
    BY <2>1, <2>2
  <2>4. Injective(h)
    <3>1. ASSUME NEW i \in 1..(k + 1), NEW j \in 1..(k + 1), h[i] = h[j] PROVE i = j
      <4>1. CASE i \in 1..k /\ j \in 1..k
        BY <2>2, <2>3, <3>1, <4>1
      <4>2. CASE i = k + 1 \/ j = k + 1
        BY <2>1, <2>2, <2>3, <3>1, <4>2
      <4>3. QED
        BY <2>1, <4>1, <4>2
    <3>2. DOMAIN h = 1..(k + 1)
      OBVIOUS
    <3>3. QED
      BY <3>1, <3>2 DEF Injective
  <2> HIDE DEF h
  <2>5. /\ h \in [1..(Len(wire) + 1) -> V \cup {msg}] /\ Injective(h)
        /\ \A i \in 1..Len(wire) : h[i] = f[i]
        /\ h[Len(wire) + 1] = msg
    BY <2>3, <2>4 DEF k
  <2>6. h \in [1..Len(Append(wire, byte)) -> U] /\ DOMAIN h = 1..(Len(wire) + 1)
    BY <1>2, <1>3, <2>5
  <2>7. \A i \in DOMAIN h, j \in DOMAIN g : h[i] # g[j]
    BY <1>1, <1>3, <1>5, <1>6, <2>5, <2>6 DEF Traces
  <2>8. \A i \in 1..Len(Append(wire, byte)) : Append(wire, byte)[i] \in {h[i], Garbage}
    BY <1>1, <1>2, <1>6, <2>5 DEF Traces
  <2>9. Traces(Append(wire, byte), buffer, h, g)
    BY <1>1, <2>5, <2>7, <2>8 DEF Traces
  <2>10. QED
    BY <1>4, <2>6, <2>9 DEF Traced, U
<1>9. Traced(wire, Append(buffer, byte), m, others)
  <2> DEFINE k == Len(buffer)
             h == [i \in 1..(k + 1) |-> IF i \in 1..k THEN g[i] ELSE msg]
  <2>1. /\ k \in Nat /\ k + 1 \notin 1..k /\ k + 1 \in 1..(k + 1) /\ 1..k \subseteq 1..(k + 1)
        /\ \A i \in 1..(k + 1) : i \in 1..k \/ i = k + 1
    OBVIOUS
  <2>2. /\ g \in [1..k -> V] /\ msg \notin V
        /\ \A i, j \in 1..k : g[i] = g[j] => i = j
    BY <1>1, <1>3, <1>5 DEF Traces, Injective
  <2> HIDE DEF k
  <2>3. h \in [1..(k + 1) -> V \cup {msg}] /\ (\A i \in 1..k : h[i] = g[i]) /\ h[k + 1] = msg
    BY <2>1, <2>2
  <2>4. Injective(h)
    <3>1. ASSUME NEW i \in 1..(k + 1), NEW j \in 1..(k + 1), h[i] = h[j] PROVE i = j
      <4>1. CASE i \in 1..k /\ j \in 1..k
        BY <2>2, <2>3, <3>1, <4>1
      <4>2. CASE i = k + 1 \/ j = k + 1
        BY <2>1, <2>2, <2>3, <3>1, <4>2
      <4>3. QED
        BY <2>1, <4>1, <4>2
    <3>2. DOMAIN h = 1..(k + 1)
      OBVIOUS
    <3>3. QED
      BY <3>1, <3>2 DEF Injective
  <2> HIDE DEF h
  <2>5. /\ h \in [1..(Len(buffer) + 1) -> V \cup {msg}] /\ Injective(h)
        /\ \A i \in 1..Len(buffer) : h[i] = g[i]
        /\ h[Len(buffer) + 1] = msg
    BY <2>3, <2>4 DEF k
  <2>6. h \in [1..Len(Append(buffer, byte)) -> U] /\ DOMAIN h = 1..(Len(buffer) + 1)
    BY <1>2, <1>3, <2>5
  <2>7. \A i \in DOMAIN f, j \in DOMAIN h : f[i] # h[j]
    BY <1>1, <1>3, <1>5, <1>6, <2>5, <2>6 DEF Traces
  <2>8. \A i \in 1..Len(Append(buffer, byte)) : Append(buffer, byte)[i] \in {h[i], Garbage}
    BY <1>1, <1>2, <1>6, <2>5 DEF Traces
  <2>9. Traces(wire, Append(buffer, byte), f, h)
    BY <1>1, <2>5, <2>7, <2>8 DEF Traces
  <2>10. QED
    BY <1>4, <2>6, <2>9 DEF Traced, U
<1>10. QED
  BY <1>8, <1>9

\* Bytes that go from the buffer to the wire.
LEMMA TracedWrite ==
  ASSUME NEW S, NEW wire \in Seq(S), NEW buffer \in Seq(S), NEW k \in 0..Len(buffer),
         NEW n, NEW waiting, Traced(wire, buffer, n, waiting)
  PROVE  Traced(wire \o SubSeq(buffer, 1, k), SubSeq(buffer, k + 1, Len(buffer)), n, waiting)
<1> DEFINE T == 1..n \ waiting
           out == SubSeq(buffer, 1, k)
           rest == SubSeq(buffer, k + 1, Len(buffer))
           a == Len(wire)
           b == Len(buffer)
<1>1. PICK f \in [1..a -> T], g \in [1..b -> T] : Traces(wire, buffer, f, g)
  BY DEF Traced
<1>2. /\ b \in Nat /\ out \in Seq(S) /\ Len(out) = k
      /\ \A i \in 1..k : out[i] = buffer[i]
      /\ rest \in Seq(S) /\ Len(rest) = b - k
      /\ \A i \in 1..(b - k) : rest[i] = buffer[k + i]
  <2>1. /\ Len(buffer) \in Nat /\ out \in Seq(S) /\ Len(out) = k
        /\ rest \in Seq(S) /\ Len(rest) = Len(buffer) - k
    BY SplitOf
  <2>2. \A i \in 1..k : out[i] = buffer[i]
    BY SplitOf
  <2>3. \A i \in 1..(Len(buffer) - k) : rest[i] = buffer[k + i]
    BY SplitOf
  <2>4. QED
    BY <2>1, <2>2, <2>3
<1> HIDE DEF out, rest
<1>3. /\ a \in Nat /\ Len(wire \o out) = a + k
      /\ \A i \in 1..a : (wire \o out)[i] = wire[i]
      /\ \A i \in 1..k : (wire \o out)[a + i] = out[i]
  <2>1. DOMAIN wire = 1..a /\ DOMAIN out = 1..k /\ a \in Nat
    BY <1>2
  <2>2. /\ Len(wire \o out) = Len(wire) + Len(out)
        /\ \A i \in DOMAIN wire : (wire \o out)[i] = wire[i]
        /\ \A i \in DOMAIN out : (wire \o out)[Len(wire) + i] = out[i]
    <3>1. out \in Seq(S)
      BY <1>2
    <3>2. QED
      BY <3>1, ConcatOf
  <2>3. QED
    BY <1>2, <2>1, <2>2
<1>4. /\ k \in Nat /\ k <= b
      /\ \A i \in 1..(a + k) : i \in 1..a \/ (i \notin 1..a /\ i - a \in 1..k /\ i - a \in 1..b)
      /\ \A i \in 1..(b - k) : i + k \in 1..b /\ k + i = i + k /\ i + k \notin 1..k
      /\ \A i \in 1..(a + k), j \in 1..(a + k) : i - a = j - a => i = j
      /\ \A i \in 1..(b - k), j \in 1..(b - k) : i + k = j + k => i = j
      /\ \A i \in 1..(a + k) : a + (i - a) = i
  BY <1>2, <1>3
<1> HIDE DEF a, b, T
<1> DEFINE h == [i \in 1..(a + k) |-> IF i \in 1..a THEN f[i] ELSE g[i - a]]
           r == [i \in 1..(b - k) |-> g[i + k]]
<1>5. h \in [1..(a + k) -> T] /\ r \in [1..(b - k) -> T]
  BY <1>4
<1>6. /\ \A i \in 1..(a + k) : \/ i \in 1..a /\ h[i] = f[i]
                               \/ i - a \in 1..k /\ i - a \in 1..b /\ h[i] = g[i - a]
      /\ \A i \in 1..(b - k) : r[i] = g[i + k]
      /\ DOMAIN h = 1..(a + k) /\ DOMAIN r = 1..(b - k)
  BY <1>4
<1>7. /\ \A i, j \in 1..a : f[i] = f[j] => i = j
      /\ \A i, j \in 1..b : g[i] = g[j] => i = j
      /\ \A i \in 1..a, j \in 1..b : f[i] # g[j]
      /\ \A i \in 1..a : wire[i] \in {f[i], Garbage}
      /\ \A i \in 1..b : buffer[i] \in {g[i], Garbage}
  BY <1>1 DEF Traces, Injective, a, b
<1> HIDE DEF h, r
<1>8. Injective(h)
  BY <1>4, <1>6, <1>7 DEF Injective
<1>9. Injective(r)
  BY <1>4, <1>6, <1>7 DEF Injective
<1>10. \A i \in DOMAIN h, j \in DOMAIN r : h[i] # r[j]
  BY <1>4, <1>6, <1>7
<1>11. \A i \in 1..(a + k) : (wire \o out)[i] \in {h[i], Garbage}
  <2> SUFFICES ASSUME NEW i \in 1..(a + k) PROVE (wire \o out)[i] \in {h[i], Garbage}
    OBVIOUS
  <2>1. CASE i \in 1..a /\ h[i] = f[i]
    BY <1>3, <1>7, <2>1
  <2>2. CASE i - a \in 1..k /\ i - a \in 1..b /\ h[i] = g[i - a]
    <3>1. (wire \o out)[i] = buffer[i - a]
      BY <1>2, <1>3, <1>4, <2>2
    <3>2. QED
      BY <1>7, <2>2, <3>1
  <2>3. QED
    BY <1>6, <2>1, <2>2
<1>12. \A i \in 1..(b - k) : rest[i] \in {r[i], Garbage}
  BY <1>2, <1>4, <1>6, <1>7
<1>13. Traces(wire \o out, rest, h, r)
  BY <1>2, <1>3, <1>8, <1>9, <1>10, <1>11, <1>12 DEF Traces
<1>14. Traced(wire \o out, rest, n, waiting)
  BY <1>2, <1>3, <1>5, <1>13 DEF Traced, T
<1>15. QED
  BY <1>14 DEF out, rest, b

\* There are no more bytes than messages.
LEMMA TracedLen ==
  ASSUME NEW S, NEW wire \in Seq(S), NEW buffer, NEW n \in Nat, NEW waiting,
         Traced(wire, buffer, n, waiting)
  PROVE  Len(wire) <= n
<1>1. PICK f \in [1..Len(wire) -> 1..n \ waiting] : Injective(f)
  BY DEF Traced, Traces
<1>2. f \in Injection(1..Len(wire), 1..n)
  <2>1. f \in [1..Len(wire) -> 1..n]
    OBVIOUS
  <2>2. QED
    BY <1>1, <2>1 DEF Injection, IsInjective, Injective
<1>3. IsFiniteSet(1..n) /\ Cardinality(1..n) = n
  <2>1. 1 \in Int /\ n \in Int
    OBVIOUS
  <2>2. QED
    BY <2>1, FS_Interval
<1>4. Cardinality(1..Len(wire)) = Len(wire)
  <2>1. \A l \in Nat : Cardinality(1..l) = l
    <3> SUFFICES ASSUME NEW l \in Nat PROVE Cardinality(1..l) = l
      OBVIOUS
    <3>1. 1 \in Int /\ l \in Int
      OBVIOUS
    <3>2. QED
      BY <3>1, FS_Interval
  <2>2. QED
    BY <2>1
<1>5. QED
  BY <1>2, <1>3, <1>4, FS_Injection

\* No two bytes of a traced stream are bytes of one message.
LEMMA TracedOnce ==
  ASSUME NEW S, NEW wire \in Seq(S), NEW buffer \in Seq(S), NEW n, NEW waiting,
         Traced(wire, buffer, n, waiting)
  PROVE  LET stream == wire \o buffer
         IN  \A i, j \in DOMAIN stream :
                i # j /\ stream[i] # Garbage => stream[i] # stream[j]
<1>1. PICK f \in [1..Len(wire) -> 1..n \ waiting], g \in [1..Len(buffer) -> 1..n \ waiting] :
         Traces(wire, buffer, f, g)
  BY DEF Traced
<1> DEFINE stream == wire \o buffer
<1>2. \A i \in DOMAIN stream :
         \/ i \in DOMAIN f /\ stream[i] \in {f[i], Garbage}
         \/ i - Len(wire) \in DOMAIN g /\ stream[i] \in {g[i - Len(wire)], Garbage}
  BY <1>1, ConcatOf DEF Traces
<1>3. \A i, j \in DOMAIN stream : i - Len(wire) = j - Len(wire) => i = j
  BY ConcatOf
<1> HIDE DEF stream
<1>4. \A i, j \in DOMAIN stream : i # j /\ stream[i] # Garbage => stream[i] # stream[j]
  BY <1>1, <1>2, <1>3 DEF Traces, Injective
<1>5. QED
  BY <1>4 DEF stream

-----------------------------------------------------------------------------
(***************************************************************************)
(* What a step does to the two queues.                                     *)
(***************************************************************************)
Short == Simple \ {"connectEstablished"}
Shorts ==
    {<<>>} \cup {<<Run(a)>> : a \in Short} \cup {<<Run(a), Run(b)>> : a \in Short, b \in Short}

\* The next call of the agenda is replaced by at most two.
Takes == agenda # <<>> /\ \E next \in Shorts : agenda' = next \o Tail(agenda)

\* What is queued, messages apart.
Queued == (Counted \ {"connectEstablished"}) \cup {"shutdownInLoop"}

LEMMA ShortsOf ==
  ASSUME NEW next \in Shorts
  PROVE  /\ next \in Seq(Entries) /\ Names(next) \subseteq Short /\ Numbers(next) = {}
         /\ \A name : name \notin Short => OnceIn(next, name)
         /\ DistinctIn(next)
<1>1. CASE next = <<>>
  BY <1>1, NamesShort, OnceShort
<1>2. ASSUME NEW a \in Short, next = <<Run(a)>>
      PROVE  /\ next \in Seq(Entries) /\ Names(next) \subseteq Short /\ Numbers(next) = {}
             /\ \A name : name \notin Short => OnceIn(next, name)
             /\ DistinctIn(next)
  <2>1. Run(a) \in Entries /\ Run(a)[1] = a /\ a # "sendInLoop"
    BY EntriesOf DEF Short, Simple, UserCallback, Counted, Handlers
  <2>2. next \in Seq(Entries)
    BY <1>2, <2>1
  <2>3. Names(next) = {a} /\ Numbers(next) = {}
    BY <1>2, <2>1, NamesShort
  <2>4. QED
    BY <1>2, <2>2, <2>3, OnceShort
<1>3. ASSUME NEW a \in Short, NEW b \in Short, next = <<Run(a), Run(b)>>
      PROVE  /\ next \in Seq(Entries) /\ Names(next) \subseteq Short /\ Numbers(next) = {}
             /\ \A name : name \notin Short => OnceIn(next, name)
             /\ DistinctIn(next)
  <2>1. /\ Run(a) \in Entries /\ Run(a)[1] = a /\ a # "sendInLoop"
        /\ Run(b) \in Entries /\ Run(b)[1] = b /\ b # "sendInLoop"
    BY EntriesOf DEF Short, Simple, UserCallback, Counted, Handlers
  <2>2. next \in Seq(Entries)
    BY <1>3, <2>1
  <2>3. Names(next) = {a, b} /\ Numbers(next) = {}
    BY <1>3, <2>1, NamesShort
  <2>4. \A name : name \notin Short => OnceIn(next, name)
    BY <1>3, <2>1, OnceShort
  <2>5. DistinctIn(next)
    BY <1>3, <2>1, OnceShort
  <2>6. QED
    BY <2>2, <2>3, <2>4, <2>5
<1>4. QED
  BY <1>1, <1>2, <1>3 DEF Shorts

LEMMA ShortsHas ==
  /\ <<>> \in Shorts
  /\ \A a \in Short : <<Run(a)>> \in Shorts
  /\ \A a, b \in Short : <<Run(a), Run(b)>> \in Shorts
  /\ {"connectionUp", "connectionDown", "messageCallback", "handleClose", "closeCallback",
      "disconnect", "remove", "doPendingFunctors", "endOfBatch", "connectDestroyed"}
        \subseteq Short
  /\ Queued \subseteq Short
<1>1. <<>> \in Shorts
  BY DEF Shorts
<1>2. \A a \in Short : <<Run(a)>> \in Shorts
  BY DEF Shorts
<1>3. \A a, b \in Short : <<Run(a), Run(b)>> \in Shorts
  BY DEF Shorts
<1>4. {"connectionUp", "connectionDown", "messageCallback", "handleClose", "closeCallback",
       "disconnect", "remove", "doPendingFunctors", "endOfBatch", "connectDestroyed"}
        \subseteq Short
  BY DEF Short, Simple, UserCallback, Counted, Handlers
<1>5. Queued \subseteq Short
  BY DEF Queued, Short, Simple, UserCallback, Counted, Handlers
<1>6. QED
  BY <1>1, <1>2, <1>3, <1>4, <1>5

LEMMA TakesOf ==
  ASSUME TypeOK, agenda # <<>>, NEW next \in Shorts, agenda' = next \o Tail(agenda)
  PROVE  /\ agenda' \in Seq(Entries)
         /\ Names(agenda') = Names(next) \cup Names(Tail(agenda))
         /\ Names(Tail(agenda)) \subseteq Names(agenda)
         /\ Numbers(agenda') = Numbers(Tail(agenda))
         /\ Numbers(Tail(agenda)) \subseteq Numbers(agenda)
         /\ OnceIn(agenda, "connectEstablished") => OnceIn(agenda', "connectEstablished")
         /\ DistinctIn(agenda) => DistinctIn(agenda')
         /\ next \in Seq(Entries) /\ Len(next) \in Nat
         /\ \A i \in DOMAIN agenda' :
               \/ i \in DOMAIN next /\ agenda'[i] = next[i]
               \/ /\ i - Len(next) \in DOMAIN Tail(agenda)
                  /\ agenda'[i] = Tail(agenda)[i - Len(next)]
<1>1. agenda \in Seq(Entries) /\ Tail(agenda) \in Seq(Entries)
  BY TailOf DEF TypeOK
<1>2. /\ next \in Seq(Entries) /\ Names(next) \subseteq Short /\ Numbers(next) = {}
      /\ OnceIn(next, "connectEstablished") /\ DistinctIn(next)
      /\ "connectEstablished" \notin Names(next)
  BY ShortsOf DEF Short
<1>3. /\ Names(Tail(agenda)) \subseteq Names(agenda)
      /\ Numbers(Tail(agenda)) \subseteq Numbers(agenda)
  BY <1>1, NamesTail
<1>4. /\ Names(agenda') = Names(next) \cup Names(Tail(agenda))
      /\ Numbers(agenda') = Numbers(next) \cup Numbers(Tail(agenda))
  <2>1. PICK q \in Seq(Entries) : q = Tail(agenda)
    BY <1>1
  <2>2. agenda' = next \o q
    BY <2>1
  <2>3. Names(next \o q) = Names(next) \cup Names(q) /\ Numbers(next \o q) = Numbers(next) \cup Numbers(q)
    <3>1. next \in Seq(Entries)
      BY <1>2
    <3>2. QED
      BY <3>1, NamesConcat
  <2>4. QED
    BY <2>1, <2>2, <2>3
<1>5. /\ agenda' \in Seq(Entries) /\ Len(next) \in Nat
      /\ DOMAIN next = 1..Len(next)
      /\ \A i \in DOMAIN next : agenda'[i] = next[i]
      /\ \A i \in DOMAIN agenda' :
            \/ i \in DOMAIN next
            \/ /\ i - Len(next) \in DOMAIN Tail(agenda)
               /\ agenda'[i] = Tail(agenda)[i - Len(next)]
  BY <1>1, <1>2, ConcatOf
<1>6. OnceIn(agenda, "connectEstablished") => OnceIn(agenda', "connectEstablished")
  <2>1. OnceIn(agenda, "connectEstablished") => OnceIn(Tail(agenda), "connectEstablished")
    BY <1>1, OnceTail
  <2>2. QED
    BY <1>1, <1>2, <2>1, OnceConcat
<1>7. DistinctIn(agenda) => DistinctIn(agenda')
  <2>1. DistinctIn(agenda) => DistinctIn(Tail(agenda))
    BY <1>1, OnceTail
  <2>2. Numbers(next) \cap Numbers(Tail(agenda)) = {}
    BY <1>2
  <2>3. QED
    BY <1>1, <1>2, <2>1, <2>2, OnceConcat
<1>8. QED
  BY <1>2, <1>3, <1>4, <1>5, <1>6, <1>7

\* Calls queued behind the others.
LEMMA QueuesOf ==
  ASSUME TypeOK, Queues(Queued)
  PROVE  /\ pendingFunctors_' \in Seq(Entries)
         /\ Names(pendingFunctors_') \subseteq Names(pendingFunctors_) \cup Queued
         /\ Names(pendingFunctors_) \subseteq Names(pendingFunctors_')
         /\ Numbers(pendingFunctors_') = Numbers(pendingFunctors_)
         /\ OnceIn(pendingFunctors_, "connectEstablished") =>
               OnceIn(pendingFunctors_', "connectEstablished")
         /\ DistinctIn(pendingFunctors_) => DistinctIn(pendingFunctors_')
<1>1. pendingFunctors_ \in Seq(Entries)
  BY DEF TypeOK
<1>2. CASE pendingFunctors_' = pendingFunctors_
  BY <1>1, <1>2
<1>3. ASSUME NEW name \in Queued, pendingFunctors_' = Append(pendingFunctors_, Run(name))
      PROVE  /\ pendingFunctors_' \in Seq(Entries)
             /\ Names(pendingFunctors_') = Names(pendingFunctors_) \cup {name}
             /\ Numbers(pendingFunctors_') = Numbers(pendingFunctors_)
             /\ OnceIn(pendingFunctors_, "connectEstablished") =>
                   OnceIn(pendingFunctors_', "connectEstablished")
             /\ DistinctIn(pendingFunctors_) => DistinctIn(pendingFunctors_')
  <2>1. name \in Short /\ name # "sendInLoop" /\ name # "connectEstablished"
    BY ShortsHas DEF Queued, Counted
  <2>2. Run(name) \in Entries /\ Run(name)[1] = name
    BY <2>1, EntriesOf DEF Short
  <2>3. Numbers(<<Run(name)>>) = {} /\ Names(<<Run(name)>>) = {name}
    BY <2>1, <2>2, NamesShort
  <2>4. /\ pendingFunctors_' \in Seq(Entries)
        /\ Names(pendingFunctors_') = Names(pendingFunctors_) \cup {name}
        /\ Numbers(pendingFunctors_') = Numbers(pendingFunctors_)
    <3> DEFINE new == Append(pendingFunctors_, Run(name))
    <3>1. /\ new \in Seq(Entries)
          /\ Names(new) = Names(pendingFunctors_) \cup {Run(name)[1]}
          /\ Numbers(new) = Numbers(pendingFunctors_) \cup Numbers(<<Run(name)>>)
      BY <1>1, <2>2, NamesAppend
    <3>2. pendingFunctors_' = new
      BY <1>3
    <3> HIDE DEF new
    <3>3. QED
      BY <2>2, <2>3, <3>1, <3>2
  <2>5. PICK last \in Seq(Entries) : last = <<Run(name)>>
    <3>1. \A x \in Entries : <<x>> \in Seq(Entries)
      OBVIOUS
    <3>2. QED
      BY <2>2, <3>1
  <2>6. pendingFunctors_' = pendingFunctors_ \o last
    BY <1>1, <1>3, <2>2, <2>5
  <2>7. /\ OnceIn(last, "connectEstablished") /\ DistinctIn(last)
        /\ "connectEstablished" \notin Names(last) /\ Numbers(last) = {}
    BY <2>1, <2>3, <2>5, OnceShort
  <2>8. OnceIn(pendingFunctors_, "connectEstablished") =>
           OnceIn(pendingFunctors_', "connectEstablished")
    BY <1>1, <2>6, <2>7, OnceConcat
  <2>9. DistinctIn(pendingFunctors_) => DistinctIn(pendingFunctors_')
    <3>1. Numbers(pendingFunctors_) \cap Numbers(last) = {}
      BY <2>7
    <3>2. QED
      BY <1>1, <2>6, <2>7, <3>1, OnceConcat
  <2>10. QED
    BY <2>4, <2>8, <2>9
<1>4. QED
  BY <1>2, <1>3 DEF Queues

LEMMA QueuedByte ==
  ASSUME TypeOK, queuedSend
  PROVE  /\ agenda # <<>> /\ Head(agenda)[1] = "sendInLoop" /\ Head(agenda)[2] \in 1..MaxSends
         /\ \E byte \in {Head(agenda)[2], Garbage} : byte \in 0..MaxSends /\ sendInLoop(byte)
<1>1. agenda # <<>> /\ Head(agenda)[1] = "sendInLoop"
  BY DEF queuedSend, HandlerStep, Runs
<1>2. Head(agenda) \in Entries
  BY <1>1, TailOf DEF TypeOK
<1>3. Head(agenda)[2] \in 1..MaxSends
  BY <1>1, <1>2, EntriesOf DEF Simple, UserCallback, Counted, Handlers
<1>4. MaxSends \in Nat
  BY TcpConnectionAssumption
<1>5. \A byte \in {Head(agenda)[2], Garbage} : byte \in 0..MaxSends
  BY <1>3, <1>4 DEF Garbage
<1>6. QED
  BY <1>1, <1>3, <1>5 DEF queuedSend

LEMMA CallbackByte ==
  ASSUME TypeOK, callbackSends
  PROVE  sent' = sent + 1 /\ sent' \in 0..MaxSends /\ sendInLoop(sent')
BY TcpConnectionAssumption DEF callbackSends, TypeOK

AgendaStep ==
    \/ agenda' = agenda
    \/ Takes
    \/ poll
    \/ doPendingFunctors
    \/ /\ agenda = <<>>
       /\ agenda' \in {<<>>, <<Run("connectDestroyed"), Run("endOfBatch")>>}

PendingStep ==
    \/ Queues(Queued)
    \/ doPendingFunctors
    \/ \E u \in User : sendQueues(u)

LEMMA QueueSteps == TypeOK /\ [Next]_vars => AgendaStep /\ PendingStep
<1> SUFFICES ASSUME TypeOK, [Next]_vars
             PROVE  AgendaStep /\ PendingStep
  OBVIOUS
<1>1. <<>> \o Tail(agenda) = Tail(agenda) \/ agenda = <<>>
  <2>1. agenda # <<>> => Tail(agenda) \in Seq(Entries)
    BY TailOf DEF TypeOK
  <2>2. QED
    BY <2>1
<1>2. CASE poll
  BY <1>2 DEF poll, Queues, AgendaStep, PendingStep, AgendaStep, PendingStep
<1>3. CASE doPendingFunctors
  BY <1>3 DEF AgendaStep, PendingStep
<1>4. CASE endOfBatch
  <2>1. agenda # <<>> /\ agenda' = Tail(agenda) /\ pendingFunctors_' = pendingFunctors_
    BY <1>4 DEF endOfBatch, Runs
  <2>2. QED
    BY <2>1, <1>1, ShortsHas DEF AgendaStep, PendingStep, Takes, Queues
<1>5. CASE connectEstablished
  <2>1. agenda # <<>> /\ pendingFunctors_' = pendingFunctors_
    BY <1>5 DEF connectEstablished, Runs
  <2>2. \E next \in Shorts : agenda' = next \o Tail(agenda)
    BY <1>5, ShortsHas DEF connectEstablished
  <2>3. QED
    BY <2>1, <2>2 DEF AgendaStep, PendingStep, Takes, Queues
<1>6. CASE connectDestroyed
  <2>1. agenda # <<>> /\ pendingFunctors_' = pendingFunctors_
    BY <1>6 DEF connectDestroyed, Runs
  <2>2. \E next \in Shorts : agenda' = next \o Tail(agenda)
    <3>1. CASE hasToDisconnect
      <4>1. agenda' = (<<Run("disconnect")>> \o <<Run("remove")>>) \o Tail(agenda)
        BY <1>6, <3>1 DEF connectDestroyed
      <4>2. <<Run("disconnect")>> \o <<Run("remove")>> = <<Run("disconnect"), Run("remove")>>
        BY Joins
      <4>3. <<Run("disconnect"), Run("remove")>> \in Shorts
        BY ShortsHas
      <4>4. QED
        BY <4>1, <4>2, <4>3
    <3>2. CASE ~hasToDisconnect
      <4>1. agenda' = (<<>> \o <<Run("remove")>>) \o Tail(agenda)
        BY <1>6, <3>2 DEF connectDestroyed
      <4>2. <<>> \o <<Run("remove")>> = <<Run("remove")>>
        BY Joins
      <4>3. QED
        BY <4>1, <4>2, ShortsHas
    <3>3. QED
      BY <3>1, <3>2
  <2>3. QED
    BY <2>1, <2>2 DEF AgendaStep, PendingStep, Takes, Queues
<1>7. CASE disconnect
  <2>1. agenda # <<>> /\ pendingFunctors_' = pendingFunctors_
    BY <1>7 DEF disconnect, Disconnects, Runs
  <2>2. \E next \in Shorts : agenda' = next \o Tail(agenda)
    BY <1>7, ShortsHas DEF disconnect, Disconnects
  <2>3. QED
    BY <2>1, <2>2 DEF AgendaStep, PendingStep, Takes, Queues
<1>8. CASE handleClose
  <2>1. agenda # <<>> /\ pendingFunctors_' = pendingFunctors_
    BY <1>8 DEF handleClose, Disconnects, Runs
  <2>2. \E next \in Shorts : agenda' = next \o Tail(agenda)
    BY <1>8, ShortsHas DEF handleClose, Disconnects
  <2>3. QED
    BY <2>1, <2>2 DEF AgendaStep, PendingStep, Takes, Queues
<1>9. CASE remove
  <2>1. agenda # <<>> /\ agenda' = Tail(agenda) /\ pendingFunctors_' = pendingFunctors_
    BY <1>9 DEF remove, Runs
  <2>2. QED
    BY <2>1, <1>1, ShortsHas DEF AgendaStep, PendingStep, Takes, Queues
<1>10. CASE closeCallback
  <2>1. agenda # <<>> /\ agenda' = Tail(agenda)
    BY <1>10 DEF closeCallback, Runs
  <2>2. Queues(Queued)
    BY <1>10 DEF closeCallback, Queues, Queued, Counted, afterRemoval
  <2>3. QED
    BY <2>1, <2>2, <1>1, ShortsHas DEF AgendaStep, PendingStep, Takes
<1>11. CASE handleRead
  <2>1. agenda # <<>> /\ pendingFunctors_' = pendingFunctors_
    BY <1>11 DEF handleRead, HandlerStep, Runs
  <2>2. \E next \in {<<Run("messageCallback")>>, <<Run("handleClose")>>, <<>>} :
           agenda' = next \o Tail(agenda)
    BY <1>11 DEF handleRead, HandlerStep
  <2>3. QED
    BY <2>1, <2>2, ShortsHas DEF AgendaStep, PendingStep, Takes, Queues
<1>12. CASE handleError
  <2>1. agenda # <<>> /\ pendingFunctors_' = pendingFunctors_ /\ agenda' = <<>> \o Tail(agenda)
    BY <1>12 DEF handleError, HandlerStep, Runs
  <2>2. QED
    BY <2>1, ShortsHas DEF AgendaStep, PendingStep, Takes, Queues
<1>13. CASE handleWrite
  <2>1. agenda # <<>> /\ agenda' = <<>> \o Tail(agenda)
    BY <1>13 DEF handleWrite, HandlerStep, Runs
  <2>2. Queues({"writeCompleteCallback"})
    BY <1>13, WriteEffect
  <2>3. QED
    BY <2>1, <2>2, ShortsHas DEF AgendaStep, PendingStep, Takes, Queues, Queued, Counted
<1>14. CASE queuedSend
  <2>1. agenda # <<>> /\ agenda' = <<>> \o Tail(agenda)
    BY <1>14 DEF queuedSend, HandlerStep, Runs
  <2>2. PICK byte \in 0..MaxSends : sendInLoop(byte)
    BY <1>14, QueuedByte
  <2>3. Queues({"writeCompleteCallback", "highWaterMarkCallback"})
    BY <2>2, SendEffect
  <2>4. QED
    BY <2>1, <2>3, ShortsHas DEF AgendaStep, PendingStep, Takes, Queues, Queued, Counted
<1>15. CASE queuedShutdown
  <2>1. agenda # <<>> /\ pendingFunctors_' = pendingFunctors_ /\ agenda' = <<>> \o Tail(agenda)
    BY <1>15 DEF queuedShutdown, HandlerStep, Runs
  <2>2. QED
    BY <2>1, ShortsHas DEF AgendaStep, PendingStep, Takes, Queues
<1>16. CASE callbackReturns
  <2>1. agenda # <<>> /\ agenda' = Tail(agenda) /\ pendingFunctors_' = pendingFunctors_
    BY <1>16 DEF callbackReturns, Runs, InCallback
  <2>2. QED
    BY <2>1, <1>1, ShortsHas DEF AgendaStep, PendingStep, Takes, Queues
<1>17. CASE callbackSends
  <2>1. agenda' = agenda /\ sendInLoop(sent') /\ sent' \in 0..MaxSends
    BY <1>17, CallbackByte DEF callbackSends
  <2>2. Queues({"writeCompleteCallback", "highWaterMarkCallback"})
    BY <2>1, SendEffect
  <2>3. QED
    BY <2>1, <2>2 DEF Queues, Queued, Counted, AgendaStep, PendingStep
<1>18. ASSUME NEW u \in User, sendQueues(u) PROVE AgendaStep /\ PendingStep
  BY <1>18 DEF sendQueues, loop, AgendaStep, PendingStep
<1>19. ASSUME NEW u \in User, shutdownQueues(u) PROVE AgendaStep /\ PendingStep
  BY <1>19 DEF shutdownQueues, Queues, AgendaStep, PendingStep, Queued, AgendaStep, PendingStep
<1>20. CASE removeConnectionInLoop
  BY <1>20 DEF removeConnectionInLoop, Queues, AgendaStep, PendingStep, Queued, Counted, afterRemoval, AgendaStep, PendingStep
<1>21. CASE destroyServer
  <2>1. "connectDestroyed" \in Queued
    BY DEF Queued, Counted
  <2>2. QED
    BY <1>21, <2>1 DEF destroyServer, Queues, afterRemoval, AgendaStep, PendingStep
<1>22. CASE callbackShutsDown \/ peerSends \/ peerTakes \/ peerCloses \/
           peerResets
  BY <1>22 DEF callbackShutsDown, peerSends, PeerStep, peerTakes, peerCloses,
     peerResets, Queues, AgendaStep, PendingStep, loop
<1>23. ASSUME NEW u \in User, callbackShares(u) \/ send(u) \/ shutdown(u) \/
           shutdownSets(u) \/ letsGo(u) PROVE AgendaStep /\ PendingStep
  BY <1>23 DEF callbackShares, send, goesOn, shutdown, shutdownSets, letsGo,
     Queues, AgendaStep, PendingStep, loop
<1>24. CASE UNCHANGED vars
  BY <1>24 DEF vars, loop, Queues, AgendaStep, PendingStep
<1>25. QED
  BY <1>2, <1>3, <1>4, <1>5, <1>6, <1>7, <1>8, <1>9, <1>10, <1>11, <1>12, <1>13,
     <1>14, <1>15, <1>16, <1>17, <1>18, <1>19, <1>20, <1>21, <1>22, <1>23, <1>24
     DEF Next, LoopStep, UserStep

LEMMA PollOf ==
  ASSUME poll
  PROVE  /\ agenda = <<>> /\ pendingFunctors_' = pendingFunctors_ /\ channel' = channel
         /\ \E reported : /\ "PRI" \notin reported /\ agenda' = Reports(reported)
                          /\ reported # {} => channel.index = kAdded
<1>1. PICK reported \in {revents, {}} : agenda' = Reports(reported)
  BY DEF poll, Reports
<1>2. "PRI" \notin reported
  <2>1. "PRI" \notin Ready
    BY DEF Ready
  <2>2. QED
    BY <2>1 DEF revents
<1>3. reported # {} => channel.index = kAdded
  BY DEF revents
<1>4. agenda = <<>> /\ pendingFunctors_' = pendingFunctors_ /\ channel' = channel
  BY DEF poll, connection
<1>5. QED
  BY <1>1, <1>2, <1>3, <1>4

\* The facts of a queue that a step must keep.
Kept(q, names, numbers) ==
    /\ q \in Seq(Entries)
    /\ Names(q) \subseteq names
    /\ Numbers(q) \subseteq numbers

LEMMA BatchOf ==
  ASSUME TypeOK, doPendingFunctors
  PROVE  /\ Kept(agenda', Names(pendingFunctors_) \cup {"endOfBatch"}, Numbers(pendingFunctors_))
         /\ OnceIn(pendingFunctors_, "connectEstablished") => OnceIn(agenda', "connectEstablished")
         /\ DistinctIn(pendingFunctors_) => DistinctIn(agenda')
         /\ pendingFunctors_' = <<>>
<1>1. pendingFunctors_' = <<>> /\ agenda' = pendingFunctors_ \o <<Run("endOfBatch")>>
  BY DEF doPendingFunctors
<1>2. pendingFunctors_ \in Seq(Entries)
  BY DEF TypeOK
<1>3. PICK last \in Shorts : last = <<Run("endOfBatch")>>
  BY ShortsHas
<1>4. last \in Seq(Entries) /\ Numbers(last) = {} /\ DistinctIn(last)
  BY ShortsOf
<1>5. Names(last) = {"endOfBatch"} /\ OnceIn(last, "connectEstablished")
  BY <1>3, NamesShort, OnceShort DEF Run
<1>6. agenda' = pendingFunctors_ \o last
  BY <1>1, <1>3
<1>7. pendingFunctors_ \o last \in Seq(Entries)
  BY <1>2, <1>4, ConcatOf
<1>8. /\ Names(pendingFunctors_ \o last) = Names(pendingFunctors_) \cup Names(last)
      /\ Numbers(pendingFunctors_ \o last) = Numbers(pendingFunctors_) \cup Numbers(last)
  <2>1. last \in Seq(Entries)
    BY <1>4
  <2>2. QED
    BY <1>2, <2>1, NamesConcat
<1>9. OnceIn(pendingFunctors_, "connectEstablished") =>
         OnceIn(pendingFunctors_ \o last, "connectEstablished")
  BY <1>2, <1>4, <1>5, OnceConcat
<1>10. DistinctIn(pendingFunctors_) => DistinctIn(pendingFunctors_ \o last)
  <2>1. Numbers(pendingFunctors_) \cap Numbers(last) = {}
    BY <1>4
  <2>2. QED
    BY <1>2, <1>4, <2>1, OnceConcat
<1>11. QED
  BY <1>1, <1>4, <1>5, <1>6, <1>7, <1>8, <1>9, <1>10 DEF Kept

LEMMA EndOf ==
  ASSUME NEW q, q \in {<<>>, <<Run("connectDestroyed"), Run("endOfBatch")>>}
  PROVE  /\ Kept(q, {"connectDestroyed", "endOfBatch"}, {})
         /\ OnceIn(q, "connectEstablished") /\ DistinctIn(q)
<1>1. q \in Shorts
  BY ShortsHas
<1>2. q \in Seq(Entries) /\ Numbers(q) = {} /\ DistinctIn(q)
  BY <1>1, ShortsOf
<1>3. Names(q) \subseteq {"connectDestroyed", "endOfBatch"} /\ OnceIn(q, "connectEstablished")
  BY NamesShort, OnceShort DEF Run
<1>4. QED
  BY <1>2, <1>3 DEF Kept

LEMMA MessageOf ==
  ASSUME TypeOK, NEW u \in User, sendQueues(u)
  PROVE  /\ agenda' = agenda /\ sent' = sent + 1 /\ sent' \in 1..MaxSends
         /\ Kept(pendingFunctors_', Names(pendingFunctors_) \cup {"sendInLoop"},
                 Numbers(pendingFunctors_) \cup {sent'})
         /\ OnceIn(pendingFunctors_, "connectEstablished") =>
               OnceIn(pendingFunctors_', "connectEstablished")
         /\ DistinctIn(pendingFunctors_) /\ sent' \notin Numbers(pendingFunctors_) =>
               DistinctIn(pendingFunctors_')
<1>1. /\ agenda' = agenda /\ sent' = sent + 1 /\ sent' \in 1..MaxSends
      /\ pendingFunctors_' = Append(pendingFunctors_, SendFunctor(sent'))
  BY TcpConnectionAssumption DEF sendQueues, TypeOK
<1>2. pendingFunctors_ \in Seq(Entries)
  BY DEF TypeOK
<1>3. PICK x \in Entries : x = SendFunctor(sent') /\ x[1] = "sendInLoop" /\ x[2] = sent'
  BY <1>1, EntriesOf
<1>4. PICK last \in Seq(Entries) : last = <<x>>
  <2>1. \A e \in Entries : <<e>> \in Seq(Entries)
    OBVIOUS
  <2>2. QED
    BY <2>1
<1>5. /\ Names(last) = {"sendInLoop"} /\ Numbers(last) = {sent'}
      /\ OnceIn(last, "connectEstablished") /\ DistinctIn(last)
  BY <1>3, <1>4, NamesShort, OnceShort
<1>6. pendingFunctors_' = pendingFunctors_ \o last
  BY <1>1, <1>2, <1>3, <1>4
<1>7. pendingFunctors_ \o last \in Seq(Entries)
  BY <1>2, <1>4, ConcatOf
<1>8. /\ Names(pendingFunctors_ \o last) = Names(pendingFunctors_) \cup Names(last)
      /\ Numbers(pendingFunctors_ \o last) = Numbers(pendingFunctors_) \cup Numbers(last)
  <2>1. last \in Seq(Entries)
    BY <1>4
  <2>2. QED
    BY <1>2, <2>1, NamesConcat
<1>9. OnceIn(pendingFunctors_, "connectEstablished") =>
         OnceIn(pendingFunctors_ \o last, "connectEstablished")
  BY <1>2, <1>5, OnceConcat
<1>10. DistinctIn(pendingFunctors_) /\ sent' \notin Numbers(pendingFunctors_) =>
          DistinctIn(pendingFunctors_ \o last)
  <2>1. sent' \notin Numbers(pendingFunctors_) => Numbers(pendingFunctors_) \cap Numbers(last) = {}
    BY <1>5
  <2>2. QED
    BY <1>2, <1>5, <2>1, OnceConcat
<1>11. QED
  BY <1>1, <1>5, <1>6, <1>7, <1>8, <1>9, <1>10 DEF Kept

\* agenda' and pendingFunctors_', each on its own.
AgendaKept ==
    /\ agenda' \in Seq(Entries)
    /\ "connectEstablished" \in Names(agenda') => "connectEstablished" \in Names(agenda)
    /\ Numbers(agenda') \subseteq Numbers(agenda)
    /\ OnceIn(agenda, "connectEstablished") => OnceIn(agenda', "connectEstablished")
    /\ DistinctIn(agenda) => DistinctIn(agenda')

PendingKept ==
    /\ pendingFunctors_' \in Seq(Entries)
    /\ Names(pendingFunctors_') \subseteq
          Names(pendingFunctors_) \cup Queued \cup (IF sent' = sent THEN {} ELSE {"sendInLoop"})
    /\ Numbers(pendingFunctors_') \subseteq
          Numbers(pendingFunctors_) \cup (IF sent' = sent THEN {} ELSE {sent'})
    /\ OnceIn(pendingFunctors_, "connectEstablished") =>
          OnceIn(pendingFunctors_', "connectEstablished")
    /\ DistinctIn(pendingFunctors_) /\ sent + 1 \notin Numbers(pendingFunctors_) =>
          DistinctIn(pendingFunctors_')

LEMMA NoneIsOnce ==
  ASSUME NEW q
  PROVE  /\ \A name : name \notin Names(q) => OnceIn(q, name)
         /\ Numbers(q) = {} => DistinctIn(q)
<1>1. \A name : name \notin Names(q) => OnceIn(q, name)
  BY DEF OnceIn, Names
<1>2. Numbers(q) = {} => DistinctIn(q)
  BY DEF DistinctIn, Numbers
<1>3. QED
  BY <1>1, <1>2

LEMMA SentStep == TypeOK /\ [Next]_vars => sent' = sent \/ sent' = sent + 1
<1> SUFFICES ASSUME TypeOK, [Next]_vars
             PROVE  sent' = sent \/ sent' = sent + 1
  OBVIOUS
<1>1. CASE poll \/ doPendingFunctors \/ endOfBatch \/ connectEstablished \/
           connectDestroyed \/ disconnect \/ handleClose \/ remove \/
           closeCallback \/ handleRead
  BY <1>1 DEF poll, doPendingFunctors, endOfBatch, connectEstablished,
     connectDestroyed, disconnect, Disconnects, handleClose, remove,
     closeCallback, handleRead, HandlerStep, history
<1>2. CASE handleError \/ handleWrite \/ queuedSend \/ queuedShutdown \/
           callbackReturns \/ callbackSends \/ callbackShutsDown \/
           removeConnectionInLoop \/ destroyServer \/ peerSends
  BY <1>2 DEF handleError, HandlerStep, handleWrite, queuedSend, queuedShutdown,
     callbackReturns, callbackSends, callbackShutsDown, removeConnectionInLoop,
     destroyServer, peerSends, PeerStep, history
<1>3. CASE peerTakes \/ peerCloses \/ peerResets
  BY <1>3 DEF peerTakes, PeerStep, peerCloses, peerResets, history
<1>4. ASSUME NEW u \in User, callbackShares(u) \/ send(u) \/ sendQueues(u) \/
           shutdown(u) \/ shutdownSets(u) \/ shutdownQueues(u) \/ letsGo(u)
           PROVE sent' = sent \/ sent' = sent + 1
  BY <1>4 DEF callbackShares, send, goesOn, sendQueues, shutdown, shutdownSets,
     shutdownQueues, letsGo, history
<1>5. CASE UNCHANGED vars
  BY <1>5 DEF vars, history
<1>6. QED
  BY <1>1, <1>2, <1>3, <1>4, <1>5 DEF Next, LoopStep, UserStep

LEMMA AgendaStepOf == TypeOK /\ AgendaStep => AgendaKept \/ doPendingFunctors
<1> SUFFICES ASSUME TypeOK, AgendaStep, ~doPendingFunctors PROVE AgendaKept
  OBVIOUS
<1>1. agenda \in Seq(Entries)
  BY DEF TypeOK
<1>2. CASE agenda' = agenda
  BY <1>1, <1>2 DEF AgendaKept
<1>3. CASE Takes
  <2>1. PICK next \in Shorts : agenda # <<>> /\ agenda' = next \o Tail(agenda)
    BY <1>3 DEF Takes
  <2>2. "connectEstablished" \notin Names(next)
    BY ShortsOf DEF Short
  <2>3. QED
    BY <2>1, <2>2, TakesOf DEF AgendaKept
<1>4. CASE poll
  <2>1. PICK reported : "PRI" \notin reported /\ agenda' = Reports(reported)
    BY <1>4, PollOf
  <2>2. /\ agenda' \in Seq(Entries) /\ Numbers(agenda') = {}
        /\ Names(agenda') \subseteq Handlers \cup {"doPendingFunctors"}
    BY <2>1, ReportsOf
  <2>3. "connectEstablished" \notin Names(agenda')
    BY <2>2 DEF Handlers
  <2>4. QED
    BY <2>2, <2>3, NoneIsOnce DEF AgendaKept
<1>5. CASE agenda' \in {<<>>, <<Run("connectDestroyed"), Run("endOfBatch")>>}
  <2>1. Kept(agenda', {"connectDestroyed", "endOfBatch"}, {}) /\ OnceIn(agenda', "connectEstablished")
    BY <1>5, EndOf
  <2>2. DistinctIn(agenda')
    BY <1>5, EndOf
  <2>3. QED
    BY <2>1, <2>2 DEF AgendaKept, Kept
<1>6. QED
  BY <1>2, <1>3, <1>4, <1>5 DEF AgendaStep

LEMMA PendingStepOf == TypeOK /\ PendingStep => PendingKept \/ doPendingFunctors
<1> SUFFICES ASSUME TypeOK, PendingStep, ~doPendingFunctors PROVE PendingKept
  OBVIOUS
<1>1. CASE Queues(Queued)
  BY <1>1, QueuesOf DEF PendingKept
<1>2. ASSUME NEW u \in User, sendQueues(u) PROVE PendingKept
  <2>1. sent' = sent + 1 /\ sent' # sent
    BY <1>2, MessageOf DEF TypeOK
  <2>2. QED
    BY <1>2, <2>1, MessageOf DEF PendingKept, Kept
<1>3. QED
  BY <1>1, <1>2 DEF PendingStep

LEMMA QueuesNext ==
  TypeOK /\ [Next]_vars =>
      /\ agenda' \in Seq(Entries) /\ pendingFunctors_' \in Seq(Entries)
      /\ "connectEstablished" \in Calls' => "connectEstablished" \in Calls
      /\ OnceQueued => OnceQueued'
<1> SUFFICES ASSUME TypeOK, [Next]_vars
             PROVE  /\ agenda' \in Seq(Entries) /\ pendingFunctors_' \in Seq(Entries)
                    /\ "connectEstablished" \in Calls' => "connectEstablished" \in Calls
                    /\ OnceQueued => OnceQueued'
  OBVIOUS
<1>1. CASE AgendaKept /\ PendingKept
  <2>1. "connectEstablished" \in Names(pendingFunctors_') =>
           "connectEstablished" \in Names(pendingFunctors_)
    BY <1>1 DEF PendingKept, Queued
  <2>2. QED
    BY <1>1, <2>1 DEF AgendaKept, PendingKept, Calls, OnceQueued
<1>2. CASE doPendingFunctors
  <2>1. Names(pendingFunctors_') = {} /\ OnceIn(pendingFunctors_', "connectEstablished")
        /\ pendingFunctors_' \in Seq(Entries)
    BY <1>2, BatchOf, NamesShort, OnceShort
  <2>2. /\ agenda' \in Seq(Entries)
        /\ Names(agenda') \subseteq Names(pendingFunctors_) \cup {"endOfBatch"}
        /\ OnceIn(pendingFunctors_, "connectEstablished") => OnceIn(agenda', "connectEstablished")
    BY <1>2, BatchOf DEF Kept
  <2>3. QED
    BY <2>1, <2>2 DEF Calls, OnceQueued
<1>3. QED
  BY <1>1, <1>2, QueueSteps, AgendaStepOf, PendingStepOf

LEMMA NumbersNext ==
  TypeOK /\ DistinctQueued /\ [Next]_vars =>
      /\ sent' = sent => Waiting' \subseteq Waiting
      /\ sent' # sent => Waiting' \subseteq Waiting \cup {sent'}
      /\ DistinctIn(agenda') /\ DistinctIn(pendingFunctors_')
      /\ Numbers(agenda') \cap Numbers(pendingFunctors_') = {}
<1> SUFFICES ASSUME TypeOK, DistinctQueued, [Next]_vars
             PROVE  /\ sent' = sent => Waiting' \subseteq Waiting
                    /\ sent' # sent => Waiting' \subseteq Waiting \cup {sent'}
                    /\ DistinctIn(agenda') /\ DistinctIn(pendingFunctors_')
                    /\ Numbers(agenda') \cap Numbers(pendingFunctors_') = {}
  OBVIOUS
<1>1. sent \in Nat /\ sent + 1 \notin 1..sent
  BY TcpConnectionAssumption DEF TypeOK
<1>2. sent + 1 \notin Waiting
  BY <1>1 DEF DistinctQueued
<1>3. CASE doPendingFunctors
  <2>1. Numbers(pendingFunctors_') = {} /\ DistinctIn(pendingFunctors_')
    BY <1>3, BatchOf, NamesShort, OnceShort
  <2>2. Numbers(agenda') \subseteq Numbers(pendingFunctors_)
    BY <1>3, BatchOf DEF Kept
  <2>3. DistinctIn(agenda')
    BY <1>3, BatchOf DEF DistinctQueued
  <2>4. QED
    BY <2>1, <2>2, <2>3 DEF Waiting
<1>4. CASE AgendaKept /\ PendingKept
  <2>1. DistinctIn(agenda') /\ Numbers(agenda') \subseteq Numbers(agenda)
    BY <1>4 DEF AgendaKept, DistinctQueued
  <2>2. DistinctIn(pendingFunctors_')
    BY <1>2, <1>4 DEF PendingKept, DistinctQueued, Waiting
  <2>3. sent' \in {sent, sent + 1}
    BY <1>1, SentStep
  <2>4. /\ sent' = sent => Numbers(pendingFunctors_') \subseteq Numbers(pendingFunctors_)
        /\ sent' # sent => Numbers(pendingFunctors_') \subseteq Numbers(pendingFunctors_) \cup {sent'}
    BY <1>4 DEF PendingKept
  <2>5. Numbers(agenda') \cap Numbers(pendingFunctors_') = {}
    BY <1>2, <2>1, <2>3, <2>4 DEF DistinctQueued, Waiting
  <2>6. QED
    BY <2>1, <2>2, <2>4, <2>5 DEF Waiting
<1>5. QED
  BY <1>3, <1>4, QueueSteps, AgendaStepOf, PendingStepOf

-----------------------------------------------------------------------------
(***************************************************************************)
(* Types.                                                                  *)
(***************************************************************************)
StreamOK ==
    /\ state_ \in {"kConnecting", "kConnected", "kDisconnecting", "kDisconnected"}
    /\ channel \in ChannelValue
    /\ outputBuffer_ \in Seq(0..MaxSends)
    /\ socket \in SocketValue
    /\ killed \in BOOLEAN

OwnersOK ==
    /\ {guard, singleLoop, inServer, serverUp} \subseteq BOOLEAN
    /\ removals \in Nat
    /\ holds \in [User -> BOOLEAN]
    /\ call \in [User -> {"none", "send", "shutdown", "shutdownInLoop"}]
    /\ sent \in 0..MaxSends
    /\ {ups, downs, destroys} \subseteq Nat

LEMMA TypeParts ==
  TypeOK <=> /\ StreamOK /\ OwnersOK
             /\ agenda \in Seq(Entries) /\ pendingFunctors_ \in Seq(Entries)
BY DEF TypeOK, StreamOK, OwnersOK, SocketValue

LEMMA OwnersNext == OwnersOK /\ [Next]_vars => OwnersOK'
<1> SUFFICES ASSUME OwnersOK, [Next]_vars
             PROVE  OwnersOK'
  OBVIOUS
<1>1. CASE poll
  BY <1>1, TcpConnectionAssumption DEF poll, OwnersOK, server, users, history
<1>2. CASE doPendingFunctors
  <2>1. guard' \in BOOLEAN
    BY <1>2 DEF doPendingFunctors
  <2>2. UNCHANGED <<server, users, history>>
    BY <1>2 DEF doPendingFunctors
  <2>3. QED
    BY <2>1, <2>2 DEF OwnersOK, server, users, history
<1>3. CASE endOfBatch
  BY <1>3, TcpConnectionAssumption DEF endOfBatch, OwnersOK, server, users,
     history
<1>4. CASE connectEstablished
  BY <1>4, TcpConnectionAssumption DEF connectEstablished, OwnersOK, server,
     users
<1>5. CASE connectDestroyed
  BY <1>5, TcpConnectionAssumption DEF connectDestroyed, OwnersOK, server, users
<1>6. CASE closeCallback
  <2>1. removals' \in Nat
    BY <1>6 DEF closeCallback, OwnersOK
  <2>2. inServer' \in BOOLEAN
    BY <1>6 DEF closeCallback, OwnersOK
  <2>3. UNCHANGED <<guard, singleLoop, serverUp, users, history>>
    BY <1>6 DEF closeCallback
  <2>4. QED
    BY <2>1, <2>2, <2>3 DEF OwnersOK, users, history
<1>7. ASSUME NEW u \in User, callbackShares(u) PROVE OwnersOK'
  <2>1. holds' \in [User -> BOOLEAN]
    BY <1>7 DEF callbackShares, OwnersOK
  <2>2. UNCHANGED <<loop, server, call, history>>
    BY <1>7 DEF callbackShares
  <2>3. QED
    BY <2>1, <2>2 DEF OwnersOK, loop, server, history
<1>8. CASE removeConnectionInLoop
  <2>1. removals' \in Nat
    BY <1>8 DEF removeConnectionInLoop, OwnersOK
  <2>2. inServer' \in BOOLEAN
    BY <1>8 DEF removeConnectionInLoop, OwnersOK
  <2>3. UNCHANGED <<guard, singleLoop, serverUp, users, history>>
    BY <1>8 DEF removeConnectionInLoop
  <2>4. QED
    BY <2>1, <2>2, <2>3 DEF OwnersOK, users, history
<1>9. CASE destroyServer
  BY <1>9, TcpConnectionAssumption DEF destroyServer, OwnersOK, users, history
<1>10. CASE disconnect \/ handleClose \/ remove
  BY <1>10, TcpConnectionAssumption DEF disconnect, Disconnects, handleClose,
     remove, OwnersOK, server, users, history
<1>11. CASE handleRead \/ handleError \/ handleWrite
  BY <1>11, TcpConnectionAssumption DEF handleRead, HandlerStep, handleError,
     handleWrite, OwnersOK, server, users, history
<1>12. CASE queuedSend \/ queuedShutdown \/ callbackReturns
  BY <1>12, TcpConnectionAssumption DEF queuedSend, HandlerStep, queuedShutdown,
     callbackReturns, OwnersOK, server, users, history
<1>13. CASE callbackSends \/ callbackShutsDown \/ peerSends
  BY <1>13, TcpConnectionAssumption DEF callbackSends, callbackShutsDown,
     peerSends, PeerStep, OwnersOK, loop, server, users, history
<1>14. CASE peerTakes \/ peerCloses \/ peerResets
  BY <1>14, TcpConnectionAssumption DEF peerTakes, PeerStep, peerCloses,
     peerResets, OwnersOK, loop, server, users, history
<1>15. ASSUME NEW u \in User, send(u) \/ sendQueues(u) \/ shutdown(u) PROVE
           OwnersOK'
  BY <1>15, TcpConnectionAssumption DEF send, goesOn, sendQueues, shutdown,
     OwnersOK, loop, server, history
<1>16. ASSUME NEW u \in User, shutdownSets(u) \/ shutdownQueues(u) \/ letsGo(u)
           PROVE OwnersOK'
  BY <1>16, TcpConnectionAssumption DEF shutdownSets, goesOn, shutdownQueues,
     letsGo, OwnersOK, loop, server, history
<1>17. CASE UNCHANGED vars
  BY <1>17, TcpConnectionAssumption DEF vars, loop, server, users, history,
     OwnersOK
<1>18. QED
  BY <1>1, <1>2, <1>3, <1>4, <1>5, <1>6, <1>7, <1>8, <1>9, <1>10, <1>11, <1>12,
     <1>13, <1>14, <1>15, <1>16, <1>17 DEF Next, LoopStep, UserStep

LEMMA StreamNext == TypeOK /\ BytesTraced /\ [Next]_vars => StreamOK'
<1> SUFFICES ASSUME TypeOK /\ BytesTraced, [Next]_vars
             PROVE  StreamOK'
  OBVIOUS
<1>1. CASE connectEstablished
  BY <1>1, TypeParts, ChannelOps DEF connectEstablished, StreamOK
<1>2. CASE disconnect
  BY <1>2, TypeParts, ChannelOps DEF disconnect, Disconnects, StreamOK
<1>3. CASE handleClose
  BY <1>3, TypeParts, ChannelOps DEF handleClose, Disconnects, StreamOK
<1>4. CASE remove
  BY <1>4, TypeParts, ChannelOps DEF remove, StreamOK
<1>5. CASE handleRead
  <2>1. CASE \E n \in 1..socket.rcv : socket' = [socket EXCEPT !.rcv = socket.rcv - n]
    <3>1. PICK n \in 1..socket.rcv : socket' = [socket EXCEPT !.rcv = socket.rcv - n]
      BY <2>1
    <3>2. socket.rcv \in 0..MaxInput /\ MaxInput \in Nat
      BY TypeParts, TcpConnectionAssumption DEF StreamOK, SocketValue
    <3>3. socket.rcv - n \in 0..MaxInput
      BY <3>2
    <3>4. QED
      BY <1>5, <3>1, <3>3, TypeParts DEF handleRead, StreamOK, SocketValue, connection
  <2>2. CASE socket' \in {socket, [socket EXCEPT !.err = FALSE]}
    BY <1>5, <2>2, TypeParts DEF handleRead, StreamOK, SocketValue, connection
  <2>3. QED
    BY <1>5, <2>1, <2>2 DEF handleRead
<1>6. CASE handleError
  BY <1>6, TypeParts DEF handleError, StreamOK, SocketValue, connection
<1>7. CASE handleWrite
  BY <1>7, WriteEffect, TypeParts DEF handleWrite, StreamOK
<1>8. CASE queuedSend
  <2>1. PICK byte \in 0..MaxSends : sendInLoop(byte)
    BY <1>8, QueuedByte
  <2>2. state_' = state_
    BY <1>8 DEF queuedSend
  <2>3. QED
    BY <2>1, <2>2, SendEffect, TypeParts DEF StreamOK
<1>9. CASE queuedShutdown
  BY <1>9, TypeParts, ShutDownOf DEF queuedShutdown, HandlerStep, StreamOK, connection
<1>10. CASE callbackSends
  <2>1. sent' \in 0..MaxSends /\ sendInLoop(sent') /\ state_' = state_
    BY <1>10, CallbackByte DEF callbackSends
  <2>2. QED
    BY <2>1, SendEffect, TypeParts DEF StreamOK
<1>11. CASE callbackShutsDown
  BY <1>11, TypeParts, ShutDownOf DEF callbackShutsDown, StreamOK
<1>12. CASE peerSends
  <2>1. socket.rcv + 1 \in 0..MaxInput
    BY <1>12, TypeParts, TcpConnectionAssumption DEF peerSends, StreamOK, SocketValue
  <2>2. QED
    BY <1>12, <2>1, TypeParts DEF peerSends, PeerStep, StreamOK, SocketValue, connection
<1>13. CASE peerTakes
  <2>1. socket.wire \in Seq(0..MaxSends) /\ sent \in Nat /\ sent <= MaxSends /\ MaxSends \in Nat
    BY TypeParts, TcpConnectionAssumption DEF StreamOK, SocketValue, OwnersOK
  <2>2. Len(socket.wire) <= sent
    BY <2>1, TracedLen DEF BytesTraced
  <2>3. socket.taken \in Nat /\ socket.taken < Len(socket.wire) /\ Len(socket.wire) \in Nat
    BY <1>13, <2>1, TypeParts DEF peerTakes, StreamOK, SocketValue
  <2>4. socket.taken + 1 \in 0..MaxSends
    BY <2>1, <2>2, <2>3
  <2>5. QED
    BY <1>13, <2>4, TypeParts DEF peerTakes, PeerStep, StreamOK, SocketValue, connection
<1>14. CASE peerCloses
  BY <1>14, TypeParts DEF peerCloses, PeerStep, StreamOK, SocketValue, connection
<1>15. CASE peerResets
  BY <1>15, TypeParts DEF peerResets, PeerStep, StreamOK, SocketValue, connection
<1>16. CASE poll \/ doPendingFunctors \/ endOfBatch \/ connectDestroyed \/
           closeCallback
  BY <1>16, TypeParts DEF poll, doPendingFunctors, endOfBatch, connectDestroyed,
     closeCallback, StreamOK, connection
<1>17. CASE callbackReturns \/ removeConnectionInLoop \/ destroyServer
  BY <1>17, TypeParts DEF callbackReturns, removeConnectionInLoop,
     destroyServer, StreamOK, connection
<1>18. ASSUME NEW u \in User, callbackShares(u) \/ send(u) \/ sendQueues(u) \/
           shutdown(u) \/ shutdownSets(u) PROVE StreamOK'
  BY <1>18, TypeParts DEF callbackShares, send, goesOn, sendQueues, shutdown,
     shutdownSets, StreamOK, connection
<1>19. ASSUME NEW u \in User, shutdownQueues(u) \/ letsGo(u) PROVE StreamOK'
  BY <1>19, TypeParts DEF shutdownQueues, goesOn, letsGo, StreamOK, connection
<1>20. CASE UNCHANGED vars
  BY <1>20, TypeParts DEF vars, connection, StreamOK
<1>21. QED
  BY <1>1, <1>2, <1>3, <1>4, <1>5, <1>6, <1>7, <1>8, <1>9, <1>10, <1>11, <1>12,
     <1>13, <1>14, <1>15, <1>16, <1>17, <1>18, <1>19, <1>20 DEF Next, LoopStep,
     UserStep

LEMMA TypeNext == TypeOK /\ BytesTraced /\ [Next]_vars => TypeOK'
<1> SUFFICES ASSUME TypeOK, BytesTraced, [Next]_vars PROVE TypeOK'
  OBVIOUS
<1>1. StreamOK' /\ OwnersOK'
  BY OwnersNext, StreamNext, TypeParts
<1>2. agenda' \in Seq(Entries) /\ pendingFunctors_' \in Seq(Entries)
  BY QueuesNext
<1>3. QED
  BY <1>1, <1>2 DEF TypeOK, StreamOK, OwnersOK, SocketValue

-----------------------------------------------------------------------------
(***************************************************************************)
(* What comes next on the agenda.                                          *)
(***************************************************************************)
Closers == {"handleClose", "disconnect", "handleRead", "remove"}

LEMMA HeadOf ==
  ASSUME TypeOK, agenda # <<>>
  PROVE  /\ Tail(agenda) \in Seq(Entries) /\ <<>> \o Tail(agenda) = Tail(agenda)
         /\ 1 \in DOMAIN agenda /\ Head(agenda) = agenda[1] /\ Head(agenda)[1] \in Names(agenda)
         /\ Names(Tail(agenda)) \subseteq Names(agenda)
         /\ \A i \in DOMAIN Tail(agenda) :
               i \in Nat \ {0} /\ i + 1 \in DOMAIN agenda /\ Tail(agenda)[i] = agenda[i + 1]
<1>1. agenda \in Seq(Entries)
  BY DEF TypeOK
<1>2. /\ Tail(agenda) \in Seq(Entries)
      /\ \A i \in DOMAIN Tail(agenda) :
            i \in Nat \ {0} /\ i + 1 \in DOMAIN agenda /\ Tail(agenda)[i] = agenda[i + 1]
  BY <1>1, TailOf
<1>3. 1 \in DOMAIN agenda /\ Head(agenda) = agenda[1]
  BY <1>1, TailOf
<1>4. <<>> \o Tail(agenda) = Tail(agenda)
  BY <1>2
<1>5. Names(agenda) = Names(Tail(agenda)) \cup {Head(agenda)[1]}
  BY <1>1, NamesTail
<1>6. QED
  BY <1>2, <1>3, <1>4, <1>5

LEMMA BehindHead ==
  ASSUME TypeOK, InPlace, agenda # <<>>, NEW i \in DOMAIN Tail(agenda)
  PROVE  /\ Tail(agenda)[i][1] \notin {"handleClose", "disconnect"}
         /\ Tail(agenda)[i][1] = "handleRead" =>
               i = 1 /\ Head(agenda)[1] = "handleError" /\ channel.index = kAdded
         /\ Tail(agenda)[i][1] = "remove" =>
               /\ i = 1
               /\ \/ Head(agenda)[1] = "disconnect"
                  \/ Head(agenda)[1] = "connectionDown" /\ state_ # "kConnected"
<1>1. i \in Nat \ {0} /\ i + 1 \in DOMAIN agenda /\ Tail(agenda)[i] = agenda[i + 1]
  BY HeadOf
<1>2. Head(agenda) = agenda[1]
  BY HeadOf
<1>3. i + 1 # 1 /\ (i + 1 = 2 => i = 1)
  BY <1>1
<1>4. QED
  BY <1>1, <1>2, <1>3 DEF InPlace

LEMMA Calm ==
  ASSUME TypeOK, InPlace, agenda # <<>>,
         Head(agenda)[1] \notin {"handleError", "disconnect", "connectionDown"}
  PROVE  Names(Tail(agenda)) \cap Closers = {}
<1>1. \A i \in DOMAIN Tail(agenda) : Tail(agenda)[i][1] \notin Closers
  BY BehindHead DEF Closers
<1>2. QED
  BY <1>1 DEF Names

\* What next puts ahead of the rest.
LEMMA Ahead ==
  ASSUME TypeOK, agenda # <<>>, NEW next \in Shorts, agenda' = next \o Tail(agenda),
         Names(Tail(agenda)) \cap Closers = {}
  PROVE  \A i \in DOMAIN agenda' :
            agenda'[i][1] \in Closers => i \in DOMAIN next /\ agenda'[i] = next[i]
<1> SUFFICES ASSUME NEW i \in DOMAIN agenda', agenda'[i][1] \in Closers
             PROVE  i \in DOMAIN next /\ agenda'[i] = next[i]
  OBVIOUS
<1>1. \/ i \in DOMAIN next /\ agenda'[i] = next[i]
      \/ i - Len(next) \in DOMAIN Tail(agenda) /\ agenda'[i] = Tail(agenda)[i - Len(next)]
  BY TakesOf
<1>2. CASE i - Len(next) \in DOMAIN Tail(agenda) /\ agenda'[i] = Tail(agenda)[i - Len(next)]
  <2>1. agenda'[i][1] \in Names(Tail(agenda))
    BY <1>2 DEF Names
  <2>2. QED
    BY <2>1
<1>3. QED
  BY <1>1, <1>2

AgendaInPlace ==
    \A i \in DOMAIN agenda :
        /\ agenda[i][1] \in {"handleClose", "disconnect"} => i = 1 /\ channel.index = kAdded
        /\ agenda[i][1] = "handleRead" =>
              /\ channel.index = kAdded
              /\ i = 1 \/ (i = 2 /\ agenda[1][1] = "handleError")
        /\ agenda[i][1] = "remove" =>
              \/ i = 1 /\ state_ # "kConnected"
              \/ i = 2 /\ agenda[1][1] = "disconnect"
              \/ i = 2 /\ agenda[1][1] = "connectionDown" /\ state_ # "kConnected"

LEMMA InPlaceParts == InPlace <=> Names(pendingFunctors_) \subseteq Counted \cup Raw /\ AgendaInPlace
BY DEF InPlace, AgendaInPlace

LEMMA PendingNext ==
  TypeOK /\ Names(pendingFunctors_) \subseteq Counted \cup Raw /\ [Next]_vars
      => Names(pendingFunctors_') \subseteq Counted \cup Raw
<1> SUFFICES ASSUME TypeOK, Names(pendingFunctors_) \subseteq Counted \cup Raw, [Next]_vars
             PROVE  Names(pendingFunctors_') \subseteq Counted \cup Raw
  OBVIOUS
<1>1. CASE doPendingFunctors
  BY <1>1, BatchOf, NamesShort
<1>2. CASE PendingKept
  BY <1>2 DEF PendingKept, Queued, Counted, Raw
<1>3. QED
  BY <1>1, <1>2, QueueSteps, PendingStepOf

\* No close, read or removal is to come.
LEMMA CalmIsInPlace == Names(agenda') \cap Closers = {} => AgendaInPlace'
<1> SUFFICES ASSUME Names(agenda') \cap Closers = {} PROVE AgendaInPlace'
  OBVIOUS
<1>1. \A i \in DOMAIN agenda' : agenda'[i][1] \notin Closers
  BY DEF Names
<1>2. QED
  BY <1>1 DEF AgendaInPlace, Closers

\* After a call that leaves only calls that are none of these, the rest too.
LEMMA CalmStep ==
  ASSUME TypeOK, InPlace, agenda # <<>>,
         Head(agenda)[1] \notin {"handleError", "disconnect", "connectionDown"},
         NEW next \in Shorts, Names(next) \cap Closers = {}, agenda' = next \o Tail(agenda)
  PROVE  AgendaInPlace'
<1>1. Names(agenda') = Names(next) \cup Names(Tail(agenda))
  BY TakesOf
<1>2. Names(Tail(agenda)) \cap Closers = {}
  BY Calm
<1>3. QED
  BY <1>1, <1>2, CalmIsInPlace

LEMMA AgendaNext == TypeOK /\ InPlace /\ UpIsReading /\ [Next]_vars => AgendaInPlace'
<1> SUFFICES ASSUME TypeOK /\ InPlace /\ UpIsReading, [Next]_vars
             PROVE  AgendaInPlace'
  OBVIOUS
<1>1. CASE poll
  <2>1. PICK reported : /\ "PRI" \notin reported /\ agenda' = Reports(reported)
                        /\ reported # {} => channel.index = kAdded
    BY <1>1, PollOf
  <2>2. channel' = channel
    BY <1>1, PollOf
  <2>3. CASE reported = {}
    <3>1. agenda' = <<Run("doPendingFunctors")>>
      BY <2>1, <2>3, ReportsOf
    <3>2. Names(<<Run("doPendingFunctors")>>) = {"doPendingFunctors"}
      BY NamesShort DEF Run
    <3>3. Names(agenda') \cap Closers = {}
      BY <3>1, <3>2 DEF Closers
    <3>4. QED
      BY <3>3, CalmIsInPlace
  <2>4. CASE reported # {}
    <3>1. channel'.index = kAdded
      BY <2>1, <2>2, <2>4
    <3>2. \A i \in DOMAIN agenda' : agenda'[i][1] \in Names(agenda')
      BY DEF Names
    <3>3. Names(agenda') \subseteq Handlers \cup {"doPendingFunctors"}
      BY <2>1, ReportsOf
    <3>4. \A i \in DOMAIN agenda' :
             /\ agenda'[i][1] \notin {"disconnect", "remove"}
             /\ agenda'[i][1] = "handleClose" => i = 1
             /\ agenda'[i][1] = "handleRead" =>
                   i = 1 \/ (i = 2 /\ agenda'[1][1] = "handleError")
      BY <2>1, <3>2, <3>3, ReportsOf DEF Handlers
    <3>5. QED
      BY <3>1, <3>4 DEF AgendaInPlace
  <2>5. QED
    BY <2>3, <2>4
<1>2. CASE doPendingFunctors
  <2>1. Names(agenda') \subseteq Names(pendingFunctors_) \cup {"endOfBatch"}
    BY <1>2, BatchOf DEF Kept
  <2>2. Names(agenda') \cap Closers = {}
    BY <2>1, InPlaceParts DEF Counted, Raw, Closers
  <2>3. QED
    BY <2>2, CalmIsInPlace
<1>3. CASE endOfBatch
  <2>1. agenda # <<>> /\ Head(agenda)[1] \notin {"handleError", "disconnect", "connectionDown"}
    BY <1>3 DEF endOfBatch, Runs
  <2>2. PICK next \in Shorts : agenda' = next \o Tail(agenda) /\ Names(next) \cap Closers = {}
    <3>1. agenda' = <<>> \o Tail(agenda)
      BY <1>3, <2>1, HeadOf DEF endOfBatch
    <3>2. <<>> \in Shorts /\ Names(<<>>) = {}
      BY ShortsHas, NamesShort
    <3>3. QED
      BY <3>1, <3>2
  <2>3. QED
    BY <2>1, <2>2, CalmStep
<1>4. CASE connectEstablished
  <2>1. agenda # <<>> /\ Head(agenda)[1] \notin {"handleError", "disconnect", "connectionDown"}
    BY <1>4 DEF connectEstablished, Runs
  <2>2. PICK next \in Shorts : agenda' = next \o Tail(agenda) /\ Names(next) \cap Closers = {}
    <3>1. agenda' = <<Run("connectionUp")>> \o Tail(agenda)
      BY <1>4 DEF connectEstablished
    <3>2. <<Run("connectionUp")>> \in Shorts
      BY ShortsHas
    <3>3. Names(<<Run("connectionUp")>>) \cap Closers = {}
      BY NamesShort DEF Run, Closers
    <3>4. QED
      BY <3>1, <3>2, <3>3
  <2>3. QED
    BY <2>1, <2>2, CalmStep
<1>5. CASE connectDestroyed
  <2>1. /\ agenda # <<>> /\ Head(agenda)[1] = "connectDestroyed"
        /\ channel' = channel /\ state_' = state_
    BY <1>5 DEF connectDestroyed, Runs, connection
  <2>2. Names(Tail(agenda)) \cap Closers = {}
    BY <2>1, Calm
  <2>3. CASE state_ = "kConnected"
    <3>1. PICK next \in Shorts : next = <<Run("disconnect"), Run("remove")>>
      BY ShortsHas
    <3>2. agenda' = next \o Tail(agenda)
      <4>1. agenda' = (<<Run("disconnect")>> \o <<Run("remove")>>) \o Tail(agenda)
        BY <1>5, <2>3 DEF connectDestroyed, hasToDisconnect
      <4>2. <<Run("disconnect")>> \o <<Run("remove")>> = <<Run("disconnect"), Run("remove")>>
        BY Joins
      <4>3. QED
        BY <3>1, <4>1, <4>2
    <3>3. \A i \in DOMAIN agenda' :
             agenda'[i][1] \in Closers => i \in DOMAIN next /\ agenda'[i] = next[i]
      BY <2>1, <2>2, <3>2, Ahead
    <3>4. /\ DOMAIN next = {1, 2} /\ next[1][1] = "disconnect" /\ next[2][1] = "remove"
      BY <3>1 DEF Run
    <3>5. 1 \in DOMAIN agenda' => agenda'[1][1] = "disconnect"
      <4>1. Len(next) = 2 /\ next \in Seq(Entries) /\ Tail(agenda) \in Seq(Entries)
        BY <2>1, <3>1, HeadOf, ShortsOf
      <4>2. (next \o Tail(agenda))[1] = next[1]
        BY <3>4, <4>1, ConcatOf
      <4>3. QED
        BY <3>2, <3>4, <4>2
    <3>6. channel.index = kAdded
      BY <2>3 DEF UpIsReading
    <3>7. 1 \in DOMAIN agenda'
      <4>1. Len(next) = 2 /\ next \in Seq(Entries) /\ Tail(agenda) \in Seq(Entries)
        BY <2>1, <3>1, HeadOf, ShortsOf
      <4>2. 1 \in DOMAIN (next \o Tail(agenda))
        BY <4>1, ConcatOf
      <4>3. QED
        BY <3>2, <4>2
    <3>8. QED
      BY <2>1, <3>3, <3>4, <3>5, <3>6, <3>7 DEF AgendaInPlace, Closers
  <2>4. CASE state_ # "kConnected"
    <3>1. PICK next \in Shorts : next = <<Run("remove")>>
      BY ShortsHas
    <3>2. agenda' = next \o Tail(agenda)
      <4>1. agenda' = (<<>> \o <<Run("remove")>>) \o Tail(agenda)
        BY <1>5, <2>4 DEF connectDestroyed, hasToDisconnect
      <4>2. <<>> \o <<Run("remove")>> = <<Run("remove")>>
        BY Joins
      <4>3. QED
        BY <3>1, <4>1, <4>2
    <3>3. \A i \in DOMAIN agenda' :
             agenda'[i][1] \in Closers => i \in DOMAIN next /\ agenda'[i] = next[i]
      BY <2>1, <2>2, <3>2, Ahead
    <3>4. DOMAIN next = {1} /\ next[1][1] = "remove"
      BY <3>1 DEF Run
    <3>5. QED
      BY <2>1, <2>4, <3>3, <3>4 DEF AgendaInPlace, Closers
  <2>5. QED
    BY <2>3, <2>4
<1>6. CASE disconnect
  <2>1. agenda # <<>> /\ Head(agenda)[1] = "disconnect" /\ state_' = "kDisconnected"
    BY <1>6 DEF disconnect, Disconnects, Runs
  <2>2. PICK next \in Shorts : next = <<Run("connectionDown")>>
    BY ShortsHas
  <2>3. agenda' = next \o Tail(agenda)
    BY <1>6, <2>2 DEF disconnect, Disconnects
  <2>4. DOMAIN next = {1} /\ next[1][1] = "connectionDown" /\ Len(next) = 1
    BY <2>2 DEF Run
  <2>5. ASSUME NEW i \in DOMAIN agenda', agenda'[i][1] \in Closers
        PROVE  i = 2 /\ agenda'[i][1] = "remove"
    <3>1. i - 1 \in DOMAIN Tail(agenda) /\ agenda'[i] = Tail(agenda)[i - 1]
      BY <2>1, <2>3, <2>4, <2>5, TakesOf DEF Closers
    <3>2. i - 1 = 1 /\ agenda'[i][1] = "remove"
      BY <2>1, <2>5, <3>1, BehindHead DEF Closers
    <3>3. agenda' \in Seq(Entries)
      BY <2>1, <2>3, TakesOf
    <3>4. i \in Nat
      BY <3>3
    <3>5. QED
      BY <3>2, <3>4
  <2>6. 1 \in DOMAIN agenda' => agenda'[1][1] = "connectionDown"
    <3>1. next \in Seq(Entries) /\ Tail(agenda) \in Seq(Entries)
      BY <2>1, HeadOf, ShortsOf
    <3>2. (next \o Tail(agenda))[1] = next[1]
      BY <2>4, <3>1, ConcatOf
    <3>3. QED
      BY <2>3, <2>4, <3>2
  <2>7. 2 \in DOMAIN agenda' => 1 \in DOMAIN agenda'
    <3>1. agenda' \in Seq(Entries)
      BY <2>1, <2>3, TakesOf
    <3>2. QED
      BY <3>1
  <2>8. QED
    BY <2>1, <2>5, <2>6, <2>7 DEF AgendaInPlace, Closers
<1>7. CASE handleClose
  <2>1. agenda # <<>> /\ Head(agenda)[1] \notin {"handleError", "disconnect", "connectionDown"}
    BY <1>7 DEF handleClose, Disconnects, Runs
  <2>2. PICK next \in Shorts : agenda' = next \o Tail(agenda) /\ Names(next) \cap Closers = {}
    <3>1. agenda' = <<Run("connectionDown"), Run("closeCallback")>> \o Tail(agenda)
      BY <1>7 DEF handleClose, Disconnects
    <3>2. <<Run("connectionDown"), Run("closeCallback")>> \in Shorts
      BY ShortsHas
    <3>3. Names(<<Run("connectionDown"), Run("closeCallback")>>) \cap Closers = {}
      BY NamesShort DEF Run, Closers
    <3>4. QED
      BY <3>1, <3>2, <3>3
  <2>3. QED
    BY <2>1, <2>2, CalmStep
<1>8. CASE remove
  <2>1. agenda # <<>> /\ Head(agenda)[1] \notin {"handleError", "disconnect", "connectionDown"}
    BY <1>8 DEF remove, Runs
  <2>2. PICK next \in Shorts : agenda' = next \o Tail(agenda) /\ Names(next) \cap Closers = {}
    <3>1. agenda' = <<>> \o Tail(agenda)
      BY <1>8, <2>1, HeadOf DEF remove
    <3>2. <<>> \in Shorts /\ Names(<<>>) = {}
      BY ShortsHas, NamesShort
    <3>3. QED
      BY <3>1, <3>2
  <2>3. QED
    BY <2>1, <2>2, CalmStep
<1>9. CASE closeCallback
  <2>1. agenda # <<>> /\ Head(agenda)[1] \notin {"handleError", "disconnect", "connectionDown"}
    BY <1>9 DEF closeCallback, Runs
  <2>2. PICK next \in Shorts : agenda' = next \o Tail(agenda) /\ Names(next) \cap Closers = {}
    <3>1. agenda' = <<>> \o Tail(agenda)
      BY <1>9, <2>1, HeadOf DEF closeCallback
    <3>2. <<>> \in Shorts /\ Names(<<>>) = {}
      BY ShortsHas, NamesShort
    <3>3. QED
      BY <3>1, <3>2
  <2>3. QED
    BY <2>1, <2>2, CalmStep
<1>10. CASE handleRead
  <2>1. agenda # <<>> /\ Head(agenda)[1] = "handleRead" /\ channel' = channel /\ state_' = state_
    BY <1>10 DEF handleRead, HandlerStep, Runs, connection
  <2>2. channel.index = kAdded
    <3>1. 1 \in DOMAIN agenda /\ Head(agenda) = agenda[1]
      BY <2>1, HeadOf
    <3>2. QED
      BY <2>1, <3>1 DEF InPlace
  <2>3. CASE agenda' = <<Run("handleClose")>> \o Tail(agenda)
    <3>1. PICK next \in Shorts : next = <<Run("handleClose")>>
      BY ShortsHas
    <3>2. Names(Tail(agenda)) \cap Closers = {}
      BY <2>1, Calm
    <3>3. \A i \in DOMAIN agenda' :
             agenda'[i][1] \in Closers => i \in DOMAIN next /\ agenda'[i] = next[i]
      BY <2>1, <2>3, <3>1, <3>2, Ahead
    <3>4. DOMAIN next = {1} /\ next[1][1] = "handleClose"
      BY <3>1 DEF Run
    <3>5. QED
      BY <2>1, <2>2, <3>3, <3>4 DEF AgendaInPlace, Closers
  <2>4. CASE agenda' = <<Run("messageCallback")>> \o Tail(agenda)
    <3>1. PICK next \in Shorts : next = <<Run("messageCallback")>>
      BY ShortsHas
    <3>2. Names(next) \cap Closers = {}
      BY <3>1, NamesShort DEF Run, Closers
    <3>3. QED
      BY <2>1, <2>4, <3>1, <3>2, CalmStep
  <2>5. CASE agenda' = <<>> \o Tail(agenda)
    <3>1. <<>> \in Shorts /\ Names(<<>>) \cap Closers = {}
      BY ShortsHas, NamesShort
    <3>2. QED
      BY <2>1, <2>5, <3>1, CalmStep
  <2>6. QED
    BY <1>10, <2>3, <2>4, <2>5 DEF handleRead, HandlerStep
<1>11. CASE handleError
  <2>1. /\ agenda # <<>> /\ Head(agenda)[1] = "handleError"
        /\ channel' = channel /\ agenda' = Tail(agenda)
    BY <1>11, HeadOf DEF handleError, HandlerStep, Runs, connection
  <2>2. \A i \in DOMAIN agenda' :
           /\ agenda'[i][1] \notin {"handleClose", "disconnect", "remove"}
           /\ agenda'[i][1] = "handleRead" => i = 1 /\ channel.index = kAdded
    BY <2>1, BehindHead
  <2>3. QED
    BY <2>1, <2>2 DEF AgendaInPlace
<1>12. CASE handleWrite
  <2>1. agenda # <<>> /\ Head(agenda)[1] \notin {"handleError", "disconnect", "connectionDown"}
    BY <1>12 DEF handleWrite, HandlerStep, Runs
  <2>2. PICK next \in Shorts : agenda' = next \o Tail(agenda) /\ Names(next) \cap Closers = {}
    <3>1. agenda' = <<>> \o Tail(agenda)
      BY <1>12 DEF handleWrite, HandlerStep
    <3>2. <<>> \in Shorts /\ Names(<<>>) = {}
      BY ShortsHas, NamesShort
    <3>3. QED
      BY <3>1, <3>2
  <2>3. QED
    BY <2>1, <2>2, CalmStep
<1>13. CASE queuedSend
  <2>1. agenda # <<>> /\ Head(agenda)[1] \notin {"handleError", "disconnect", "connectionDown"}
    BY <1>13 DEF queuedSend, HandlerStep, Runs
  <2>2. PICK next \in Shorts : agenda' = next \o Tail(agenda) /\ Names(next) \cap Closers = {}
    <3>1. agenda' = <<>> \o Tail(agenda)
      BY <1>13 DEF queuedSend, HandlerStep
    <3>2. <<>> \in Shorts /\ Names(<<>>) = {}
      BY ShortsHas, NamesShort
    <3>3. QED
      BY <3>1, <3>2
  <2>3. QED
    BY <2>1, <2>2, CalmStep
<1>14. CASE queuedShutdown
  <2>1. agenda # <<>> /\ Head(agenda)[1] \notin {"handleError", "disconnect", "connectionDown"}
    BY <1>14 DEF queuedShutdown, HandlerStep, Runs
  <2>2. PICK next \in Shorts : agenda' = next \o Tail(agenda) /\ Names(next) \cap Closers = {}
    <3>1. agenda' = <<>> \o Tail(agenda)
      BY <1>14 DEF queuedShutdown, HandlerStep
    <3>2. <<>> \in Shorts /\ Names(<<>>) = {}
      BY ShortsHas, NamesShort
    <3>3. QED
      BY <3>1, <3>2
  <2>3. QED
    BY <2>1, <2>2, CalmStep
<1>15. CASE callbackReturns
  <2>1. /\ agenda # <<>> /\ Head(agenda)[1] \in UserCallback
        /\ state_' = state_ /\ agenda' = Tail(agenda)
    BY <1>15 DEF callbackReturns, InCallback, Runs, connection
  <2>2. \A i \in DOMAIN agenda' :
           /\ agenda'[i][1] \notin {"handleClose", "disconnect", "handleRead"}
           /\ agenda'[i][1] = "remove" => i = 1 /\ state_ # "kConnected"
    BY <2>1, BehindHead DEF UserCallback
  <2>3. QED
    BY <2>1, <2>2 DEF AgendaInPlace
<1>16. CASE callbackSends
  <2>1. agenda' = agenda /\ sendInLoop(sent') /\ sent' \in 0..MaxSends /\ state_' = state_
    BY <1>16, CallbackByte DEF callbackSends
  <2>2. channel.index = kAdded => channel'.index = kAdded
    BY <2>1, SendEffect
  <2>3. QED
    BY <2>1, <2>2, InPlaceParts DEF AgendaInPlace
<1>17. CASE destroyServer
  <2>1. CASE agenda' = agenda
    BY <1>17, <2>1, InPlaceParts DEF destroyServer, connection, AgendaInPlace
  <2>2. CASE agenda' \in {<<>>, <<Run("connectDestroyed"), Run("endOfBatch")>>}
    <3>1. Names(agenda') \subseteq {"connectDestroyed", "endOfBatch"}
      BY <2>2, EndOf DEF Kept
    <3>2. Names(agenda') \cap Closers = {}
      BY <3>1 DEF Closers
    <3>3. QED
      BY <3>2, CalmIsInPlace
  <2>3. QED
    BY <1>17, <2>1, <2>2 DEF destroyServer
<1>18. CASE callbackShutsDown \/ removeConnectionInLoop \/ peerSends \/
           peerTakes
  BY <1>18, InPlaceParts DEF callbackShutsDown, removeConnectionInLoop,
     peerSends, PeerStep, peerTakes, AgendaInPlace, connection, loop
<1>19. CASE peerCloses \/ peerResets
  BY <1>19, InPlaceParts DEF peerCloses, PeerStep, peerResets, AgendaInPlace,
     connection, loop
<1>20. ASSUME NEW u \in User, callbackShares(u) \/ send(u) \/ sendQueues(u) \/
           shutdown(u) PROVE AgendaInPlace'
  BY <1>20, InPlaceParts DEF callbackShares, send, goesOn, sendQueues, shutdown,
     AgendaInPlace, connection, loop
<1>21. ASSUME NEW u \in User, shutdownSets(u) \/ shutdownQueues(u) \/ letsGo(u)
           PROVE AgendaInPlace'
  BY <1>21, InPlaceParts DEF shutdownSets, goesOn, shutdownQueues, letsGo,
     AgendaInPlace, connection, loop
<1>22. CASE UNCHANGED vars
  BY <1>22, InPlaceParts DEF vars, connection, loop, AgendaInPlace
<1>23. QED
  BY <1>1, <1>2, <1>3, <1>4, <1>5, <1>6, <1>7, <1>8, <1>9, <1>10, <1>11, <1>12,
     <1>13, <1>14, <1>15, <1>16, <1>17, <1>18, <1>19, <1>20, <1>21, <1>22 DEF
     Next, LoopStep, UserStep

LEMMA InPlaceNext == TypeOK /\ InPlace /\ UpIsReading /\ [Next]_vars => InPlace'
<1> SUFFICES ASSUME TypeOK, InPlace, UpIsReading, [Next]_vars PROVE InPlace'
  OBVIOUS
<1>1. AgendaInPlace'
  BY AgendaNext
<1>2. Names(pendingFunctors_') \subseteq Counted \cup Raw
  BY PendingNext, InPlaceParts
<1>3. QED
  BY <1>1, <1>2 DEF InPlace, AgendaInPlace

-----------------------------------------------------------------------------
(***************************************************************************)
(* The states and the channel.                                             *)
(***************************************************************************)
LEMMA HeadCalls ==
  ASSUME TypeOK, NEW name, Runs(name)
  PROVE  /\ agenda # <<>> /\ Head(agenda)[1] = name /\ name \in Calls
         /\ name \in {"handleClose", "disconnect", "handleRead"} /\ InPlace =>
               channel.index = kAdded
         /\ name = "remove" /\ InPlace => state_ # "kConnected"
<1>1. agenda # <<>> /\ Head(agenda)[1] = name
  BY DEF Runs
<1>2. 1 \in DOMAIN agenda /\ Head(agenda) = agenda[1] /\ name \in Names(agenda)
  BY <1>1, HeadOf
<1>3. InPlace => AgendaInPlace
  BY InPlaceParts
<1>4. QED
  BY <1>1, <1>2, <1>3 DEF AgendaInPlace, Calls

\* connectEstablished is not queued again.
LEMMA Established ==
  ASSUME TypeOK, Fresh, connectEstablished
  PROVE  /\ state_ = "kConnecting" /\ state_' = "kConnected"
         /\ "connectEstablished" \notin Calls'
<1>1. Runs("connectEstablished")
  BY DEF connectEstablished
<1>2. agenda # <<>> /\ Head(agenda)[1] = "connectEstablished" /\ "connectEstablished" \in Calls
  BY <1>1, HeadCalls
<1>3. agenda \in Seq(Entries) /\ "connectEstablished" \in Names(agenda)
  BY <1>2, HeadOf DEF TypeOK
<1>4. "connectEstablished" \notin Names(Tail(agenda))
  BY <1>2, <1>3, OnceTail DEF Fresh, OnceQueued
<1>5. "connectEstablished" \notin Names(pendingFunctors_')
  BY <1>3 DEF connectEstablished, Fresh, OnceQueued
<1>6. PICK next \in Shorts : next = <<Run("connectionUp")>>
  BY ShortsHas
<1>7. Names(next) = {"connectionUp"}
  BY <1>6, NamesShort DEF Run
<1>8. agenda' = next \o Tail(agenda)
  BY <1>6 DEF connectEstablished
<1>9. Names(agenda') = Names(next) \cup Names(Tail(agenda))
  BY <1>2, <1>8, TakesOf
<1>10. state_' = "kConnected"
  BY DEF connectEstablished
<1>11. QED
  BY <1>2, <1>4, <1>5, <1>7, <1>9, <1>10 DEF Calls, Fresh

StateStep ==
    \/ state_' = state_
    \/ connectEstablished /\ state_ = "kConnecting"
    \/ state_ # "kConnecting" /\ state_' = "kDisconnected"
    \/ state_ = "kConnected" /\ state_' = "kDisconnecting"
    \/ /\ state_ # "kConnecting" /\ state_' = "kDisconnecting"
       /\ \E u \in User : call[u] = "shutdown" /\ call'[u] = "shutdownInLoop"

LEMMA ChannelIsNew == NewChannel.index = kNew /\ kNew # kAdded /\ ~isWriting(NewChannel)
                      /\ removed(NewChannel) = NewChannel
BY DEF NewChannel, kNew, kAdded, isWriting, kWriteEvent, kNoneEvent, removed

LEMMA StateNext == TypeOK /\ Fresh /\ InPlace /\ [Next]_vars => StateStep
<1> SUFFICES ASSUME TypeOK /\ Fresh /\ InPlace, [Next]_vars
             PROVE  StateStep
  OBVIOUS
<1>1. CASE connectEstablished
  BY <1>1, Established DEF StateStep
<1>2. CASE disconnect
  <2>1. Runs("disconnect") /\ state_' = "kDisconnected"
    BY <1>2 DEF disconnect, Disconnects
  <2>2. channel.index = kAdded
    BY <2>1, HeadCalls
  <2>3. state_ # "kConnecting"
    BY <2>2, ChannelIsNew DEF Fresh, Blank
  <2>4. QED
    BY <2>1, <2>3 DEF StateStep
<1>3. CASE handleClose
  <2>1. Runs("handleClose") /\ state_' = "kDisconnected"
    BY <1>3 DEF handleClose, Disconnects
  <2>2. channel.index = kAdded
    BY <2>1, HeadCalls
  <2>3. state_ # "kConnecting"
    BY <2>2, ChannelIsNew DEF Fresh, Blank
  <2>4. QED
    BY <2>1, <2>3 DEF StateStep
<1>4. CASE callbackShutsDown
  BY <1>4 DEF callbackShutsDown, mayShutDown, StateStep
<1>5. ASSUME NEW u \in User, shutdownSets(u) PROVE StateStep
  <2>1. state_' = "kDisconnecting" /\ call[u] = "shutdown" /\ call' = [call EXCEPT ![u] = "shutdownInLoop"]
    BY <1>5 DEF shutdownSets, goesOn
  <2>2. call'[u] = "shutdownInLoop"
    BY <2>1 DEF TypeOK
  <2>3. state_ # "kConnecting"
    BY <2>1 DEF Fresh, Blank
  <2>4. QED
    BY <2>1, <2>2, <2>3 DEF StateStep
<1>6. CASE poll \/ doPendingFunctors \/ endOfBatch \/ connectDestroyed \/ remove
           \/ closeCallback
  BY <1>6 DEF poll, doPendingFunctors, endOfBatch, connectDestroyed, remove,
     closeCallback, StateStep, connection
<1>7. CASE handleRead \/ handleError \/ handleWrite \/ queuedSend \/
           queuedShutdown \/ callbackReturns
  BY <1>7 DEF handleRead, HandlerStep, handleError, handleWrite, queuedSend,
     queuedShutdown, callbackReturns, StateStep, connection
<1>8. CASE callbackSends \/ removeConnectionInLoop \/ destroyServer \/ peerSends
           \/ peerTakes \/ peerCloses
  BY <1>8 DEF callbackSends, removeConnectionInLoop, destroyServer, peerSends,
     PeerStep, peerTakes, peerCloses, StateStep, connection
<1>9. CASE peerResets
  BY <1>9 DEF peerResets, PeerStep, StateStep, connection
<1>10. ASSUME NEW u \in User, callbackShares(u) \/ send(u) \/ sendQueues(u) \/
           shutdown(u) \/ shutdownQueues(u) \/ letsGo(u) PROVE StateStep
  BY <1>10 DEF callbackShares, send, goesOn, sendQueues, shutdown,
     shutdownQueues, letsGo, StateStep, connection
<1>11. CASE UNCHANGED vars
  BY <1>11 DEF vars, connection, StateStep
<1>12. QED
  BY <1>1, <1>2, <1>3, <1>4, <1>5, <1>6, <1>7, <1>8, <1>9, <1>10, <1>11 DEF
     Next, LoopStep, UserStep

LEMMA AfterRemoval ==
  ASSUME TypeOK
  PROVE  Names(afterRemoval) = Names(pendingFunctors_) \cup {"connectDestroyed"}
<1>1. pendingFunctors_ \in Seq(Entries)
  BY DEF TypeOK
<1>2. PICK x \in Entries : x = Run("connectDestroyed") /\ x[1] = "connectDestroyed"
  BY EntriesOf DEF Simple, Counted
<1>3. /\ Append(pendingFunctors_, x) \in Seq(Entries)
      /\ Names(Append(pendingFunctors_, x)) = Names(pendingFunctors_) \cup {x[1]}
      /\ Numbers(Append(pendingFunctors_, x)) = Numbers(pendingFunctors_) \cup Numbers(<<x>>)
  BY <1>1, NamesAppend
<1>4. QED
  BY <1>2, <1>3 DEF afterRemoval

LEMMA BlankNext == TypeOK /\ Blank /\ state_ = "kConnecting" /\ state_' = "kConnecting" /\ [Next]_vars => Blank'
<1> SUFFICES ASSUME TypeOK /\ Blank /\ state_ = "kConnecting" /\ state_' = "kConnecting", [Next]_vars
             PROVE  Blank'
  OBVIOUS
<1>1. CASE poll
  <2>1. PICK reported : /\ "PRI" \notin reported /\ agenda' = Reports(reported)
                        /\ reported # {} => channel.index = kAdded
    BY <1>1, PollOf
  <2>2. reported = {}
    BY <2>1, ChannelIsNew DEF Blank
  <2>3. agenda' = <<Run("doPendingFunctors")>>
    BY <2>1, <2>2, ReportsOf
  <2>4. Names(agenda') = {"doPendingFunctors"}
    BY <2>3, NamesShort DEF Run
  <2>5. QED
    BY <1>1, <2>4 DEF poll, Blank, Calls, connection, users, Raw, Handlers
<1>2. CASE doPendingFunctors
  <2>1. Names(agenda') \subseteq Names(pendingFunctors_) \cup {"endOfBatch"}
    BY <1>2, BatchOf DEF Kept
  <2>2. Names(pendingFunctors_') = {}
    BY <1>2, BatchOf, NamesShort
  <2>3. QED
    BY <1>2, <2>1, <2>2 DEF doPendingFunctors, Blank, Calls, connection, users, Raw, Handlers
<1>3. CASE endOfBatch
  <2>1. agenda # <<>> /\ agenda' = Tail(agenda)
    BY <1>3 DEF endOfBatch, Runs
  <2>2. Names(agenda') \subseteq Names(agenda)
    BY <2>1, HeadOf
  <2>3. QED
    BY <1>3, <2>2 DEF endOfBatch, Blank, Calls, connection, users
<1>4. CASE connectEstablished
  BY <1>4 DEF connectEstablished
<1>5. CASE connectDestroyed
  <2>1. agenda # <<>> /\ ~hasToDisconnect
    BY <1>5 DEF connectDestroyed, Runs, hasToDisconnect
  <2>2. PICK next \in Shorts : next = <<Run("remove")>>
    BY ShortsHas
  <2>3. agenda' = next \o Tail(agenda)
    <3>1. agenda' = (<<>> \o <<Run("remove")>>) \o Tail(agenda)
      BY <1>5, <2>1 DEF connectDestroyed
    <3>2. <<>> \o <<Run("remove")>> = <<Run("remove")>>
      BY Joins
    <3>3. QED
      BY <2>2, <3>1, <3>2
  <2>4. Names(agenda') \subseteq {"remove"} \cup Names(agenda)
    <3>1. Names(agenda') = Names(next) \cup Names(Tail(agenda))
      BY <2>1, <2>3, TakesOf
    <3>2. Names(next) = {"remove"}
      BY <2>2, NamesShort DEF Run
    <3>3. QED
      BY <2>1, <3>1, <3>2, HeadOf
  <2>5. QED
    BY <1>5, <2>4 DEF connectDestroyed, Blank, Calls, connection, users, Raw, Handlers
<1>6. CASE disconnect
  BY <1>6 DEF disconnect, Disconnects
<1>7. CASE handleClose
  BY <1>7 DEF handleClose, Disconnects
<1>8. CASE remove
  <2>1. agenda # <<>> /\ agenda' = Tail(agenda)
    BY <1>8 DEF remove, Runs
  <2>2. Names(agenda') \subseteq Names(agenda)
    BY <2>1, HeadOf
  <2>3. QED
    BY <1>8, <2>2, ChannelIsNew DEF remove, Blank, Calls, users
<1>9. CASE closeCallback
  <2>1. agenda # <<>> /\ agenda' = Tail(agenda)
    BY <1>9 DEF closeCallback, Runs
  <2>2. Names(agenda') \subseteq Names(agenda)
    BY <2>1, HeadOf
  <2>3. Names(pendingFunctors_') \subseteq Names(pendingFunctors_) \cup {"connectDestroyed"}
    BY <1>9, AfterRemoval DEF closeCallback
  <2>4. QED
    BY <1>9, <2>2, <2>3 DEF closeCallback, Blank, Calls, connection, users, Raw, Handlers
<1>10. CASE handleRead
  <2>1. Runs("handleRead")
    BY <1>10 DEF handleRead, HandlerStep
  <2>2. QED
    BY <2>1, HeadCalls DEF Blank, Raw, Handlers
<1>11. CASE handleError
  <2>1. Runs("handleError")
    BY <1>11 DEF handleError, HandlerStep
  <2>2. QED
    BY <2>1, HeadCalls DEF Blank, Raw, Handlers
<1>12. CASE handleWrite
  <2>1. Runs("handleWrite")
    BY <1>12 DEF handleWrite, HandlerStep
  <2>2. QED
    BY <2>1, HeadCalls DEF Blank, Raw, Handlers
<1>13. CASE queuedSend
  <2>1. Runs("sendInLoop")
    BY <1>13 DEF queuedSend, HandlerStep
  <2>2. QED
    BY <2>1, HeadCalls DEF Blank, Raw, Handlers
<1>14. CASE queuedShutdown
  <2>1. Runs("shutdownInLoop")
    BY <1>14 DEF queuedShutdown, HandlerStep
  <2>2. QED
    BY <2>1, HeadCalls DEF Blank, Raw, Handlers
<1>15. CASE callbackReturns
  <2>1. agenda # <<>> /\ agenda' = Tail(agenda)
    BY <1>15 DEF callbackReturns, InCallback, Runs
  <2>2. Names(agenda') \subseteq Names(agenda)
    BY <2>1, HeadOf
  <2>3. QED
    BY <1>15, <2>2 DEF callbackReturns, Blank, Calls, connection, users
<1>16. CASE callbackSends
  BY <1>16 DEF callbackSends
<1>17. CASE callbackShutsDown
  BY <1>17 DEF callbackShutsDown, mayShutDown
<1>18. ASSUME NEW u \in User, callbackShares(u) PROVE Blank'
  <2>1. UNCHANGED <<connection, loop, call>>
    BY <1>18 DEF callbackShares
  <2>2. QED
    BY <2>1 DEF Blank, Calls, connection, loop
<1>19. ASSUME NEW u \in User, send(u) PROVE Blank'
  BY <1>19 DEF send, mayShutDown
<1>20. ASSUME NEW u \in User, sendQueues(u) PROVE Blank'
  BY <1>20 DEF sendQueues, goesOn, Blank
<1>21. ASSUME NEW u \in User, shutdown(u) PROVE Blank'
  BY <1>21 DEF shutdown, mayShutDown
<1>22. ASSUME NEW u \in User, shutdownSets(u) PROVE Blank'
  BY <1>22 DEF shutdownSets, goesOn, Blank
<1>23. ASSUME NEW u \in User, shutdownQueues(u) PROVE Blank'
  BY <1>23 DEF shutdownQueues, goesOn, Blank
<1>24. ASSUME NEW u \in User, letsGo(u) PROVE Blank'
  <2>1. \A v \in User : call'[v] = "none"
    BY <1>24 DEF letsGo, goesOn, Blank, TypeOK
  <2>2. UNCHANGED <<connection, loop>>
    BY <1>24 DEF letsGo
  <2>3. QED
    BY <2>1, <2>2 DEF Blank, Calls, connection, loop
<1>25. CASE removeConnectionInLoop
  <2>1. Names(pendingFunctors_') \subseteq Names(pendingFunctors_) \cup {"connectDestroyed"}
    BY <1>25, AfterRemoval DEF removeConnectionInLoop
  <2>2. QED
    BY <1>25, <2>1 DEF removeConnectionInLoop, Blank, Calls, connection, users, Raw, Handlers
<1>26. CASE destroyServer
  <2>1. Names(pendingFunctors_') \subseteq Names(pendingFunctors_) \cup {"connectDestroyed"}
    BY <1>26, AfterRemoval DEF destroyServer, afterRemoval
  <2>2. Names(agenda') \subseteq Names(agenda) \cup {"connectDestroyed", "endOfBatch"}
    BY <1>26, NamesShort DEF destroyServer, Run
  <2>3. QED
    BY <1>26, <2>1, <2>2 DEF destroyServer, Blank, Calls, connection, users, Raw, Handlers
<1>27. CASE peerSends \/ peerTakes \/ peerCloses \/ peerResets
  BY <1>27 DEF peerSends, PeerStep, peerTakes, peerCloses, peerResets, Blank,
     Calls, connection, loop, users
<1>28. CASE UNCHANGED vars
  BY <1>28 DEF vars, connection, loop, users, Blank, Calls
<1>29. QED
  BY <1>1, <1>2, <1>3, <1>4, <1>5, <1>6, <1>7, <1>8, <1>9, <1>10, <1>11, <1>12,
     <1>13, <1>14, <1>15, <1>16, <1>17, <1>18, <1>19, <1>20, <1>21, <1>22,
     <1>23, <1>24, <1>25, <1>26, <1>27, <1>28 DEF Next, LoopStep, UserStep

LEMMA FreshNext == TypeOK /\ Fresh /\ InPlace /\ [Next]_vars => Fresh'
<1> SUFFICES ASSUME TypeOK, Fresh, InPlace, [Next]_vars PROVE Fresh'
  OBVIOUS
<1>1. StateStep
  BY StateNext
<1>2. ASSUME state_' = "kConnecting" PROVE Blank'
  <2>1. state_ = "kConnecting"
    BY <1>1, <1>2, Established DEF StateStep
  <2>2. QED
    BY <1>2, <2>1, BlankNext DEF Fresh
<1>3. ASSUME "connectEstablished" \in Calls' PROVE state_' = "kConnecting"
  <2>1. "connectEstablished" \in Calls /\ state_ = "kConnecting"
    BY <1>3, QueuesNext DEF Fresh
  <2>2. ~connectEstablished
    BY <1>3, Established
  <2>3. QED
    BY <1>1, <2>1, <2>2 DEF StateStep
<1>4. OnceQueued'
  BY QueuesNext DEF Fresh
<1>5. QED
  BY <1>2, <1>3, <1>4 DEF Fresh

ChannelInv == UpIsReading /\ WritesBuffered

LEMMA ChannelNext == TypeOK /\ Fresh /\ InPlace /\ ChannelInv /\ [Next]_vars => ChannelInv'
<1> SUFFICES ASSUME TypeOK /\ Fresh /\ InPlace /\ ChannelInv, [Next]_vars
             PROVE  ChannelInv'
  OBVIOUS
<1>1. CASE connectEstablished
  <2>1. state_ = "kConnecting" /\ channel = NewChannel /\ outputBuffer_ = <<>>
    BY <1>1, Established DEF Fresh, Blank
  <2>2. channel' = updated(readingEnabled(channel)) /\ outputBuffer_' = outputBuffer_
    BY <1>1 DEF connectEstablished
  <2>3. channel'.index = kAdded /\ kReadEvent \subseteq channel'.events /\ ~isWriting(channel')
    <3>1. channel \in ChannelValue
      BY DEF TypeOK
    <3>2. QED
      BY <2>1, <2>2, <3>1, ChannelOps, ChannelIsNew
  <2>4. QED
    BY <2>1, <2>2, <2>3 DEF ChannelInv, UpIsReading, WritesBuffered
<1>2. CASE disconnect
  <2>1. Runs("disconnect") /\ state_' = "kDisconnected" /\ channel' = updated(allDisabled(channel))
    BY <1>2 DEF disconnect, Disconnects
  <2>2. channel.index = kAdded
    BY <2>1, HeadCalls
  <2>3. channel'.index = kDeleted /\ kDeleted # kAdded
    <3>1. channel \in ChannelValue
      BY DEF TypeOK
    <3>2. QED
      BY <2>1, <2>2, <3>1, ChannelOps
  <2>4. QED
    BY <2>1, <2>3 DEF ChannelInv, UpIsReading, WritesBuffered
<1>3. CASE handleClose
  <2>1. Runs("handleClose") /\ state_' = "kDisconnected" /\ channel' = updated(allDisabled(channel))
    BY <1>3 DEF handleClose, Disconnects
  <2>2. channel.index = kAdded
    BY <2>1, HeadCalls
  <2>3. channel'.index = kDeleted /\ kDeleted # kAdded
    <3>1. channel \in ChannelValue
      BY DEF TypeOK
    <3>2. QED
      BY <2>1, <2>2, <3>1, ChannelOps
  <2>4. QED
    BY <2>1, <2>3 DEF ChannelInv, UpIsReading, WritesBuffered
<1>4. CASE remove
  <2>1. Runs("remove") /\ state_' = state_ /\ channel' = removed(channel)
    BY <1>4 DEF remove
  <2>2. state_ # "kConnected"
    BY <2>1, HeadCalls
  <2>3. channel'.index = kNew /\ kNew # kAdded
    <3>1. channel \in ChannelValue
      BY DEF TypeOK
    <3>2. QED
      BY <2>1, <3>1, ChannelOps
  <2>4. QED
    BY <2>1, <2>2, <2>3 DEF ChannelInv, UpIsReading, WritesBuffered
<1>5. CASE handleWrite
  <2>1. KeepsReading /\ state_' = state_
    BY <1>5, WriteEffect DEF handleWrite
  <2>2. QED
    BY <2>1 DEF KeepsReading, ChannelInv, UpIsReading
<1>6. CASE queuedSend
  <2>1. state_' = state_
    BY <1>6 DEF queuedSend
  <2>2. PICK byte \in 0..MaxSends : sendInLoop(byte)
    BY <1>6, QueuedByte
  <2>3. KeepsReading
    BY <2>2, SendEffect
  <2>4. QED
    BY <2>1, <2>3 DEF KeepsReading, ChannelInv, UpIsReading
<1>7. CASE callbackSends
  <2>1. sent' \in 0..MaxSends /\ sendInLoop(sent') /\ state_' = state_
    BY <1>7, CallbackByte DEF callbackSends
  <2>2. KeepsReading
    BY <2>1, SendEffect
  <2>3. QED
    BY <2>1, <2>2 DEF KeepsReading, ChannelInv, UpIsReading
<1>8. CASE poll \/ doPendingFunctors \/ endOfBatch \/ connectDestroyed
  BY <1>8 DEF poll, doPendingFunctors, endOfBatch, connectDestroyed, ChannelInv,
     UpIsReading, WritesBuffered, connection
<1>9. CASE closeCallback \/ handleRead \/ handleError \/ queuedShutdown
  BY <1>9 DEF closeCallback, handleRead, HandlerStep, handleError,
     queuedShutdown, ChannelInv, UpIsReading, WritesBuffered, connection
<1>10. CASE callbackReturns \/ callbackShutsDown \/ removeConnectionInLoop \/
           destroyServer
  BY <1>10 DEF callbackReturns, callbackShutsDown, removeConnectionInLoop,
     destroyServer, ChannelInv, UpIsReading, WritesBuffered, connection
<1>11. CASE peerSends \/ peerTakes \/ peerCloses \/ peerResets
  BY <1>11 DEF peerSends, PeerStep, peerTakes, peerCloses, peerResets,
     ChannelInv, UpIsReading, WritesBuffered, connection
<1>12. ASSUME NEW u \in User, callbackShares(u) \/ send(u) \/ sendQueues(u) \/
           shutdown(u) PROVE ChannelInv'
  BY <1>12 DEF callbackShares, send, goesOn, sendQueues, shutdown, ChannelInv,
     UpIsReading, WritesBuffered, connection
<1>13. ASSUME NEW u \in User, shutdownSets(u) \/ shutdownQueues(u) \/ letsGo(u)
           PROVE ChannelInv'
  BY <1>13 DEF shutdownSets, goesOn, shutdownQueues, letsGo, ChannelInv,
     UpIsReading, WritesBuffered, connection
<1>14. CASE UNCHANGED vars
  BY <1>14 DEF vars, connection, ChannelInv, UpIsReading, WritesBuffered
<1>15. QED
  BY <1>1, <1>2, <1>3, <1>4, <1>5, <1>6, <1>7, <1>8, <1>9, <1>10, <1>11, <1>12,
     <1>13, <1>14 DEF Next, LoopStep, UserStep

-----------------------------------------------------------------------------
(***************************************************************************)
(* The bytes.                                                              *)
(***************************************************************************)
StreamStep ==
    \/ /\ outputBuffer_' = outputBuffer_ /\ socket'.wire = socket.wire
       /\ socket'.taken = socket.taken
          \/ (socket.taken < Len(socket.wire) /\ socket'.taken = socket.taken + 1)
    \/ handleWrite
    \/ queuedSend
    \/ callbackSends

LEMMA StreamStepNext == TypeOK /\ [Next]_vars => StreamStep
<1> SUFFICES ASSUME TypeOK, [Next]_vars
             PROVE  StreamStep
  OBVIOUS
<1>1. CASE handleRead
  <2>1. socket \in SocketValue
    BY DEF TypeOK, SocketValue
  <2>2. QED
    BY <1>1, <2>1 DEF handleRead, HandlerStep, connection, StreamStep, SocketValue
<1>2. CASE handleError
  <2>1. socket \in SocketValue
    BY DEF TypeOK, SocketValue
  <2>2. QED
    BY <1>2, <2>1 DEF handleError, HandlerStep, connection, StreamStep, SocketValue
<1>3. CASE handleWrite
  BY <1>3 DEF StreamStep
<1>4. CASE queuedSend
  BY <1>4 DEF StreamStep
<1>5. CASE queuedShutdown
  <2>1. socket' = shutDown(channel, socket) /\ outputBuffer_' = outputBuffer_
    BY <1>5 DEF queuedShutdown, HandlerStep, connection
  <2>2. socket \in SocketValue
    BY DEF TypeOK, SocketValue
  <2>3. socket'.wire = socket.wire /\ SameInput(socket', socket)
    BY <2>1, <2>2, ShutDownOf
  <2>4. QED
    BY <2>1, <2>3 DEF StreamStep, SameInput
<1>6. CASE callbackSends
  BY <1>6 DEF StreamStep
<1>7. CASE callbackShutsDown
  <2>1. socket' = shutDown(channel, socket) /\ outputBuffer_' = outputBuffer_
    BY <1>7 DEF callbackShutsDown
  <2>2. socket \in SocketValue
    BY DEF TypeOK, SocketValue
  <2>3. socket'.wire = socket.wire /\ SameInput(socket', socket)
    BY <2>1, <2>2, ShutDownOf
  <2>4. QED
    BY <2>1, <2>3 DEF StreamStep, SameInput
<1>8. CASE peerSends
  <2>1. socket \in SocketValue
    BY DEF TypeOK, SocketValue
  <2>2. QED
    BY <1>8, <2>1 DEF peerSends, PeerStep, connection, StreamStep, SocketValue
<1>9. CASE peerTakes
  <2>1. socket \in SocketValue
    BY DEF TypeOK, SocketValue
  <2>2. QED
    BY <1>9, <2>1 DEF peerTakes, PeerStep, connection, StreamStep, SocketValue
<1>10. CASE peerCloses
  <2>1. socket \in SocketValue
    BY DEF TypeOK, SocketValue
  <2>2. QED
    BY <1>10, <2>1 DEF peerCloses, PeerStep, connection, StreamStep, SocketValue
<1>11. CASE peerResets
  <2>1. socket \in SocketValue
    BY DEF TypeOK, SocketValue
  <2>2. QED
    BY <1>11, <2>1 DEF peerResets, PeerStep, connection, StreamStep, SocketValue
<1>12. CASE poll \/ doPendingFunctors \/ endOfBatch \/ connectEstablished \/
           connectDestroyed
  BY <1>12 DEF poll, doPendingFunctors, endOfBatch, connectEstablished,
     connectDestroyed, StreamStep, connection
<1>13. CASE disconnect \/ handleClose \/ remove \/ closeCallback \/
           callbackReturns
  BY <1>13 DEF disconnect, Disconnects, handleClose, remove, closeCallback,
     callbackReturns, StreamStep, connection
<1>14. CASE removeConnectionInLoop \/ destroyServer
  BY <1>14 DEF removeConnectionInLoop, destroyServer, StreamStep, connection
<1>15. ASSUME NEW u \in User, callbackShares(u) \/ send(u) \/ sendQueues(u) \/
           shutdown(u) \/ shutdownSets(u) PROVE StreamStep
  BY <1>15 DEF callbackShares, send, goesOn, sendQueues, shutdown, shutdownSets,
     StreamStep, connection
<1>16. ASSUME NEW u \in User, shutdownQueues(u) \/ letsGo(u) PROVE StreamStep
  BY <1>16 DEF shutdownQueues, goesOn, letsGo, StreamStep, connection
<1>17. CASE UNCHANGED vars
  BY <1>17 DEF vars, connection, StreamStep
<1>18. QED
  BY <1>1, <1>2, <1>3, <1>4, <1>5, <1>6, <1>7, <1>8, <1>9, <1>10, <1>11, <1>12,
     <1>13, <1>14, <1>15, <1>16, <1>17 DEF Next, LoopStep, UserStep

LEMMA WaitingOf ==
  ASSUME TypeOK, DistinctQueued, [Next]_vars
  PROVE  /\ DistinctQueued'
         /\ 1..sent \ Waiting \subseteq 1..sent' \ Waiting'
<1>1. sent \in Nat /\ Waiting \subseteq 1..sent
  BY TcpConnectionAssumption DEF TypeOK, DistinctQueued
<1>2. sent' = sent \/ sent' = sent + 1
  BY SentStep
<1>3. /\ sent' = sent => Waiting' \subseteq Waiting
      /\ sent' # sent => Waiting' \subseteq Waiting \cup {sent'}
      /\ DistinctIn(agenda') /\ DistinctIn(pendingFunctors_')
      /\ Numbers(agenda') \cap Numbers(pendingFunctors_') = {}
  BY NumbersNext
<1>4. 1..sent \subseteq 1..sent'
  BY <1>1, <1>2
<1>5. Waiting' \subseteq 1..sent'
  <2>1. CASE sent' = sent
    BY <1>1, <1>3, <2>1
  <2>2. CASE sent' = sent + 1
    <3>1. sent' \in 1..sent' /\ sent' # sent
      BY <1>1, <2>2
    <3>2. QED
      BY <1>1, <1>3, <1>4, <3>1
  <2>3. QED
    BY <1>2, <2>1, <2>2
<1>6. 1..sent \ Waiting \subseteq 1..sent' \ Waiting'
  <2>1. CASE sent' = sent
    BY <1>3, <2>1
  <2>2. CASE sent' = sent + 1
    <3>1. sent' \notin 1..sent /\ sent' # sent
      BY <1>1, <2>2
    <3>2. QED
      BY <1>3, <1>4, <3>1
  <2>3. QED
    BY <1>2, <2>1, <2>2
<1>7. QED
  BY <1>3, <1>5, <1>6 DEF DistinctQueued

\* The message of a send() is traced to none of the bytes so far, and waits no
\* more.
LEMMA SendTraced ==
  ASSUME TypeOK, BytesTraced, NEW msg, NEW byte \in {msg, Garbage}, byte \in 0..MaxSends,
         sendInLoop(byte),
         msg \in 1..sent' \ Waiting', msg \notin 1..sent \ Waiting,
         1..sent \ Waiting \subseteq 1..sent' \ Waiting'
  PROVE  /\ Traced(socket'.wire, outputBuffer_', sent', Waiting')
         /\ socket'.taken <= Len(socket'.wire)
<1>1. /\ socket.wire \in Seq(0..MaxSends) /\ outputBuffer_ \in Seq(0..MaxSends)
      /\ socket.taken \in Nat /\ MaxSends \in Nat
  BY TcpConnectionAssumption DEF TypeOK
<1>2. /\ Len(socket.wire) \in Nat /\ Len(Append(socket.wire, byte)) = Len(socket.wire) + 1
      /\ socket.taken <= Len(socket.wire)
  BY <1>1 DEF BytesTraced
<1>3. Traced(socket.wire, outputBuffer_, sent, Waiting)
  BY DEF BytesTraced
<1>4. Traced(socket.wire, outputBuffer_, sent', Waiting')
  BY <1>3, TracedGrows
<1>5. /\ Traced(Append(socket.wire, byte), outputBuffer_, sent', Waiting')
      /\ Traced(socket.wire, Append(outputBuffer_, byte), sent', Waiting')
  BY <1>1, <1>3, TracedAppend
<1>6. socket'.taken = socket.taken
  BY SendEffect DEF SameInput
<1>7. \/ outputBuffer_' = outputBuffer_ /\ socket'.wire = socket.wire
      \/ outputBuffer_' = outputBuffer_ /\ socket'.wire = Append(socket.wire, byte)
      \/ outputBuffer_' = Append(outputBuffer_, byte) /\ socket'.wire = socket.wire
  BY SendEffect
<1>8. socket'.taken <= Len(socket'.wire)
  BY <1>1, <1>2, <1>6, <1>7
<1>9. QED
  BY <1>4, <1>5, <1>7, <1>8

LEMMA BytesNext == TypeOK /\ BytesTraced /\ [Next]_vars => BytesTraced'
<1> SUFFICES ASSUME TypeOK, BytesTraced, [Next]_vars PROVE BytesTraced'
  OBVIOUS
<1>1. DistinctQueued' /\ 1..sent \ Waiting \subseteq 1..sent' \ Waiting'
  BY WaitingOf DEF BytesTraced
<1>2. /\ socket.wire \in Seq(0..MaxSends) /\ outputBuffer_ \in Seq(0..MaxSends)
      /\ socket.taken \in Nat /\ Len(socket.wire) \in Nat /\ sent \in Nat
      /\ agenda \in Seq(Entries)
  BY TcpConnectionAssumption DEF TypeOK
<1>3. /\ Traced(socket.wire, outputBuffer_, sent, Waiting)
      /\ socket.taken <= Len(socket.wire)
      /\ DistinctQueued
  BY DEF BytesTraced
<1>4. CASE /\ outputBuffer_' = outputBuffer_ /\ socket'.wire = socket.wire
           /\ socket'.taken = socket.taken
              \/ (socket.taken < Len(socket.wire) /\ socket'.taken = socket.taken + 1)
  <2>1. Traced(socket'.wire, outputBuffer_', sent', Waiting')
    BY <1>1, <1>3, <1>4, TracedGrows
  <2>2. socket'.taken <= Len(socket'.wire)
    BY <1>2, <1>3, <1>4
  <2>3. QED
    BY <1>1, <2>1, <2>2 DEF BytesTraced
<1>5. CASE handleWrite
  <2>1. PICK n \in 0..Len(outputBuffer_) : Writes(n)
    BY <1>5, WriteEffect
  <2>2. Traced(socket'.wire, outputBuffer_', sent, Waiting)
    BY <1>2, <1>3, <2>1, TracedWrite DEF Writes
  <2>3. Traced(socket'.wire, outputBuffer_', sent', Waiting')
    BY <1>1, <2>2, TracedGrows
  <2>4. socket'.taken <= Len(socket'.wire)
    <3>1. socket'.taken = socket.taken
      BY <1>5, WriteEffect DEF SameInput
    <3>2. SubSeq(outputBuffer_, 1, n) \in Seq(0..MaxSends)
      BY <1>2, SplitOf
    <3>3. Len(socket'.wire) = Len(socket.wire) + Len(SubSeq(outputBuffer_, 1, n))
          /\ Len(SubSeq(outputBuffer_, 1, n)) \in Nat
      BY <1>2, <2>1, <3>2, ConcatOf DEF Writes
    <3>4. \A a, b, c \in Nat : c <= a => c <= a + b
      OBVIOUS
    <3>5. socket.taken <= Len(socket.wire) + Len(SubSeq(outputBuffer_, 1, n))
      BY <1>2, <1>3, <3>3, <3>4
    <3>6. QED
      BY <3>1, <3>3, <3>5
  <2>5. QED
    BY <1>1, <2>3, <2>4 DEF BytesTraced
<1>6. CASE queuedSend
  <2> DEFINE msg == Head(agenda)[2]
  <2>1. /\ agenda # <<>> /\ Head(agenda)[1] = "sendInLoop"
        /\ \E byte \in {msg, Garbage} : byte \in 0..MaxSends /\ sendInLoop(byte)
    BY <1>6, QueuedByte
  <2>2. sent' = sent /\ agenda' = Tail(agenda)
    BY <1>6, <2>1, HeadOf DEF queuedSend, HandlerStep, history
  <2>3. Numbers(agenda) = Numbers(Tail(agenda)) \cup {msg}
    BY <1>2, <2>1, NamesTail
  <2>4. msg \notin Numbers(Tail(agenda))
    BY <1>2, <1>3, <2>1, OnceTail DEF DistinctQueued
  <2>5. Numbers(pendingFunctors_') = Numbers(pendingFunctors_)
    <3>1. Queues({"writeCompleteCallback", "highWaterMarkCallback"})
      BY <2>1, SendEffect
    <3>2. Queues(Queued)
      BY <3>1 DEF Queues, Queued, Counted
    <3>3. QED
      BY <3>2, QueuesOf
  <2>6. msg \in Waiting /\ msg \notin Waiting'
    BY <1>3, <2>2, <2>3, <2>4, <2>5 DEF Waiting, DistinctQueued
  <2>7. msg \in 1..sent'
    BY <1>3, <2>2, <2>6 DEF DistinctQueued
  <2> HIDE DEF msg
  <2>8. PICK byte \in {msg, Garbage} : byte \in 0..MaxSends /\ sendInLoop(byte)
    BY <2>1
  <2>9. /\ Traced(socket'.wire, outputBuffer_', sent', Waiting')
        /\ socket'.taken <= Len(socket'.wire)
    BY <1>1, <2>6, <2>7, <2>8, SendTraced
  <2>10. QED
    BY <1>1, <2>9 DEF BytesTraced
<1>7. CASE callbackSends
  <2> DEFINE msg == sent + 1
  <2>1. sent' = msg /\ msg \in 0..MaxSends /\ sendInLoop(msg) /\ agenda' = agenda
    BY <1>7, CallbackByte DEF callbackSends
  <2>2. Numbers(pendingFunctors_') = Numbers(pendingFunctors_)
    <3>1. Queues({"writeCompleteCallback", "highWaterMarkCallback"})
      BY <2>1, SendEffect
    <3>2. Queues(Queued)
      BY <3>1 DEF Queues, Queued, Counted
    <3>3. QED
      BY <3>2, QueuesOf
  <2>3. Waiting' = Waiting
    BY <2>1, <2>2 DEF Waiting
  <2>4. msg \in 1..sent' /\ msg \notin 1..sent
    BY <1>2, <2>1
  <2>5. msg \notin Waiting'
    BY <1>3, <2>3, <2>4 DEF DistinctQueued
  <2> HIDE DEF msg
  <2>6. /\ Traced(socket'.wire, outputBuffer_', sent', Waiting')
        /\ socket'.taken <= Len(socket'.wire)
    BY <1>1, <2>1, <2>4, <2>5, SendTraced
  <2>7. QED
    BY <1>1, <2>6 DEF BytesTraced
<1>8. QED
  BY <1>4, <1>5, <1>6, <1>7, StreamStepNext DEF StreamStep

-----------------------------------------------------------------------------
(***************************************************************************)
(* The theorems.                                                           *)
(***************************************************************************)
LEMMA InitIInv == Init => IInv
<1> SUFFICES ASSUME Init PROVE IInv
  OBVIOUS
<1>1. /\ Run("connectEstablished") \in Entries /\ Run("endOfBatch") \in Entries
      /\ Run("connectEstablished")[1] = "connectEstablished" /\ Run("endOfBatch")[1] = "endOfBatch"
  BY EntriesOf DEF Simple, Counted
<1>2. /\ agenda \in Seq(Entries) /\ Names(agenda) \subseteq {"connectEstablished", "endOfBatch"}
      /\ Numbers(agenda) = {} /\ OnceIn(agenda, "connectEstablished")
  <2>1. CASE agenda = <<>>
    BY <2>1, NamesShort, OnceShort
  <2>2. CASE agenda = <<Run("connectEstablished"), Run("endOfBatch")>>
    <3>1. agenda \in Seq(Entries)
      BY <1>1, <2>2
    <3>2. Names(agenda) = {"connectEstablished", "endOfBatch"} /\ Numbers(agenda) = {}
      BY <1>1, <2>2, NamesShort
    <3>3. OnceIn(agenda, "connectEstablished")
      BY <1>1, <2>2, OnceShort
    <3>4. QED
      BY <3>1, <3>2, <3>3
  <2>3. QED
    BY <2>1, <2>2 DEF Init
<1>3. /\ pendingFunctors_ \in Seq(Entries)
      /\ Names(pendingFunctors_) \subseteq {"connectEstablished"}
      /\ Numbers(pendingFunctors_) = {} /\ OnceIn(pendingFunctors_, "connectEstablished")
  <2>1. CASE pendingFunctors_ = <<>>
    BY <2>1, NamesShort, OnceShort
  <2>2. CASE pendingFunctors_ = <<Run("connectEstablished")>>
    <3>1. pendingFunctors_ \in Seq(Entries)
      BY <1>1, <2>2
    <3>2. QED
      BY <1>1, <2>2, <3>1, NamesShort, OnceShort
  <2>3. QED
    BY <2>1, <2>2 DEF Init
<1>4. Names(agenda) \cap Names(pendingFunctors_) = {}
  BY NamesShort DEF Init
<1>5. NewChannel \in ChannelValue
  BY DEF NewChannel, ChannelValue, Events, kNoneEvent
<1>6. TypeOK
  <2>1. MaxSends \in Nat /\ MaxInput \in Nat /\ 0 \in 0..MaxSends /\ 0 \in 0..MaxInput
    BY TcpConnectionAssumption
  <2>2. socket \in SocketValue
    BY <2>1 DEF Init, SocketValue
  <2>3. /\ holds \in [User -> BOOLEAN]
        /\ call \in [User -> {"none", "send", "shutdown", "shutdownInLoop"}]
    BY DEF Init
  <2>4. {guard, singleLoop, inServer, serverUp, killed} \subseteq BOOLEAN
    BY TcpConnectionAssumption DEF Init
  <2>5. /\ state_ = "kConnecting" /\ channel \in ChannelValue /\ outputBuffer_ \in Seq(0..MaxSends)
        /\ removals = 0 /\ sent \in 0..MaxSends /\ ups = 0 /\ downs = 0 /\ destroys = 0
    BY <1>5, <2>1 DEF Init
  <2>6. QED
    BY <1>2, <1>3, <2>2, <2>3, <2>4, <2>5 DEF TypeOK, SocketValue
<1>7. Fresh
  BY <1>2, <1>3, <1>4 DEF Init, Fresh, Blank, OnceQueued, Calls, Raw, Handlers
<1>8. InPlace
  <2>1. \A i \in DOMAIN agenda : agenda[i][1] \in {"connectEstablished", "endOfBatch"}
    BY <1>2 DEF Names
  <2>2. QED
    BY <1>3, <2>1 DEF InPlace, Counted, Raw
<1>9. UpIsReading /\ WritesBuffered
  BY ChannelIsNew DEF Init, UpIsReading, WritesBuffered
<1>10. BytesTraced
  <2>1. Waiting = {}
    BY <1>2, <1>3 DEF Waiting
  <2>2. DistinctQueued
    BY <1>2, <1>3, <2>1, NoneIsOnce DEF DistinctQueued
  <2>3. Traced(<<>>, <<>>, 0, {})
    <3> DEFINE none == [i \in 1..0 |-> i]
    <3>1. Len(<<>>) = 0 /\ 1..0 = {}
      OBVIOUS
    <3>2. none \in [1..Len(<<>>) -> 1..0 \ {}] /\ DOMAIN none = {}
      BY <3>1
    <3> HIDE DEF none
    <3>3. Traces(<<>>, <<>>, none, none)
      BY <3>1, <3>2 DEF Traces, Injective
    <3>4. QED
      BY <3>2, <3>3 DEF Traced
  <2>4. /\ socket.wire = <<>> /\ outputBuffer_ = <<>> /\ sent = 0
        /\ socket.taken <= Len(socket.wire)
    BY DEF Init
  <2>5. QED
    BY <2>1, <2>2, <2>3, <2>4 DEF BytesTraced
<1>11. QED
  BY <1>6, <1>7, <1>8, <1>9, <1>10 DEF IInv

LEMMA NextIInv == IInv /\ [Next]_vars => IInv'
<1> SUFFICES ASSUME IInv, [Next]_vars PROVE IInv'
  OBVIOUS
<1>1. TypeOK /\ Fresh /\ InPlace /\ UpIsReading /\ WritesBuffered /\ BytesTraced
  BY DEF IInv
<1>2. TypeOK'
  BY <1>1, TypeNext
<1>3. Fresh'
  BY <1>1, FreshNext
<1>4. InPlace'
  BY <1>1, InPlaceNext
<1>5. ChannelInv'
  BY <1>1, ChannelNext DEF ChannelInv
<1>6. BytesTraced'
  BY <1>1, BytesNext
<1>7. QED
  BY <1>2, <1>3, <1>4, <1>5, <1>6 DEF IInv, ChannelInv

LEMMA Invariance == Spec => []IInv
<1>1. QED
  BY InitIInv, NextIInv, PTL DEF Spec

\* Every variable keeps its type, however the threads interleave; in
\* particular what the peer has taken never passes MaxSends
\* (the members of TcpConnection.h:74-101).
THEOREM TypeCorrect == Spec => []TypeOK
<1>1. IInv => TypeOK
  BY DEF IInv
<1>2. QED
  BY <1>1, Invariance, PTL

\* EPOLLOUT is asked for exactly while there is something to write
\* (TcpConnection.cc:111-128, 224-226).
THEOREM WritingExactlyWhenBuffered == Spec => []WritingIffBuffered
<1>1. IInv => WritingIffBuffered
  BY DEF IInv, WritesBuffered, WritingIffBuffered
<1>2. QED
  BY <1>1, Invariance, PTL

\* No message goes out twice, however the threads interleave
\* (handleWrite and retrieve, TcpConnection.cc:218-224).
THEOREM EachSentOnce == Spec => []SentOnce
<1>1. IInv => SentOnce
  <2> SUFFICES ASSUME IInv PROVE SentOnce
    OBVIOUS
  <2>1. /\ socket.wire \in Seq(0..MaxSends) /\ outputBuffer_ \in Seq(0..MaxSends)
        /\ Traced(socket.wire, outputBuffer_, sent, Waiting)
    BY DEF IInv, TypeOK, BytesTraced
  <2>2. QED
    BY <2>1, TracedOnce DEF SentOnce
<1>2. QED
  BY <1>1, Invariance, PTL

\* kDisconnected is final, but for the shutdown() of another thread that had
\* read kConnected (TcpConnection.cc:135-137).
THEOREM DisconnectedStays == Spec => DisconnectedIsFinal
<1>1. IInv /\ [Next]_vars =>
         [state_ = "kDisconnected" /\ state_' # "kDisconnected"
            => \E u \in User : call[u] = "shutdown" /\ call'[u] = "shutdownInLoop"]_vars
  BY StateNext DEF IInv, StateStep
<1>2. QED
  BY <1>1, Invariance, PTL DEF Spec, DisconnectedIsFinal

=============================================================================
