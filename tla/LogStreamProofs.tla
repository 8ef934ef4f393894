--------------------------- MODULE LogStreamProofs ---------------------------
(***************************************************************************)
(* For any number of threads, statements and ticks of the clock: the log   *)
(* files hold whole lines with the stamp of their own thread, but for the  *)
(* race on localtime's result, and a FATAL line in a file ends the process.*)
(***************************************************************************)
EXTENDS LogStream, TLAPS

\* A line is written in two pieces, its head and its tail.
HeadPart == [part: {"head"}, thread: Thread, level: LogLevel, stamp: Stamp,
             own: Stamp, raced: BOOLEAN]
TailPart == [part: {"tail"}, thread: Thread]

FilesAreFragments == file \in [Day -> Seq(HeadPart \cup TailPart)]

\* fileMutex is held exactly where the code is inside the locked block.
LockedInBlock == \A t \in Thread : fileMutex = t <=> pc[t] \in {"open", "write"}

\* As far as a thread has read its stamp, it is the moment it read off the
\* clock, unless the structure was changed under its hands.
StampSound ==
    \A t \in Thread :
        \/ raced[t]
        \/ /\ pc[t] \in {"date", "time"} => tm = brokenDown(now[t])
           /\ pc[t] = "time" => stamp[t].day = brokenDown(now[t]).day
           /\ pc[t] \in {"lock", "open", "write"} => stamp[t] = brokenDown(now[t])

\* The last fragment of a file is a head exactly while its thread is writing.
Open(d, t) ==
    /\ file[d] # <<>>
    /\ file[d][Len(file[d])].part = "head"
    /\ file[d][Len(file[d])].thread = t

OneLineOpen ==
    \A d \in Day, t \in Thread : Open(d, t) <=> pc[t] = "write" /\ stamp[t].day = d

\* The thread of a FATAL head has not gone on, and remembers the level.
FatalIsKept ==
    \A d \in Day : \A i \in DOMAIN file[d] :
        file[d][i].part = "head" /\ file[d][i].level = "FATAL"
            => \/ exited
               \/ LET t == file[d][i].thread
                  IN  pc[t] \in {"write", "logged"} /\ statement[t].level = "FATAL"

IInv ==
    /\ TypeOK
    /\ FilesAreFragments
    /\ LockedInBlock
    /\ StampSound
    /\ OneLineOpen
    /\ LinesSound
    /\ FatalIsKept
-----------------------------------------------------------------------------
LEMMA Remainder ==
  ASSUME NEW a \in Nat, NEW b \in Nat \ {0} PROVE a % b \in 0..(b - 1)
OBVIOUS

\* A moment broken down is a date and a time of day.
LEMMA BrokenDown ==
  ASSUME NEW t \in Clock PROVE brokenDown(t) \in Stamp
<1>1. t \div TicksPerDay \in Day
  BY DEF Day
<1>2. t % TicksPerDay \in 0..(TicksPerDay - 1)
  BY Remainder, LogAssumption DEF Clock
<1>3. QED
  BY <1>1, <1>2 DEF brokenDown, Stamp

LEMMA TypeInit == Init => TypeOK
<1> SUFFICES ASSUME Init PROVE TypeOK
  OBVIOUS
<1>1. 0 \in Clock
  BY LogAssumption DEF Clock
<1>2. brokenDown(0) \in Stamp
  BY <1>1, BrokenDown
<1>3. pc \in [Thread -> {"idle", "now", "localtime", "date", "time", "lock",
                        "open", "write", "logged"}]
  BY DEF Init
<1>4. statement \in [Thread -> [level: LogLevel, text: BOOLEAN]]
  BY DEF Init, LogLevel
<1>5. fileMutex \in Thread \cup {Nobody} /\ lines \in 0..MaxLines
  BY LogAssumption DEF Init
<1>9. exited \in BOOLEAN
  BY DEF Init
<1>6. now \in [Thread -> Clock] /\ clock \in Clock /\ raced \in [Thread -> BOOLEAN]
  BY <1>1 DEF Init
<1>7. stamp \in [Thread -> Stamp] /\ tm \in Stamp /\ DOMAIN file = Day
  BY <1>2 DEF Init
<1>8. QED
  BY <1>3, <1>4, <1>5, <1>9, <1>6, <1>7 DEF TypeOK

LEMMA TypeNext ==
  TypeOK /\ [Next]_vars => TypeOK'
<1> SUFFICES ASSUME TypeOK, [Next]_vars PROVE TypeOK'
  OBVIOUS
<1> USE LogAssumption DEF TypeOK, Clock
<1>1. ASSUME NEW t \in Thread, NEW level \in LogLevel, NEW text \in BOOLEAN,
        log(t, level, text) PROVE TypeOK'
  BY <1>1 DEF log, Goes
<1>2. ASSUME NEW t \in Thread, readClock(t) PROVE TypeOK'
  BY <1>2 DEF readClock, Goes
<1>3. ASSUME NEW t \in Thread, localtime(t) PROVE TypeOK'
  BY <1>3, BrokenDown DEF localtime, converted, Goes
<1>4. ASSUME NEW t \in Thread, readDate(t) PROVE TypeOK'
  BY <1>4 DEF readDate, Goes, Stamp
<1>5. ASSUME NEW t \in Thread, readTime(t) PROVE TypeOK'
  BY <1>5 DEF readTime, Goes, Stamp
<1>6. ASSUME NEW t \in Thread, lock(t) PROVE TypeOK'
  BY <1>6 DEF lock, mayLock, Goes
<1>7. ASSUME NEW t \in Thread, open(t) PROVE TypeOK'
  BY <1>7 DEF open, Goes
<1>8. ASSUME NEW t \in Thread, write(t) PROVE TypeOK'
  BY <1>8 DEF write, Goes
<1>9. ASSUME NEW t \in Thread, finish(t) PROVE TypeOK'
  BY <1>9 DEF finish, exits, Goes
<1>10. CASE tick
  BY <1>10 DEF tick
<1>11. CASE done \/ UNCHANGED vars
  BY <1>11 DEF done, vars
<1>12. QED
  BY <1>1, <1>2, <1>3, <1>4, <1>5, <1>6, <1>7, <1>8, <1>9, <1>10, <1>11 DEF Next

\* Every variable keeps its type, for any threads and any clock.
THEOREM TypeCorrect == Spec => []TypeOK
BY TypeInit, TypeNext, PTL DEF Spec
-----------------------------------------------------------------------------
LEMMA FilesNext ==
  TypeOK /\ FilesAreFragments /\ [Next]_vars => FilesAreFragments'
<1> SUFFICES ASSUME TypeOK /\ FilesAreFragments, [Next]_vars PROVE FilesAreFragments'
  OBVIOUS
<1> USE LogAssumption DEF TypeOK, FilesAreFragments
<1>1. ASSUME NEW t \in Thread, NEW level \in LogLevel, NEW text \in BOOLEAN,
        log(t, level, text) PROVE FilesAreFragments'
  BY <1>1 DEF log, Goes
<1>2. ASSUME NEW t \in Thread, readClock(t) PROVE FilesAreFragments'
  BY <1>2 DEF readClock, Goes
<1>3. ASSUME NEW t \in Thread, localtime(t) PROVE FilesAreFragments'
  BY <1>3 DEF localtime, converted, Goes
<1>4. ASSUME NEW t \in Thread, readDate(t) PROVE FilesAreFragments'
  BY <1>4 DEF readDate, Goes
<1>5. ASSUME NEW t \in Thread, readTime(t) PROVE FilesAreFragments'
  BY <1>5 DEF readTime, Goes
<1>6. ASSUME NEW t \in Thread, lock(t) PROVE FilesAreFragments'
  BY <1>6 DEF lock, mayLock, Goes
<1>7. ASSUME NEW t \in Thread, open(t) PROVE FilesAreFragments'
  <2>1. CASE UNCHANGED file
    BY <2>1
  <2>2. CASE file' = [file EXCEPT ![stamp[t].day] = Append(@, Head1(t))]
    <3>1. stamp[t].day \in Day /\ Head1(t) \in HeadPart
      BY BrokenDown DEF Head1, HeadPart, Stamp
    <3>2. QED
      BY <2>2, <3>1
  <2>3. QED
    BY <1>7, <2>1, <2>2 DEF open
<1>8. ASSUME NEW t \in Thread, write(t) PROVE FilesAreFragments'
  <2>1. stamp[t].day \in Day /\ Tail1(t) \in TailPart
    BY DEF Tail1, TailPart, Stamp
  <2>2. QED
    BY <1>8, <2>1 DEF write
<1>9. ASSUME NEW t \in Thread, finish(t) PROVE FilesAreFragments'
  BY <1>9 DEF finish, exits, Goes
<1>10. CASE tick
  BY <1>10 DEF tick
<1>11. CASE done \/ UNCHANGED vars
  BY <1>11 DEF done, vars
<1>12. QED
  BY <1>1, <1>2, <1>3, <1>4, <1>5, <1>6, <1>7, <1>8, <1>9, <1>10, <1>11 DEF Next

LEMMA LockNext ==
  TypeOK /\ LockedInBlock /\ [Next]_vars => LockedInBlock'
<1> SUFFICES ASSUME TypeOK /\ LockedInBlock, [Next]_vars PROVE LockedInBlock'
  OBVIOUS
<1> USE LogAssumption DEF TypeOK, LockedInBlock
<1>1. ASSUME NEW t \in Thread, NEW level \in LogLevel, NEW text \in BOOLEAN,
        log(t, level, text) PROVE LockedInBlock'
  BY <1>1 DEF log, Goes
<1>2. ASSUME NEW t \in Thread, readClock(t) PROVE LockedInBlock'
  BY <1>2 DEF readClock, Goes
<1>3. ASSUME NEW t \in Thread, localtime(t) PROVE LockedInBlock'
  BY <1>3 DEF localtime, converted, Goes
<1>4. ASSUME NEW t \in Thread, readDate(t) PROVE LockedInBlock'
  BY <1>4 DEF readDate, Goes
<1>5. ASSUME NEW t \in Thread, readTime(t) PROVE LockedInBlock'
  BY <1>5 DEF readTime, Goes
<1>6. ASSUME NEW t \in Thread, lock(t) PROVE LockedInBlock'
  BY <1>6 DEF lock, mayLock, Goes
<1>7. ASSUME NEW t \in Thread, open(t) PROVE LockedInBlock'
  BY <1>7 DEF open, Goes
<1>8. ASSUME NEW t \in Thread, write(t) PROVE LockedInBlock'
  BY <1>8 DEF write, Goes
<1>9. ASSUME NEW t \in Thread, finish(t) PROVE LockedInBlock'
  BY <1>9 DEF finish, exits, Goes
<1>10. CASE tick
  BY <1>10 DEF tick
<1>11. CASE done \/ UNCHANGED vars
  BY <1>11 DEF done, vars
<1>12. QED
  BY <1>1, <1>2, <1>3, <1>4, <1>5, <1>6, <1>7, <1>8, <1>9, <1>10, <1>11 DEF Next

LEMMA StampNext ==
  TypeOK /\ StampSound /\ [Next]_vars => StampSound'
<1> SUFFICES ASSUME TypeOK /\ StampSound, [Next]_vars PROVE StampSound'
  OBVIOUS
<1> USE LogAssumption DEF TypeOK, StampSound
<1>1. ASSUME NEW t \in Thread, NEW level \in LogLevel, NEW text \in BOOLEAN,
        log(t, level, text) PROVE StampSound'
  BY <1>1 DEF log, Goes
<1>2. ASSUME NEW t \in Thread, readClock(t) PROVE StampSound'
  BY <1>2 DEF readClock, Goes
<1>3. ASSUME NEW t \in Thread, localtime(t) PROVE StampSound'
  BY <1>3 DEF localtime, converted, Goes
<1>4. ASSUME NEW t \in Thread, readDate(t) PROVE StampSound'
  BY <1>4 DEF readDate, Goes, Stamp
<1>5. ASSUME NEW t \in Thread, readTime(t) PROVE StampSound'
  BY <1>5 DEF readTime, Goes, Stamp
<1>6. ASSUME NEW t \in Thread, lock(t) PROVE StampSound'
  BY <1>6 DEF lock, mayLock, Goes
<1>7. ASSUME NEW t \in Thread, open(t) PROVE StampSound'
  BY <1>7 DEF open, Goes
<1>8. ASSUME NEW t \in Thread, write(t) PROVE StampSound'
  BY <1>8 DEF write, Goes
<1>9. ASSUME NEW t \in Thread, finish(t) PROVE StampSound'
  BY <1>9 DEF finish, exits, Goes
<1>10. CASE tick
  BY <1>10 DEF tick
<1>11. CASE done \/ UNCHANGED vars
  BY <1>11 DEF done, vars
<1>12. QED
  BY <1>1, <1>2, <1>3, <1>4, <1>5, <1>6, <1>7, <1>8, <1>9, <1>10, <1>11 DEF Next

LEMMA OpenNext ==
  TypeOK /\ FilesAreFragments /\ LockedInBlock /\ OneLineOpen /\ [Next]_vars
  => OneLineOpen'
<1> SUFFICES ASSUME TypeOK, FilesAreFragments, LockedInBlock, OneLineOpen, [Next]_vars
             PROVE  OneLineOpen'
  OBVIOUS
<1> USE LogAssumption DEF TypeOK
<1>1. ASSUME NEW t \in Thread, open(t) PROVE OneLineOpen'
  <2>1. CASE file' = [file EXCEPT ![stamp[t].day] = Append(@, Head1(t))] /\ pc' = [pc EXCEPT ![t] = "write"]
    <3> SUFFICES ASSUME NEW d \in Day, NEW u \in Thread
                 PROVE  Open(d, u)' <=> pc'[u] = "write" /\ stamp'[u].day = d
      BY DEF OneLineOpen
    <3>1. stamp[t].day \in Day /\ stamp' = stamp
      BY <1>1 DEF open, Stamp
    <3>2. pc[u] # "write"
      BY <1>1 DEF LockedInBlock, open, Goes
    <3>3. CASE d = stamp[t].day
      <4>1. file'[d] = Append(file[d], Head1(t))
        BY <2>1, <3>3 DEF FilesAreFragments
      <4>2. file[d] \in Seq(HeadPart \cup TailPart)
        BY DEF FilesAreFragments
      <4>3. Len(file'[d]) = Len(file[d]) + 1 /\ file'[d][Len(file'[d])] = Head1(t) /\ file'[d] # <<>>
        BY <4>1, <4>2
      <4>4. Open(d, u)' <=> u = t
        BY <4>3 DEF Open, Head1
      <4>5. QED
        BY <4>4, <3>1, <3>2, <3>3, <2>1
    <3>4. CASE d # stamp[t].day
      <4>1. file'[d] = file[d]
        BY <2>1, <3>4 DEF FilesAreFragments
      <4>2. Open(d, u)' <=> Open(d, u)
        BY <4>1 DEF Open
      <4>3. QED
        BY <4>2, <3>1, <3>2, <3>4, <2>1 DEF OneLineOpen
    <3>5. QED
      BY <3>3, <3>4
  <2>2. CASE UNCHANGED file /\ pc' = [pc EXCEPT ![t] = "idle"]
    BY <1>1, <2>2 DEF open, Goes, OneLineOpen, Open
  <2>3. QED
    BY <1>1, <2>1, <2>2 DEF open, Goes
<1>2. ASSUME NEW t \in Thread, write(t) PROVE OneLineOpen'
  <2> SUFFICES ASSUME NEW d \in Day, NEW u \in Thread
               PROVE  Open(d, u)' <=> pc'[u] = "write" /\ stamp'[u].day = d
    BY DEF OneLineOpen
  <2>1. stamp[t].day \in Day /\ stamp' = stamp /\ pc' = [pc EXCEPT ![t] = "logged"]
    BY <1>2 DEF write, Goes, Stamp
  <2>2. u # t => pc[u] # "write"
    BY <1>2 DEF LockedInBlock, write, Goes
  <2>3. CASE d = stamp[t].day
    <3>1. file'[d] = Append(file[d], Tail1(t))
      BY <1>2, <2>1, <2>3 DEF FilesAreFragments, write
    <3>2. file[d] \in Seq(HeadPart \cup TailPart)
      BY DEF FilesAreFragments
    <3>3. file'[d][Len(file'[d])] = Tail1(t)
      BY <3>1, <3>2
    <3>4. ~Open(d, u)'
      BY <3>3 DEF Open, Tail1
    <3>5. QED
      BY <3>4, <2>1, <2>2
  <2>4. CASE d # stamp[t].day
    <3>1. file'[d] = file[d]
      BY <1>2, <2>4 DEF FilesAreFragments, write
    <3>2. Open(d, u)' <=> Open(d, u)
      BY <3>1 DEF Open
    <3>3. QED
      BY <3>2, <2>1, <2>2, <2>4 DEF OneLineOpen
  <2>5. QED
    BY <2>3, <2>4
<1>3. ASSUME UNCHANGED file,
             \A u \in Thread : pc'[u] = "write" <=> pc[u] = "write",
             \A u \in Thread : pc[u] = "write" => stamp'[u].day = stamp[u].day
      PROVE  OneLineOpen'
  BY <1>3 DEF OneLineOpen, Open
<1>4. ASSUME NEW t \in Thread, NEW level \in LogLevel, NEW text \in BOOLEAN,
             log(t, level, text)
      PROVE  OneLineOpen'
  BY <1>3, <1>4 DEF log, Goes
<1>5. ASSUME NEW t \in Thread,
             readClock(t) \/ localtime(t) \/ lock(t) \/ finish(t)
      PROVE  OneLineOpen'
  BY <1>3, <1>5 DEF readClock, localtime, lock, finish, Goes
<1>6. ASSUME NEW t \in Thread, readDate(t) \/ readTime(t) PROVE OneLineOpen'
  BY <1>3, <1>6 DEF readDate, readTime, Goes
<1>7. CASE tick \/ done \/ UNCHANGED vars
  BY <1>3, <1>7 DEF tick, done, vars
<1>8. QED
  BY <1>1, <1>2, <1>4, <1>5, <1>6, <1>7 DEF Next
-----------------------------------------------------------------------------
\* One fragment of LinesSound.
Ended(d, i) == i < Len(file[d]) /\ file[d][i + 1] = Tail1(file[d][i].thread)

HeadSound(d, i) ==
    /\ file[d][i].stamp = file[d][i].own \/ file[d][i].raced
    /\ (i = Len(file[d]) /\ fileMutex = file[d][i].thread) \/ Ended(d, i)

TailSound(d, i) ==
    i > 1 /\ file[d][i - 1].part = "head" /\ file[d][i - 1].thread = file[d][i].thread

FragmentSound(d, i) == IF file[d][i].part = "head" THEN HeadSound(d, i) ELSE TailSound(d, i)

LEMMA LinesByFragment ==
  LinesSound <=> \A d \in Day : \A i \in DOMAIN file[d] : FragmentSound(d, i)
BY DEF LinesSound, FragmentSound, HeadSound, TailSound, Ended

\* A head that has no tail yet is the last fragment, and its thread is writing.
LEMMA Unended ==
  ASSUME TypeOK, FilesAreFragments, OneLineOpen, LinesSound,
         NEW d \in Day, NEW i \in DOMAIN file[d],
         file[d][i].part = "head", ~Ended(d, i)
  PROVE  /\ i = Len(file[d])
         /\ fileMutex \in Thread
         /\ fileMutex = file[d][i].thread
         /\ pc[fileMutex] = "write"
         /\ stamp[fileMutex].day = d
<1>1. i = Len(file[d]) /\ fileMutex = file[d][i].thread
  BY LinesByFragment DEF FragmentSound, HeadSound
<1>2. file[d] \in Seq(HeadPart \cup TailPart)
  BY DEF FilesAreFragments
<1>3. file[d][i] \in HeadPart
  BY <1>2 DEF TailPart
<1>4. file[d][i].thread \in Thread
  BY <1>3 DEF HeadPart
<1>5. Open(d, fileMutex)
  BY <1>1, <1>2 DEF Open
<1>6. QED
  BY <1>1, <1>4, <1>5 DEF OneLineOpen

\* Where the file does not change, it is the holder of the mutex that matters.
LEMMA SameFile ==
  ASSUME NEW d \in Day, file'[d] = file[d], NEW i \in DOMAIN file[d],
         FragmentSound(d, i),
         file[d][i].part = "head" /\ ~Ended(d, i) => fileMutex' = fileMutex
  PROVE  FragmentSound(d, i)'
BY DEF FragmentSound, HeadSound, TailSound, Ended, Tail1

LEMMA LinesNext ==
  TypeOK /\ FilesAreFragments /\ LockedInBlock /\ StampSound /\ OneLineOpen /\ LinesSound
    /\ [Next]_vars
  => LinesSound'
<1> SUFFICES ASSUME TypeOK, FilesAreFragments, LockedInBlock, StampSound, OneLineOpen,
                    LinesSound, [Next]_vars
             PROVE  LinesSound'
  OBVIOUS
<1>a. LinesSound' <=> \A d \in Day : \A i \in DOMAIN file'[d] : FragmentSound(d, i)'
  BY LinesByFragment DEF LinesSound, FragmentSound, HeadSound, TailSound, Ended, Tail1
<1>1. ASSUME NEW t \in Thread, open(t) PROVE LinesSound'
  <2> SUFFICES ASSUME NEW d \in Day, NEW i \in DOMAIN file'[d]
               PROVE  FragmentSound(d, i)'
    BY <1>a
  <2>1. fileMutex = t /\ pc[t] = "open"
    BY <1>1 DEF open, Goes, LockedInBlock
  <2>2. \A e \in Day : \A j \in DOMAIN file[e] : file[e][j].part = "head" => Ended(e, j)
    BY <2>1, Unended
  <2>3. \A e \in Day : \A j \in DOMAIN file[e] : FragmentSound(e, j)
    BY LinesByFragment
  <2>4. CASE file'[d] = file[d]
    BY <2>2, <2>3, <2>4, SameFile
  <2>5. CASE d = stamp[t].day /\ file' = [file EXCEPT ![stamp[t].day] = Append(@, Head1(t))]
             /\ UNCHANGED fileMutex
    <3>1. file[d] \in Seq(HeadPart \cup TailPart)
      BY DEF FilesAreFragments
    <3>2. file'[d] = Append(file[d], Head1(t))
      BY <2>5 DEF FilesAreFragments
    <3>3. /\ Len(file'[d]) = Len(file[d]) + 1
          /\ file'[d][Len(file[d]) + 1] = Head1(t)
          /\ \A j \in DOMAIN file[d] : file'[d][j] = file[d][j]
          /\ DOMAIN file[d] = 1..Len(file[d])
          /\ DOMAIN file'[d] = 1..(Len(file[d]) + 1)
          /\ Len(file[d]) \in Nat
      BY <3>1, <3>2
    <3>4. CASE i = Len(file[d]) + 1
      <4>1. stamp[t] = brokenDown(now[t]) \/ raced[t]
        BY <2>1 DEF StampSound
      <4>2. file'[d][i] = Head1(t)
        BY <3>3, <3>4
      <4>3. HeadSound(d, i)'
        BY <2>1, <2>5, <3>3, <3>4, <4>1, <4>2 DEF HeadSound, Head1
      <4>4. QED
        BY <4>2, <4>3 DEF FragmentSound, Head1
    <3>5. CASE i \in DOMAIN file[d]
      <4>1. file'[d][i] = file[d][i]
        BY <3>3, <3>5
      <4>2. CASE file[d][i].part = "head"
        <5>1. Ended(d, i) /\ HeadSound(d, i)
          BY <2>2, <2>3, <3>5, <4>2 DEF FragmentSound
        <5>2. i < Len(file[d]) /\ i + 1 \in DOMAIN file[d]
          BY <5>1, <3>3, <3>5 DEF Ended
        <5>3. file'[d][i + 1] = file[d][i + 1] /\ i < Len(file'[d])
          BY <5>2, <3>3, <3>5
        <5>4. Ended(d, i)'
          BY <5>1, <5>3, <4>1 DEF Ended, Tail1
        <5>5. QED
          BY <5>1, <5>4, <4>1, <4>2 DEF FragmentSound, HeadSound
      <4>3. CASE file[d][i].part # "head"
        <5>1. TailSound(d, i)
          BY <2>3, <3>5, <4>3 DEF FragmentSound
        <5>2. i - 1 \in DOMAIN file[d]
          BY <5>1, <3>3, <3>5 DEF TailSound
        <5>3. file'[d][i - 1] = file[d][i - 1]
          BY <5>2, <3>3
        <5>4. QED
          BY <5>1, <5>3, <4>1, <4>3 DEF FragmentSound, TailSound
      <4>4. QED
        BY <4>2, <4>3
    <3>6. QED
      BY <3>3, <3>4, <3>5
  <2>6. QED
    BY <1>1, <2>4, <2>5 DEF open, FilesAreFragments
<1>2. ASSUME NEW t \in Thread, write(t) PROVE LinesSound'
  <2> SUFFICES ASSUME NEW d \in Day, NEW i \in DOMAIN file'[d]
               PROVE  FragmentSound(d, i)'
    BY <1>a
  <2>1. fileMutex = t /\ pc[t] = "write"
    BY <1>2 DEF write, Goes, LockedInBlock
  <2>2. \A e \in Day : \A j \in DOMAIN file[e] :
           file[e][j].part = "head" /\ ~Ended(e, j)
             => e = stamp[t].day /\ j = Len(file[e]) /\ file[e][j].thread = t
    BY <2>1, Unended
  <2>3. \A e \in Day : \A j \in DOMAIN file[e] : FragmentSound(e, j)
    BY LinesByFragment
  <2>4. CASE d # stamp[t].day
    <3>1. file'[d] = file[d]
      BY <1>2, <2>4 DEF write, FilesAreFragments
    <3>2. QED
      BY <2>2, <2>3, <2>4, <3>1, SameFile
  <2>5. CASE d = stamp[t].day
    <3>1. file[d] \in Seq(HeadPart \cup TailPart)
      BY DEF FilesAreFragments
    <3>2. file'[d] = Append(file[d], Tail1(t))
      BY <1>2, <2>5 DEF write, FilesAreFragments
    <3>3. /\ Len(file'[d]) = Len(file[d]) + 1
          /\ file'[d][Len(file[d]) + 1] = Tail1(t)
          /\ \A j \in DOMAIN file[d] : file'[d][j] = file[d][j]
          /\ DOMAIN file[d] = 1..Len(file[d])
          /\ DOMAIN file'[d] = 1..(Len(file[d]) + 1)
          /\ Len(file[d]) \in Nat
      BY <3>1, <3>2
    <3>4. Open(d, t)
      BY <2>1, <2>5 DEF OneLineOpen
    <3>5. CASE i = Len(file[d]) + 1
      <4>1. file'[d][i] = Tail1(t) /\ file'[d][i - 1] = file[d][Len(file[d])] /\ i > 1
        BY <3>1, <3>3, <3>4, <3>5 DEF Open
      <4>2. TailSound(d, i)'
        BY <4>1, <3>4 DEF TailSound, Open, Tail1
      <4>3. QED
        BY <4>1, <4>2 DEF FragmentSound, Tail1
    <3>6. CASE i \in DOMAIN file[d]
      <4>1. file'[d][i] = file[d][i]
        BY <3>3, <3>6
      <4>2. CASE file[d][i].part = "head"
        <5>1. HeadSound(d, i)
          BY <2>3, <3>6, <4>2 DEF FragmentSound
        <5>2. ASSUME Ended(d, i) PROVE Ended(d, i)'
          <6>1. i < Len(file[d]) /\ i + 1 \in DOMAIN file[d]
            BY <5>2, <3>3, <3>6 DEF Ended
          <6>2. file'[d][i + 1] = file[d][i + 1] /\ i < Len(file'[d])
            BY <6>1, <3>3, <3>6
          <6>3. QED
            BY <5>2, <6>2, <4>1 DEF Ended, Tail1
        <5>3. ASSUME ~Ended(d, i) PROVE Ended(d, i)'
          <6>1. i = Len(file[d]) /\ file[d][i].thread = t
            BY <5>3, <2>2, <3>6, <4>2
          <6>2. QED
            BY <6>1, <3>3, <4>1 DEF Ended, Tail1
        <5>4. Ended(d, i)'
          BY <5>2, <5>3
        <5>5. QED
          BY <5>1, <5>4, <4>1, <4>2 DEF FragmentSound, HeadSound
      <4>3. CASE file[d][i].part # "head"
        <5>1. TailSound(d, i)
          BY <2>3, <3>6, <4>3 DEF FragmentSound
        <5>2. i - 1 \in DOMAIN file[d]
          BY <5>1, <3>3, <3>6 DEF TailSound
        <5>3. file'[d][i - 1] = file[d][i - 1]
          BY <5>2, <3>3
        <5>4. QED
          BY <5>1, <5>3, <4>1, <4>3 DEF FragmentSound, TailSound
      <4>4. QED
        BY <4>2, <4>3
    <3>7. QED
      BY <3>3, <3>5, <3>6
  <2>6. QED
    BY <2>4, <2>5
<1>3. ASSUME UNCHANGED file, fileMutex # Nobody => UNCHANGED fileMutex PROVE LinesSound'
  <2> SUFFICES ASSUME NEW d \in Day, NEW i \in DOMAIN file[d]
               PROVE  FragmentSound(d, i)'
    BY <1>a, <1>3
  <2>1. FragmentSound(d, i)
    BY LinesByFragment
  <2>2. file[d][i].part = "head" /\ ~Ended(d, i) => fileMutex # Nobody
    BY Unended, LogAssumption
  <2>3. QED
    BY <1>3, <2>1, <2>2, SameFile
<1>4. ASSUME NEW t \in Thread, NEW level \in LogLevel, NEW text \in BOOLEAN,
             log(t, level, text)
      PROVE  LinesSound'
  BY <1>3, <1>4 DEF log
<1>5. ASSUME NEW t \in Thread,
             \/ readClock(t) \/ localtime(t) \/ readDate(t) \/ readTime(t)
             \/ lock(t) \/ finish(t)
      PROVE  LinesSound'
  BY <1>3, <1>5 DEF readClock, localtime, readDate, readTime, lock, mayLock, finish
<1>6. CASE tick \/ done \/ UNCHANGED vars
  BY <1>3, <1>6 DEF tick, done, vars
<1>7. QED
  BY <1>1, <1>2, <1>4, <1>5, <1>6 DEF Next
-----------------------------------------------------------------------------
\* A thread is kept at its FATAL line.
Kept(t) == pc[t] \in {"write", "logged"} /\ statement[t].level = "FATAL"

LEMMA FatalNext ==
  TypeOK /\ FilesAreFragments /\ FatalIsKept /\ [Next]_vars => FatalIsKept'
<1> SUFFICES ASSUME TypeOK, FilesAreFragments, FatalIsKept, [Next]_vars,
                    NEW d \in Day, NEW i \in DOMAIN file'[d],
                    file'[d][i].part = "head", file'[d][i].level = "FATAL"
             PROVE  (exited \/ Kept(file[d][i].thread))'
  BY DEF FatalIsKept, Kept
<1>1. ASSUME NEW u \in Thread, exited \/ Kept(u) PROVE exited' \/ Kept(u)'
  BY <1>1 DEF Kept, TypeOK, Next, vars, log, readClock, localtime, readDate, readTime, lock,
     open, write, finish, exits, Goes, tick, done
<1>2. file[d] \in Seq(HeadPart \cup TailPart)
  BY DEF FilesAreFragments
<1>3. ASSUME i \in DOMAIN file[d], file'[d][i] = file[d][i]
      PROVE  (exited \/ Kept(file[d][i].thread))'
  <2>1. file[d][i].thread \in Thread
    BY <1>2, <1>3 DEF HeadPart, TailPart
  <2>2. exited \/ Kept(file[d][i].thread)
    BY <1>3 DEF FatalIsKept, Kept
  <2>3. QED
    BY <1>1, <1>3, <2>1, <2>2
<1>4. CASE file'[d] = file[d]
  BY <1>3, <1>4
<1>5. ASSUME NEW part, NEW t \in Thread, file'[d] = Append(file[d], part),
             part.part = "head" /\ part.level = "FATAL" => part.thread = t /\ Kept(t)'
      PROVE  (exited \/ Kept(file[d][i].thread))'
  <2>1. CASE i \in DOMAIN file[d]
    BY <1>2, <1>3, <1>5, <2>1
  <2>2. CASE i = Len(file[d]) + 1
    BY <1>2, <1>5, <2>2
  <2>3. QED
    BY <1>2, <1>5, <2>1, <2>2
<1>6. ASSUME NEW t \in Thread, open(t) PROVE (exited \/ Kept(file[d][i].thread))'
  <2>1. CASE d = stamp[t].day /\ Goes(t, "open", "write")
             /\ file' = [file EXCEPT ![stamp[t].day] = Append(@, Head1(t))]
    <3>1. file'[d] = Append(file[d], Head1(t))
      BY <2>1 DEF FilesAreFragments
    <3>2. Head1(t).level = "FATAL" => Head1(t).thread = t /\ Kept(t)'
      BY <1>6, <2>1 DEF Kept, Head1, open, Goes, TypeOK
    <3>3. QED
      BY <1>5, <3>1, <3>2
  <2>2. QED
    BY <1>4, <1>6, <2>1 DEF open, FilesAreFragments
<1>7. ASSUME NEW t \in Thread, write(t) PROVE (exited \/ Kept(file[d][i].thread))'
  <2>1. CASE d = stamp[t].day
    <3>1. file'[d] = Append(file[d], Tail1(t))
      BY <1>7, <2>1 DEF FilesAreFragments, write
    <3>2. Tail1(t).part # "head"
      BY DEF Tail1
    <3>3. QED
      BY <1>5, <3>1, <3>2
  <2>2. QED
    BY <1>4, <1>7, <2>1 DEF write, FilesAreFragments
<1>8. CASE UNCHANGED file
  BY <1>4, <1>8
<1>9. QED
  BY <1>6, <1>7, <1>8 DEF Next, vars, log, readClock, localtime, readDate, readTime, lock,
     finish, tick, done
-----------------------------------------------------------------------------
LEMMA InductiveInit == Init => IInv
<1> SUFFICES ASSUME Init PROVE IInv
  OBVIOUS
<1>1. TypeOK
  BY TypeInit
<1>2. \A d \in Day : file[d] = <<>>
  BY DEF Init
<1>3. FilesAreFragments
  BY DEF Init, FilesAreFragments
<1>4. LockedInBlock
  BY LogAssumption DEF Init, LockedInBlock
<1>5. StampSound
  BY DEF Init, StampSound
<1>6. OneLineOpen
  BY <1>2 DEF Init, OneLineOpen, Open
<1>7. LinesSound /\ FatalIsKept
  BY <1>2 DEF LinesSound, FatalIsKept
<1>8. QED
  BY <1>1, <1>3, <1>4, <1>5, <1>6, <1>7 DEF IInv

LEMMA Inductive == IInv /\ [Next]_vars => IInv'
BY TypeNext, FilesNext, LockNext, StampNext, OpenNext, LinesNext, FatalNext DEF IInv

LEMMA Invariant == Spec => []IInv
BY InductiveInit, Inductive, PTL DEF Spec

\* The log files hold whole lines one after the other, each with its own
\* thread's stamp unless localtime was called under its hands, whatever the
\* threads, what they log and when the clock ticks.
THEOREM LinesStaySound == Spec => []LinesSound
<1>1. IInv => LinesSound
  BY DEF IInv
<1>2. QED
  BY <1>1, Invariant, PTL

\* The thread whose FATAL line is in a file goes nowhere but to exit(-1).
THEOREM FatalEnds == Spec => []FatalEndsProcess
<1>1. IInv => FatalEndsProcess
  BY DEF IInv, FatalIsKept, FatalEndsProcess
<1>2. QED
  BY <1>1, Invariant, PTL
=============================================================================
