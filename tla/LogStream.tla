------------------------------ MODULE LogStream ------------------------------
(***************************************************************************)
(* Threads that log: LOG_INFO << ... builds a LogStream on the thread's    *)
(* stack and its destructor writes one line (LogStream.cc, Timestamp.cc).  *)
(*                                                                         *)
(* The stamp is taken before fileMutex is locked: Timestamp::now reads the *)
(* clock, and toString calls localtime, whose result is one structure for  *)
(* the whole process, and then reads its fields, the date first.  The C    *)
(* library serializes the calls of localtime, not what follows them.       *)
(***************************************************************************)
EXTENDS Naturals, Sequences

CONSTANTS
    Thread,
    TicksPerDay, \* of the clock
    MaxClock,    \* bound: ticks
    MaxLines     \* bound: statements begun

Nobody == "nobody"

ASSUME LogAssumption ==
    /\ Nobody \notin Thread
    /\ TicksPerDay \in Nat \ {0}
    /\ MaxClock \in Nat
    /\ MaxLines \in Nat

VARIABLES
    pc,        \* [Thread -> ...]: where the thread is in ~LogStream
    statement, \* [Thread -> level, and whether anything was streamed in]
    now,       \* [Thread -> the clock as the thread read it]
    stamp,     \* [Thread -> date and time of day read from the structure]
    tm,        \* localtime's structure
    clock,
    fileMutex, \* who holds it, or nobody
    file,      \* [Day -> fragments]: the log file of each day
    lines,     \* statements begun
    exited,    \* exit(-1) was called
    raced      \* history: [Thread -> another called localtime as it took its stamp]

vars == <<pc, statement, now, stamp, tm, clock, fileMutex, file, lines, exited, raced>>

\* INFO and DEBUG are treated alike.
LogLevel == {"INFO", "ERROR", "FATAL"}
Clock == 0..MaxClock
Day == {t \div TicksPerDay : t \in Clock}
Stamp == [day: Day, tick: 0..(TicksPerDay - 1)]

\* A moment broken down.
brokenDown(t) == [day |-> t \div TicksPerDay, tick |-> t % TicksPerDay]

Head1(t) == [part |-> "head", thread |-> t, level |-> statement[t].level,
             stamp |-> stamp[t], own |-> brokenDown(now[t]), raced |-> raced[t]]
Tail1(t) == [part |-> "tail", thread |-> t]

TypeOK ==
    /\ pc \in [Thread -> {"idle", "now", "localtime", "date", "time", "lock",
                          "open", "write", "logged"}]
    /\ statement \in [Thread -> [level: LogLevel, text: BOOLEAN]]
    /\ now \in [Thread -> Clock]
    /\ stamp \in [Thread -> Stamp]
    /\ tm \in Stamp
    /\ clock \in Clock
    /\ fileMutex \in Thread \cup {Nobody}
    /\ DOMAIN file = Day
    /\ lines \in 0..MaxLines
    /\ exited \in BOOLEAN
    /\ raced \in [Thread -> BOOLEAN]

Init ==
    /\ pc = [t \in Thread |-> "idle"]
    /\ statement = [t \in Thread |-> [level |-> "INFO", text |-> FALSE]]
    /\ now = [t \in Thread |-> 0]
    /\ stamp = [t \in Thread |-> brokenDown(0)]
    /\ tm = brokenDown(0)
    /\ clock = 0
    /\ fileMutex = Nobody
    /\ file = [d \in Day |-> <<>>]
    /\ lines = 0
    /\ exited = FALSE
    /\ raced = [t \in Thread |-> FALSE]
-----------------------------------------------------------------------------
Goes(t, from, to) ==
    /\ ~exited
    /\ pc[t] = from
    /\ pc' = [pc EXCEPT ![t] = to]

\* A statement, to its end: one into which nothing was streamed is forgotten,
\* whatever its level.
log(t, level, text) ==
    /\ lines < MaxLines
    /\ Goes(t, "idle", IF text THEN "now" ELSE "idle")
    /\ lines' = lines + 1
    /\ statement' = [statement EXCEPT ![t] = [level |-> level, text |-> text]]
    /\ UNCHANGED <<now, stamp, tm, clock, fileMutex, file, exited, raced>>

\* Timestamp::now.
readClock(t) ==
    /\ Goes(t, "now", "localtime")
    /\ now' = [now EXCEPT ![t] = clock]
    /\ UNCHANGED <<statement, stamp, tm, clock, fileMutex, file, lines, exited, raced>>

\* Mutant of converted: the seconds are counted on through the days.
convertedUnreduced(t) == [day |-> now[t] \div TicksPerDay, tick |-> now[t]]

\* What localtime leaves in the structure.
converted(t) == brokenDown(now[t])

\* toString: the call.
localtime(t) ==
    /\ Goes(t, "localtime", "date")
    /\ tm' = converted(t)
    /\ raced' = [u \in Thread |-> u # t /\ (raced[u] \/ pc[u] \in {"date", "time"})]
    /\ UNCHANGED <<statement, now, stamp, clock, fileMutex, file, lines, exited>>

\* toString: the fields, the date before the time of day.
readDate(t) ==
    /\ Goes(t, "date", "time")
    /\ stamp' = [stamp EXCEPT ![t].day = tm.day]
    /\ UNCHANGED <<statement, now, tm, clock, fileMutex, file, lines, exited, raced>>

readTime(t) ==
    /\ Goes(t, "time", "lock")
    /\ stamp' = [stamp EXCEPT ![t].tick = tm.tick]
    /\ UNCHANGED <<statement, now, tm, clock, fileMutex, file, lines, exited, raced>>

\* Mutant of mayLock: there is no mutex.
mayAlwaysLock(t) == TRUE

mayLock(t) == fileMutex = Nobody

lock(t) ==
    /\ Goes(t, "lock", "open")
    /\ mayLock(t)
    /\ fileMutex' = t
    /\ UNCHANGED <<statement, now, stamp, tm, clock, file, lines, exited, raced>>

\* The file named by the date is opened and the line begun; or it cannot be
\* opened, and the destructor returns, which unlocks.
open(t) ==
    /\ \/ /\ Goes(t, "open", "write")
          /\ file' = [file EXCEPT ![stamp[t].day] = Append(@, Head1(t))]
          /\ UNCHANGED fileMutex
       \/ /\ Goes(t, "open", "idle")
          /\ fileMutex' = Nobody
          /\ UNCHANGED file
    /\ UNCHANGED <<statement, now, stamp, tm, clock, lines, exited, raced>>

\* The end of the line, close() and the end of the locked block.
write(t) ==
    /\ Goes(t, "write", "logged")
    /\ file' = [file EXCEPT ![stamp[t].day] = Append(@, Tail1(t))]
    /\ fileMutex' = Nobody
    /\ UNCHANGED <<statement, now, stamp, tm, clock, lines, exited, raced>>

\* Mutant of exits: the wrong level.
exitsOnError(level) == level = "ERROR"

\* The test after the locked block.
exits(level) == level = "FATAL"

finish(t) ==
    /\ Goes(t, "logged", "idle")
    /\ exited' = exits(statement[t].level)
    /\ UNCHANGED <<statement, now, stamp, tm, clock, fileMutex, file, lines, raced>>

tick ==
    /\ ~exited /\ clock < MaxClock
    /\ clock' = clock + 1
    /\ UNCHANGED <<pc, statement, now, stamp, tm, fileMutex, file, lines, exited, raced>>

\* The process has ended, or everything has been logged.
done ==
    /\ exited \/ (lines = MaxLines /\ \A t \in Thread : pc[t] = "idle")
    /\ UNCHANGED vars
-----------------------------------------------------------------------------
Next ==
    \/ \E t \in Thread :
          \/ \E level \in LogLevel, text \in BOOLEAN : log(t, level, text)
          \/ readClock(t)
          \/ localtime(t)
          \/ readDate(t)
          \/ readTime(t)
          \/ lock(t)
          \/ open(t)
          \/ write(t)
          \/ finish(t)
    \/ tick
    \/ done

Spec == Init /\ [][Next]_vars
-----------------------------------------------------------------------------
(***************************************************************************)
(* Properties.                                                             *)
(***************************************************************************)

\* "fileMutex ... keeps many objects in many threads safe" (LogStream.h:47):
\* a file holds whole lines, one after the other, and a line bears the moment
\* its own thread read off the clock; unless another thread called localtime
\* while the stamp was being taken, which is outside the mutex
\* (LogStream.cc:34-44, Timestamp.cc:26-33).
LinesSound ==
    \A d \in Day : \A i \in DOMAIN file[d] :
        LET this == file[d][i] IN
        IF this.part = "head"
          THEN /\ this.stamp = this.own \/ this.raced
               /\ \/ i = Len(file[d]) /\ fileMutex = this.thread
                  \/ i < Len(file[d]) /\ file[d][i + 1] = Tail1(this.thread)
          ELSE i > 1 /\ file[d][i - 1].part = "head" /\ file[d][i - 1].thread = this.thread

\* Nothing runs on past a FATAL line that is in the file: its thread ends the
\* process.  (LOG_FATAL is also what EPollPoller counts on when epoll_ctl fails;
\* it does return when the log file cannot be opened, LogStream.cc:46-50, and
\* when nothing was streamed into it.)
FatalEndsProcess ==
    \A d \in Day : \A i \in DOMAIN file[d] :
        file[d][i].part = "head" /\ file[d][i].level = "FATAL"
            => exited \/ pc[file[d][i].thread] \in {"write", "logged"}
=============================================================================
