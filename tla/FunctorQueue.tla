---------------------------- MODULE FunctorQueue ----------------------------
(***************************************************************************)
(* What an EventLoop promises to the threads that hand it functors, with   *)
(* no poller, wakeup fd, swap or flag in sight: a functor that was queued  *)
(* is started at most once, in the order of queueing, and none is started  *)
(* after the loop has returned.  runInLoop on the loop's own thread starts *)
(* its functor at once, ahead of whatever is queued.                       *)
(***************************************************************************)
EXTENDS Sequences

CONSTANT Functor   \* one element per submission

VARIABLES queue,   \* functors handed over and not started, oldest first
          started, \* functors started, in order
          closed   \* the loop has returned

vars == <<queue, started, closed>>

\* A submission is made once.
Fresh(f) == \A i \in DOMAIN (queue \o started) : (queue \o started)[i] # f

Init ==
    /\ queue = <<>>
    /\ started = <<>>
    /\ closed = FALSE

Submit(f) ==
    /\ Fresh(f)
    /\ queue' = Append(queue, f)
    /\ UNCHANGED <<started, closed>>

StartNext ==
    /\ ~closed
    /\ queue # <<>>
    /\ started' = Append(started, Head(queue))
    /\ queue' = Tail(queue)
    /\ UNCHANGED closed

StartNow(f) ==
    /\ ~closed
    /\ Fresh(f)
    /\ started' = Append(started, f)
    /\ UNCHANGED <<queue, closed>>

Close ==
    /\ closed' = TRUE
    /\ UNCHANGED <<queue, started>>

Next ==
    \/ \E f \in Functor : Submit(f) \/ StartNow(f)
    \/ StartNext
    \/ Close

Spec == Init /\ [][Next]_vars
=============================================================================
