----------------------------- MODULE MCEventLoop -----------------------------
(* Small instances of EventLoop. *)
EXTENDS EventLoop, TLC

\* Threads, channels and functors of one kind are interchangeable.
Symmetry == Permutations(Caller) \cup Permutations(IOChannel)
            \cup Permutations(Functor \ InitFunctor)
=============================================================================
