------------------------------ MODULE ByteQueue ------------------------------
(***************************************************************************)
(* What a Buffer promises: a FIFO of bytes, with no index, no vector and   *)
(* no second iovec.  op is the interface: the last operation and the bytes *)
(* it took in or handed out.                                               *)
(***************************************************************************)
EXTENDS Sequences, Naturals

VARIABLES queue, op

vars == <<queue, op>>

Init == queue = <<>> /\ op = [name |-> "none", bytes |-> <<>>]

Put == op'.name = "put" /\ queue' = queue \o op'.bytes

First(n) == SubSeq(queue, 1, n)
Rest(n) == SubSeq(queue, n + 1, Len(queue))

\* The first n bytes are shown and stay; are taken; are dropped.
Peek(n) == op' = [name |-> "peek", bytes |-> First(n)] /\ UNCHANGED queue
Take(n) == op' = [name |-> "take", bytes |-> First(n)] /\ queue' = Rest(n)
Drop(n) == op' = [name |-> "drop", bytes |-> <<>>] /\ queue' = Rest(n)

\* More is taken than there is: the bytes behind the last are not specified.
Overtake ==
    /\ op'.name = "take"
    /\ Len(op'.bytes) > Len(queue) /\ SubSeq(op'.bytes, 1, Len(queue)) = queue
    /\ queue' = <<>>

Next == Put \/ Overtake \/ \E n \in 0..Len(queue) : Peek(n) \/ Take(n) \/ Drop(n)

Spec == Init /\ [][Next]_vars
=============================================================================
