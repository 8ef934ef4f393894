--------------------------- MODULE ServerCallbacks ---------------------------
(***************************************************************************)
(* What a TcpServer promises to the user who gave it a connection          *)
(* callback, with no loop, queue, map or name in sight: each connection is *)
(* reported up at most once and then down at most once, and once the       *)
(* server has been destroyed nothing is reported any more, for the         *)
(* callback is usually a member of the object the server lives in.         *)
(***************************************************************************)
CONSTANT Conn

VARIABLES told,  \* [Conn -> ...]: the last report of each connection
          closed \* the server has been destroyed

vars == <<told, closed>>

Init ==
    /\ told = [c \in Conn |-> "nothing"]
    /\ closed = FALSE

Report(c, before, after) ==
    /\ ~closed
    /\ told[c] = before
    /\ told' = [told EXCEPT ![c] = after]
    /\ UNCHANGED closed

\* connectionCallback_ from connectEstablished.
Up(c) == Report(c, "nothing", "up")

\* connectionCallback_ from handleClose or connectDestroyed.
Down(c) == Report(c, "up", "down")

\* The destructor reports whatever it still finds up, in any order, before the
\* server counts as destroyed.
Close == closed' = TRUE /\ UNCHANGED told

Next == Close \/ \E c \in Conn : Up(c) \/ Down(c)

Spec == Init /\ [][Next]_vars
=============================================================================
