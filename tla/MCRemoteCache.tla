--------------------------- MODULE MCRemoteCache ---------------------------
(* Instances of RemoteCache for TLC. *)
EXTENDS RemoteCache

CONSTANTS m1, t1, t2, a1, o1

OneMachine == [t \in Thread |-> m1]

=============================================================================
