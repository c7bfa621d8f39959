------------------------------ MODULE MCServer ------------------------------
(* Instances of Server for TLC. *)
EXTENDS Server

CONSTANTS r1, r2, r3, w1, w2, k1, k2, cl

Keys == [r \in Req |-> IF r = r3 THEN k2 ELSE k1]

=============================================================================
