------------------------------ MODULE MCBreaker ------------------------------
(* Instances of Breaker for TLC. *)
EXTENDS Breaker

CONSTANTS c1, c2

=============================================================================
