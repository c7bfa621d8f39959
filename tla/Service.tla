------------------------------- MODULE Service -------------------------------
(***************************************************************************)
(* What gocache-rbe promises cmd/go on its standard output: every request  *)
(* is answered exactly once, and the close request after all the others.   *)
(***************************************************************************)
EXTENDS Sequences

CONSTANTS Req, CloseReq

VARIABLES
  asked,    \* the requests read so far
  answers,  \* the responses written so far
  ended     \* the program has returned

answered == {answers[i] : i \in DOMAIN answers}

Init == asked = {} /\ answers = <<>> /\ ended = FALSE

Ask(r) ==
  /\ ~ended /\ CloseReq \notin asked
  /\ r \notin asked
  /\ asked' = asked \cup {r}
  /\ UNCHANGED <<answers, ended>>

Answer(r) ==
  /\ ~ended
  /\ r \in asked \ answered
  /\ r = CloseReq => asked \ answered = {CloseReq}
  /\ answers' = Append(answers, r)
  /\ UNCHANGED <<asked, ended>>

End ==
  /\ ~ended /\ asked = answered
  /\ ended' = TRUE
  /\ UNCHANGED <<asked, answers>>

Next == End \/ \E r \in Req \cup {CloseReq} : Ask(r) \/ Answer(r)

Spec == Init /\ [][Next]_<<asked, answers, ended>>

=============================================================================
