------------------------------ MODULE DataPath ------------------------------
(***************************************************************************)
(* From standard input to the remote: the requests that Protocol reads are *)
(* carried out by Transfer, the i-th one by thread i.                      *)
(***************************************************************************)
EXTENDS Protocol, Transfer

ASSUME DataPathAssumption == Thread = 1..MaxRequests /\ Body = Content

vars == <<input, transfer>>

TypeOK == ProtocolTypeOK /\ TransferTypeOK

Init == ProtocolInit /\ TransferInit

\* A worker takes a request from the channel.  A get transfers something if Lookup
\* found no body and there is a digest to go by, whatever a put has installed since;
\* otherwise it is a local hit or a miss and goes no further.
Dispatch(t) ==
  /\ t <= Len(read)
  /\ \/ read[t].cmd = "put" /\ StartPut(t, read[t].body)
     \/ read[t].cmd = "get" /\ \E d \in known : StartGet(t, d)
  /\ UNCHANGED input

\* What the program does, as opposed to its surroundings.
Progress ==
  \/ ReaderStep /\ UNCHANGED transfer
  \/ \E t \in Thread : Dispatch(t) \/ (TransferStep(t) /\ UNCHANGED input)

Next ==
  \/ Progress
  \/ ClientStep /\ UNCHANGED transfer
  \/ (CollectBlob \/ Evict \/ \E t \in Thread : TransferFault(t)) /\ UNCHANGED input

Spec == Init /\ [][Next]_vars

\* The program goes on as long as any of its goroutines can: with a bounded number of
\* requests that is enough for each of them.  cmd/go need not ask for anything, and
\* nothing need fail.
FairSpec == Spec /\ WF_vars(Progress)

-----------------------------------------------------------------------------
(* Properties *)

\* Whatever is in CAS or on disk was there before or is the body of a put that
\* cmd/go has sent in full, under the name of its own hash: no cut line, wrong size,
\* replaced file, broken stream or damaged download gets through.
OnlySent ==
  LET Genuinely(c) == c \in Stored \/ [cmd |-> "put", body |-> c] \in {asked[i] : i \in DOMAIN asked}
  IN /\ \A b \in blobs : b.data = b.hash /\ Genuinely(b.data)
     /\ body # NoFile => Genuinely(body)


=============================================================================
