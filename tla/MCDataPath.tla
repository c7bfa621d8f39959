---------------------------- MODULE MCDataPath ----------------------------
(* Instances of DataPath for TLC. *)
EXTENDS DataPath

Requests == 1..MaxRequests

\* Empty, half a chunk, one and a half chunks, beyond the limit for artifacts, and
\* beyond the limit for lines.
Contents == {<<>>, <<2>>, <<1, 2, 3>>, <<1, 1, 1, 1>>, <<1, 1, 1, 1, 1, 1, 1>>}
OnRemote == {<<1, 2, 3>>, <<>>}

\* Right digests, one of them of a blob that is not there, and one with a wrong size.
Named == {Digest(<<>>), Digest(<<2>>), Digest(<<1, 2, 3>>), [hash |-> <<1, 2, 3>>, size |-> 2]}

=============================================================================
