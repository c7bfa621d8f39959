---------------------------- MODULE MCDiskCache ----------------------------
(* Instances of DiskCache for TLC. *)
EXTENDS DiskCache, TLC

CONSTANTS p1, p2, t1, t2, a1, a2, o1, o2

OneProc == [t \in Thread |-> p1]

\* The threads of one process are alike.
Alike == Permutations(Thread)

\* One output per action, and two outputs for an action that does not build
\* reproducibly.
Reproducible == [a \in Action |-> IF a = a1 THEN {o1} ELSE {o2}]
TwoOutputs   == [a \in Action |-> {o1, o2}]

Sizes == [o \in Output |-> IF o = o1 THEN 1 ELSE 2]

-----------------------------------------------------------------------------
(* Statements of comments in the source, which the code does not keep. *)

\* "Install atomically installs a body file and metadata", and if that fails it cleans
\* up its own body: once an Install has returned and no request works on its action any
\* more, both files are there and belong together.
InstalledWhole ==
  \A t \in Thread :
    /\ Running(t) /\ pc[t] = "ok"
    /\ \A u \in Thread : arg[u] = arg[t] => pc[u] \in Done
    => body[arg[t]] \in Output /\ meta[arg[t]] = body[arg[t]]

\* "data loss on crash just means a miss": no file that was lost is served.
LossMeansMiss ==
  \A t \in Thread : pc[t] = "hit" => body[arg[t]] # Empty

=============================================================================
