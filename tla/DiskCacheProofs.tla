-------------------------- MODULE DiskCacheProofs --------------------------
(***************************************************************************)
(* Proofs about DiskCache, for any number of processes, threads, actions   *)
(* and outputs, any sizes and any set of faults.                           *)
(***************************************************************************)
EXTENDS DiskCache, TLAPS

InstallSteps == {"install", "open", "write", "rename", "rmTmp", "undo", "commit"}
LookupSteps  == {"stat", "gone", "touch", "statSlow", "promote"}

\* Where every content comes from: nothing that is not an output of action a
\* reaches the files, the index entry or a running call of a, but for what
\* faults and concurrent writers leave in metadata files.
Provenance ==
  /\ \A a \in Action :
       /\ body[a] \in Produces[a] \cup {Nil}
                        \cup (IF "power" \in Faults THEN {Empty} ELSE {})
       /\ meta[a] \in Produces[a] \cup {Nil, Empty, Garbled, BadHex}
       /\ metaTmp[a] \in Produces[a] \cup {Nil, Empty, Garbled, BadHex}
  /\ \A p \in Proc : \A a \in Action : entries[p][a].meta \in Produces[a] \cup {Nil, BadHex}
  /\ \A t \in Thread :
       /\ pc[t] = "install" => tmp[t] \in Produces[arg[t]] \cup {Nil}
       /\ pc[t] \in InstallSteps => val[t] \in Produces[arg[t]]
       /\ pc[t] \in LookupSteps => val[t] \in Produces[arg[t]] \cup {BadHex}
       /\ pc[t] = "hit" => val[t] \in Produces[arg[t]]

SourceInv == TypeOK /\ Provenance

\* At first there is no content at all.
LEMMA InitSource == Init => SourceInv
<1>1. Absent \in Entry /\ Never \in Int
  BY ConstantsAssumption DEF Absent, Entry, Never, Nil
<1>2. Init => TypeOK
  BY <1>1, ConstantsAssumption DEF Init, TypeOK, File, Done, Steps
<1>3. Init => Provenance
  BY SMTT(30) DEF Init, Provenance, Absent, InstallSteps, LookupSteps
<1> QED BY <1>2, <1>3 DEF SourceInv

\* After os.Remove every file is what it was, or gone.
LEMMA RemovedFacts ==
  ASSUME NEW files \in [Action -> File], NEW a \in Action, NEW left \in Removed(files, a)
  PROVE  /\ left \in [Action -> File]
         /\ \A b \in Action : left[b] \in {files[b], Nil}
<1>1. left = [files EXCEPT ![a] = Nil] \/ left = files
  BY DEF Removed
<1> QED BY <1>1 DEF File

\* The steps of Install.
LEMMA InstallSource ==
  ASSUME SourceInv, NEW t \in Thread
  PROVE  /\ \A a \in Action, o \in Output : StartInstall(t, a, o) => SourceInv'
         /\ RenameBody(t) => SourceInv'
         /\ OpenMetaTmp(t) => SourceInv'
         /\ WriteMetaTmp(t) => SourceInv'
         /\ RenameMetaTmp(t) => SourceInv'
         /\ InstallFails(t) => SourceInv'
         /\ RemoveMetaTmp(t) => SourceInv'
         /\ UndoBody(t) => SourceInv'
         /\ Commit(t) => SourceInv'
<1> USE ConstantsAssumption DEF SourceInv, Provenance, TypeOK, InstallSteps, LookupSteps, Done,
        Steps, Goto, Return, File, Nil, Empty, Garbled, BadHex
<1>1. ASSUME NEW a \in Action, NEW o \in Output, StartInstall(t, a, o) PROVE SourceInv'
  BY <1>1 DEF StartInstall, index
<1>2. ASSUME RenameBody(t) PROVE SourceInv'
  BY <1>2 DEF RenameBody, index
<1>3. ASSUME OpenMetaTmp(t) PROVE SourceInv'
  BY <1>3 DEF OpenMetaTmp, index
<1>4. ASSUME WriteMetaTmp(t) PROVE SourceInv'
  <2>1. PICK good \in BOOLEAN : WriteMetaTmp(t)!2!(good)
    BY <1>4 DEF WriteMetaTmp
  <2>2. PICK c \in Written(IF fd[t] = "tmp" THEN metaTmp[arg[t]] ELSE meta[arg[t]], val[t], good) :
          /\ metaTmp' = [metaTmp EXCEPT ![arg[t]] = IF fd[t] = "tmp" THEN c ELSE @]
          /\ meta' = [meta EXCEPT ![arg[t]] = IF fd[t] = "meta" THEN c ELSE @]
    BY <2>1
  <2>3. c \in Produces[arg[t]] \cup {Nil, Empty, Garbled, BadHex}
    BY <1>4, <2>2 DEF WriteMetaTmp, Written, Overwritten
  <2> QED BY <1>4, <2>1, <2>2, <2>3 DEF WriteMetaTmp, index
<1>5. ASSUME RenameMetaTmp(t) PROVE SourceInv'
  BY <1>5 DEF RenameMetaTmp, FdAfterRename, index
<1>6. ASSUME InstallFails(t) PROVE SourceInv'
  BY <1>6 DEF InstallFails, disk, index
<1>7. ASSUME RemoveMetaTmp(t) PROVE SourceInv'
  <2>1. metaTmp' \in [Action -> File] /\ \A b \in Action : metaTmp'[b] \in {metaTmp[b], Nil}
    BY <1>7, RemovedFacts DEF RemoveMetaTmp
  <2>2. fd' \in [Thread -> {"tmp", "meta", "gone"}]
    BY <1>7 DEF RemoveMetaTmp, FdAfterUnlink
  <2> QED BY <1>7, <2>1, <2>2 DEF RemoveMetaTmp, index
<1>8. ASSUME UndoBody(t) PROVE SourceInv'
  <2>1. body' \in [Action -> File] /\ \A b \in Action : body'[b] \in {body[b], Nil}
    BY <1>8, RemovedFacts DEF UndoBody
  <2> QED BY <1>8, <2>1 DEF UndoBody, index
<1>9. ASSUME Commit(t) PROVE SourceInv'
  <2> DEFINE f == [ok |-> TRUE, size |-> Size[val[t]], acc |-> now,
                   hasBody |-> TRUE, meta |-> val[t], path |-> TRUE]
  <2>1. ProcOf[t] \in Proc /\ arg[t] \in Action /\ val[t] \in Produces[arg[t]]
    BY <1>9 DEF Commit
  <2>2. f \in Entry /\ f.meta \in Produces[arg[t]]
    BY <2>1 DEF Entry
  <2>3. entries' = [entries EXCEPT ![ProcOf[t]][arg[t]] = f]
    BY <1>9 DEF Commit
  <2>4. Size[val[t]] \in Int /\ Charged(ProcOf[t], arg[t]) \in Int
    BY <2>1 DEF Charged, Entry
  <2>5. total' \in [Proc -> Int]
    BY <1>9, <2>1, <2>4 DEF Commit, Recharged
  <2> HIDE DEF f
  <2>6. touched' \in [Proc -> [Action -> Int]] /\ pinned' \in [Proc -> SUBSET Action]
    BY <1>9, <2>1 DEF Commit, HandOut
  <2>7. entries' \in [Proc -> [Action -> Entry]]
    BY <2>1, <2>2, <2>3
  <2>8. TypeOK'
    BY <1>9, <2>5, <2>6, <2>7 DEF Commit, disk
  <2>9. Provenance'
    BY <1>9, <2>1, <2>2, <2>3, SMTT(30) DEF Commit, disk
  <2> QED BY <2>8, <2>9
<1> QED BY <1>1, <1>2, <1>3, <1>4, <1>5, <1>6, <1>7, <1>8, <1>9

\* The steps of Lookup and of Remove.
LEMMA LookupSource ==
  ASSUME SourceInv, NEW t \in Thread
  PROVE  /\ \A a \in Action : StartLookup(t, a) => SourceInv'
         /\ StatFast(t) => SourceInv'
         /\ MarkGone(t) => SourceInv'
         /\ Touch(t) => SourceInv'
         /\ ReadMeta(t) => SourceInv'
         /\ StatSlow(t) => SourceInv'
         /\ Promote(t) => SourceInv'
         /\ RemoveBody(t) => SourceInv'
         /\ RemoveMeta(t) => SourceInv'
         /\ Forget(t) => SourceInv'
<1> USE ConstantsAssumption DEF SourceInv, Provenance, TypeOK, InstallSteps, LookupSteps, Done,
        Steps, Goto, Return, Found, File, Nil, Empty, Garbled, BadHex
<1>1. ASSUME NEW a \in Action, StartLookup(t, a) PROVE SourceInv'
  BY <1>1 DEF StartLookup, Entry, disk, index
<1>2. ASSUME StatFast(t) PROVE SourceInv'
  BY <1>2 DEF StatFast, disk, index
<1>3. ASSUME MarkGone(t) PROVE SourceInv'
  <2> DEFINE e == entries[ProcOf[t]][arg[t]]
               f == IF e.ok THEN [e EXCEPT !.hasBody = FALSE, !.path = FALSE] ELSE e
  <2>1. ProcOf[t] \in Proc /\ arg[t] \in Action /\ e \in Entry
    OBVIOUS
  <2>2. f \in Entry /\ f.meta \in Produces[arg[t]] \cup {Nil, BadHex}
    BY <1>3, <2>1 DEF MarkGone, Entry
  <2>3. entries' = [entries EXCEPT ![ProcOf[t]][arg[t]] = f]
    BY <1>3 DEF MarkGone
  <2> HIDE DEF e, f
  <2> QED BY <1>3, <2>1, <2>2, <2>3 DEF MarkGone, disk
<1>4. ASSUME Touch(t) PROVE SourceInv'
  <2> DEFINE e == entries[ProcOf[t]][arg[t]]
               f == IF e.ok THEN [e EXCEPT !.acc = now] ELSE e
  <2>1. ProcOf[t] \in Proc /\ arg[t] \in Action /\ e \in Entry
    OBVIOUS
  <2>2. f \in Entry /\ f.meta \in Produces[arg[t]] \cup {Nil, BadHex}
    BY <1>4, <2>1 DEF Touch, Entry
  <2>3. entries' = [entries EXCEPT ![ProcOf[t]][arg[t]] = f]
    BY <1>4 DEF Touch
  <2> HIDE DEF e, f
  <2>4. TypeOK'
    <3>1. entries' \in [Proc -> [Action -> Entry]]
      BY <2>1, <2>2, <2>3
    <3>2. pc' \in [Thread -> Done \cup Steps]
      BY <1>4 DEF Touch
    <3>3. touched' \in [Proc -> [Action -> Int]] /\ pinned' \in [Proc -> SUBSET Action]
      BY <1>4, <2>1 DEF Touch, HandOut
    <3> QED BY <1>4, <3>1, <3>2, <3>3 DEF Touch, disk
  <2>5. Provenance'
    BY <1>4, <2>1, <2>2, <2>3 DEF Touch, HandOut, disk
  <2> QED BY <2>4, <2>5
<1>5. ASSUME ReadMeta(t) PROVE SourceInv'
  BY <1>5 DEF ReadMeta, Parses, disk, index
<1>6. ASSUME StatSlow(t) PROVE SourceInv'
  BY <1>6 DEF StatSlow, disk, index
<1>7. ASSUME Promote(t) PROVE SourceInv'
  <2> DEFINE e == entries[ProcOf[t]][arg[t]]
               f == IF e.ok THEN [e EXCEPT !.acc = now, !.meta = val[t], !.path = TRUE] ELSE e
  <2>1. ProcOf[t] \in Proc /\ arg[t] \in Action /\ e \in Entry
    OBVIOUS
  <2>2. f \in Entry /\ f.meta \in Produces[arg[t]] \cup {Nil, BadHex}
    BY <1>7, <2>1, ZenonT(30) DEF Promote, Entry
  <2>3. entries' = [entries EXCEPT ![ProcOf[t]][arg[t]] = f]
    BY <1>7 DEF Promote
  <2> HIDE DEF e, f
  <2> QED BY <1>7, <2>1, <2>2, <2>3 DEF Promote, HandOut, disk
<1>8. ASSUME RemoveBody(t) PROVE SourceInv'
  <2>1. body' \in [Action -> File] /\ \A b \in Action : body'[b] \in {body[b], Nil}
    BY <1>8, RemovedFacts DEF RemoveBody
  <2> QED BY <1>8, <2>1 DEF RemoveBody, index
<1>9. ASSUME RemoveMeta(t) PROVE SourceInv'
  <2>1. meta' \in [Action -> File] /\ \A b \in Action : meta'[b] \in {meta[b], Nil}
    BY <1>9, RemovedFacts DEF RemoveMeta
  <2>2. fd' \in [Thread -> {"tmp", "meta", "gone"}]
    BY <1>9 DEF RemoveMeta, FdAfterUnlink
  <2> QED BY <1>9, <2>1, <2>2 DEF RemoveMeta, index
<1>10. ASSUME Forget(t) PROVE SourceInv'
  BY <1>10, SMTT(30) DEF Forget, Recharged, Charged, Absent, Entry, disk
<1> QED BY <1>1, <1>2, <1>3, <1>4, <1>5, <1>6, <1>7, <1>8, <1>9, <1>10

\* The steps of a process.
LEMMA ProcSource ==
  ASSUME SourceInv, NEW p \in Proc
  PROVE  /\ Start(p) => SourceInv'
         /\ \A a \in Action : ScanEntry(p, a) => SourceInv'
         /\ Serve(p) => SourceInv'
         /\ BeginClose(p) => SourceInv'
         /\ \A a \in Action : Select(p, a) => SourceInv'
         /\ Selected(p) => SourceInv'
         /\ \A a \in Action : EvictOne(p, a) => SourceInv'
         /\ Exit(p) => SourceInv'
         /\ Crash(p) => SourceInv'
<1> USE ConstantsAssumption DEF SourceInv, Provenance, TypeOK, InstallSteps, LookupSteps, Done,
        Steps, Nil, Empty, Garbled, BadHex
<1>1. ASSUME Start(p) PROVE SourceInv'
  BY <1>1 DEF Start, threads, Never
<1>2. ASSUME NEW a \in Action, ScanEntry(p, a) PROVE SourceInv'
  BY <1>2 DEF ScanEntry, Absent, LengthOf, Entry, disk, threads
<1>3. ASSUME Serve(p) PROVE SourceInv'
  BY <1>3 DEF Serve, disk, threads
<1>4. ASSUME BeginClose(p) PROVE SourceInv'
  BY <1>4 DEF BeginClose, Candidates, disk, threads
<1>5. ASSUME NEW a \in Action, Select(p, a) PROVE SourceInv'
  BY <1>5 DEF Select, Entry, disk, threads
<1>6. ASSUME Selected(p) PROVE SourceInv'
  BY <1>6 DEF Selected, disk, threads
<1>7. ASSUME NEW a \in Action, EvictOne(p, a) PROVE SourceInv'
  <2> DEFINE e == entries[p][a]
             f == [e EXCEPT !.hasBody = FALSE, !.path = FALSE]
  <2>1. e \in Entry
    OBVIOUS
  <2>2. f \in Entry /\ f.meta \in Produces[a] \cup {Nil, BadHex}
    BY <2>1 DEF Entry
  <2>3. entries' = [entries EXCEPT ![p][a] = f]
    BY <1>7 DEF EvictOne
  <2>4. total' \in [Proc -> Int]
    BY <1>7, <2>1 DEF EvictOne, Recharged, Charged, Entry
  <2>5. body' \in [Action -> File] /\ \A b \in Action : body'[b] \in {body[b], Nil}
    BY <1>7, RemovedFacts DEF EvictOne
  <2> HIDE DEF e, f
  <2> QED BY <1>7, <2>2, <2>3, <2>4, <2>5 DEF EvictOne, threads
<1>8. ASSUME Discard(p), UNCHANGED <<disk, arg, now, touched>> PROVE SourceInv'
  BY <1>8 DEF Discard, Absent, Entry, File, disk
<1> QED BY <1>1, <1>2, <1>3, <1>4, <1>5, <1>6, <1>7, <1>8 DEF Exit, Crash

\* Every step keeps every content in its place.
LEMMA NextSource == SourceInv /\ [Next]_vars => SourceInv'
<1> SUFFICES ASSUME SourceInv, [Next]_vars PROVE SourceInv'
  OBVIOUS
<1>1. ASSUME NEW t \in Thread, ThreadNext(t) PROVE SourceInv'
  BY <1>1, InstallSource, LookupSource DEF ThreadNext
<1>2. ASSUME NEW p \in Proc, ProcNext(p) PROVE SourceInv'
  BY <1>2, ProcSource DEF ProcNext
<1>3. ASSUME NEW a \in Action, PowerLoss(a) PROVE SourceInv'
  BY <1>3 DEF PowerLoss, SourceInv, TypeOK, Provenance, File, Nil, Empty, Garbled, BadHex,
              index, threads
<1>4. ASSUME NEW a \in Action, Rot(a) PROVE SourceInv'
  BY <1>4 DEF Rot, SourceInv, TypeOK, Provenance, File, Nil, Empty, Garbled, BadHex,
              index, threads
<1>5. ASSUME Tick PROVE SourceInv'
  BY <1>5 DEF Tick, SourceInv, TypeOK, Provenance, disk, index, threads
<1>6. ASSUME UNCHANGED vars PROVE SourceInv'
  BY <1>6 DEF vars, SourceInv, TypeOK, Provenance, disk, index, threads
<1> QED BY <1>1, <1>2, <1>3, <1>4, <1>5, <1>6 DEF Next

\* Whatever is read, indexed or served under an action stems from an output of it.
THEOREM SourceInvariant == Spec => []SourceInv
BY InitSource, NextSource, PTL DEF Spec

\* Type correctness of the disk cache.
THEOREM TypeCorrect == Spec => []TypeOK
<1>1. SourceInv => TypeOK
  BY DEF SourceInv
<1> QED BY <1>1, SourceInvariant, PTL

\* When every action has one output and no power loss empties files, each local
\* hit that HandleGet answers names a file with exactly the bytes its metadata
\* describes, however the Installs, Lookups, Removes, Trims, kills and I/O errors
\* of all processes interleave.
THEOREM HitsServeTheirBodies ==
  ASSUME "power" \notin Faults,
         \A a \in Action : \A o, q \in Produces[a] : o = q
  PROVE  Spec => []HitServesItsBody
<1>1. SourceInv => HitServesItsBody
  BY DEF SourceInv, TypeOK, Provenance, HitServesItsBody
<1> QED BY <1>1, SourceInvariant, PTL

-----------------------------------------------------------------------------
(* The safety window *)

\* An entry is at least as young as the last touch by the process that holds it;
\* requests run only before the process closes, so that what Trim takes for cold
\* stays untouched until it is evicted.
TouchInv ==
  /\ \A t \in Thread : pc[t] \notin Done => phase[ProcOf[t]] = "run"
  /\ \A p \in Proc :
       /\ phase[p] \notin {"select", "evict"} => evict[p] = {}
       /\ \A a \in Action :
            /\ phase[p] = "scan" => touched[p][a] = Never
            /\ entries[p][a].ok => touched[p][a] <= entries[p][a].acc
       /\ phase[p] = "select" => \A a \in todo[p] : now - touched[p][a] >= SafetyDur
  /\ OwnTouchSafe

\* At first nothing was touched.
LEMMA InitTouch == Init => TouchInv
BY DEF Init, TouchInv, OwnTouchSafe, Done, Absent, Never

\* A step of a request is taken while its process serves, and changes nothing in the
\* memory of other processes, nor how far any process is.
LEMMA ThreadFrame ==
  ASSUME TypeOK, TouchInv, NEW t \in Thread, ThreadNext(t)
  PROVE  /\ ProcOf[t] \in Proc /\ arg[t] \in Action
         /\ phase[ProcOf[t]] = "run"
         /\ UNCHANGED <<phase, todo, evict, current, now>>
         /\ \E x : pc' = [pc EXCEPT ![t] = x]
         /\ \A p \in Proc : p # ProcOf[t] =>
              /\ total'[p] = total[p]
              /\ \A a \in Action : entries'[p][a] = entries[p][a] /\ touched'[p][a] = touched[p][a]
<1>1. /\ ProcOf[t] \in Proc /\ arg[t] \in Action
      /\ entries \in [Proc -> [Action -> Entry]] /\ total \in [Proc -> Int]
      /\ touched \in [Proc -> [Action -> Int]]
  BY ConstantsAssumption DEF TypeOK
<1>2. phase[ProcOf[t]] = "run"
  <2>1. pc[t] \notin Done => phase[ProcOf[t]] = "run"
    BY DEF TouchInv
  <2>2. CASE \E a \in Action : StartLookup(t, a) \/ \E o \in Output : StartInstall(t, a, o)
    BY <2>2 DEF StartLookup, StartInstall, Running
  <2>3. CASE \/ RenameBody(t) \/ OpenMetaTmp(t) \/ WriteMetaTmp(t) \/ RenameMetaTmp(t)
             \/ InstallFails(t) \/ RemoveMetaTmp(t) \/ UndoBody(t) \/ Commit(t)
    BY <2>1, <2>3 DEF Done, RenameBody, OpenMetaTmp, WriteMetaTmp, RenameMetaTmp, InstallFails,
                      RemoveMetaTmp, UndoBody, Commit
  <2>4. CASE \/ StatFast(t) \/ MarkGone(t) \/ Touch(t) \/ ReadMeta(t) \/ StatSlow(t) \/ Promote(t)
             \/ RemoveBody(t) \/ RemoveMeta(t) \/ Forget(t)
    BY <2>1, <2>4 DEF Done, StatFast, MarkGone, Touch, ReadMeta, StatSlow, Promote, RemoveBody,
                      RemoveMeta, Forget
  <2> QED BY <2>2, <2>3, <2>4 DEF ThreadNext
<1> DEFINE Frame ==
      /\ UNCHANGED <<phase, todo, evict, current, now>>
      /\ \E x : pc' = [pc EXCEPT ![t] = x]
      /\ \A p \in Proc : p # ProcOf[t] =>
           /\ total'[p] = total[p]
           /\ \A a \in Action : entries'[p][a] = entries[p][a] /\ touched'[p][a] = touched[p][a]
<1>3. ASSUME UNCHANGED <<index, now, touched>>, \E x : pc' = [pc EXCEPT ![t] = x] PROVE Frame
  BY <1>3 DEF index
<1>4. ASSUME \E a \in Action : StartLookup(t, a) \/ \E o \in Output : StartInstall(t, a, o)
      PROVE  Frame
  BY <1>3, <1>4 DEF StartLookup, StartInstall, Goto
<1>5. ASSUME \/ RenameBody(t) \/ OpenMetaTmp(t) \/ WriteMetaTmp(t) \/ RenameMetaTmp(t)
             \/ InstallFails(t) \/ RemoveMetaTmp(t) \/ UndoBody(t)
      PROVE  Frame
  <2>1. UNCHANGED <<index, now, touched>>
    BY <1>5 DEF RenameBody, OpenMetaTmp, WriteMetaTmp, RenameMetaTmp, InstallFails, RemoveMetaTmp, UndoBody
  <2>2. \E x : pc' = [pc EXCEPT ![t] = x]
    BY <1>5 DEF RenameBody, OpenMetaTmp, WriteMetaTmp, RenameMetaTmp, InstallFails, RemoveMetaTmp,
                UndoBody, Goto, Return
  <2> QED BY <1>3, <2>1, <2>2
<1>6. ASSUME StatFast(t) \/ ReadMeta(t) \/ StatSlow(t) \/ RemoveBody(t) \/ RemoveMeta(t)
      PROVE  Frame
  <2>1. UNCHANGED <<index, now, touched>>
    BY <1>6 DEF StatFast, ReadMeta, StatSlow, RemoveBody, RemoveMeta
  <2>2. \E x : pc' = [pc EXCEPT ![t] = x]
    BY <1>6 DEF StatFast, ReadMeta, StatSlow, RemoveBody, RemoveMeta, Goto
  <2> QED BY <1>3, <2>1, <2>2
<1>7. ASSUME Commit(t) PROVE Frame
  BY <1>1, <1>7 DEF Commit, HandOut, Return, Goto
<1>8. ASSUME MarkGone(t) PROVE Frame
  BY <1>1, <1>8 DEF MarkGone, Goto
<1>9. ASSUME Touch(t) PROVE Frame
  BY <1>1, <1>9 DEF Touch, HandOut, Found, Goto
<1>10. ASSUME Promote(t) PROVE Frame
  BY <1>1, <1>10 DEF Promote, HandOut, Found, Goto
<1>11. ASSUME Forget(t) PROVE Frame
  BY <1>1, <1>11 DEF Forget, Return, Goto
<1>12. Frame
  BY <1>4, <1>5, <1>6, <1>7, <1>8, <1>9, <1>10, <1>11 DEF ThreadNext
<1> QED BY <1>1, <1>2, <1>12

\* A step of a request leaves the entries of the other processes alone, and makes
\* the entry of its own as young as the touch.
LEMMA ThreadTouch ==
  ASSUME TypeOK, TouchInv, NEW t \in Thread, ThreadNext(t)
  PROVE  TouchInv'
<1>1. phase[ProcOf[t]] = "run" /\ ProcOf[t] \in Proc /\ arg[t] \in Action
  BY ThreadFrame
<1>2. UNCHANGED <<phase, todo, evict, now>> /\ \E x : pc' = [pc EXCEPT ![t] = x]
  BY ThreadFrame
<1>3. \A u \in Thread : pc'[u] \notin Done => phase'[ProcOf[u]] = "run"
  BY <1>1, <1>2 DEF TypeOK, TouchInv
<1>4. \A p \in Proc : p # ProcOf[t] =>
        \A a \in Action : touched'[p][a] = touched[p][a] /\ entries'[p][a] = entries[p][a]
  BY ThreadFrame
<1>5. \A a \in Action : entries'[ProcOf[t]][a].ok =>
        touched'[ProcOf[t]][a] <= entries'[ProcOf[t]][a].acc
  <2> DEFINE p == ProcOf[t]
             e == entries[p][arg[t]]
  <2>1. e \in Entry /\ now \in Nat /\ now <= now
    BY <1>1 DEF TypeOK
  <2>2. CASE UNCHANGED <<entries, touched>>
    BY <1>1, <2>2 DEF TouchInv
  <2>3. CASE Commit(t)
    BY <1>1, <2>1, <2>3 DEF Commit, HandOut, TypeOK, TouchInv
  <2>4. CASE MarkGone(t)
    BY <1>1, <2>1, <2>4 DEF MarkGone, TypeOK, TouchInv, Entry
  <2>5. CASE Touch(t)
    BY <1>1, <2>1, <2>5 DEF Touch, HandOut, TypeOK, TouchInv, Entry
  <2>6. CASE Promote(t)
    BY <1>1, <2>1, <2>6 DEF Promote, HandOut, TypeOK, TouchInv, Entry
  <2>7. CASE Forget(t)
    BY <1>1, <2>1, <2>7 DEF Forget, Absent, TypeOK, TouchInv
  <2> QED BY <2>2, <2>3, <2>4, <2>5, <2>6, <2>7
       DEF ThreadNext, index, StartInstall, RenameBody, OpenMetaTmp, WriteMetaTmp, RenameMetaTmp,
           InstallFails, RemoveMetaTmp, UndoBody, StartLookup, StatFast, ReadMeta, StatSlow,
           RemoveBody, RemoveMeta
<1>6. \A p \in Proc :
        /\ phase'[p] \notin {"select", "evict"} => evict'[p] = {}
        /\ \A a \in Action :
             /\ phase'[p] = "scan" => touched'[p][a] = Never
             /\ entries'[p][a].ok => touched'[p][a] <= entries'[p][a].acc
  BY <1>1, <1>2, <1>4, <1>5 DEF TouchInv
<1>7. \A p \in Proc : \A a \in evict'[p] : now' - touched'[p][a] >= SafetyDur
  <2> SUFFICES ASSUME NEW p \in Proc, NEW a \in evict[p]
               PROVE  now - touched'[p][a] >= SafetyDur
    BY <1>2
  <2>1. p # ProcOf[t] /\ a \in Action
    BY <1>1 DEF TypeOK, TouchInv
  <2> QED BY <1>4, <2>1 DEF TouchInv, OwnTouchSafe
<1>8. \A p \in Proc : phase'[p] = "select" =>
        \A a \in todo'[p] : now' - touched'[p][a] >= SafetyDur
  <2> SUFFICES ASSUME NEW p \in Proc, phase[p] = "select", NEW a \in todo[p]
               PROVE  now - touched'[p][a] >= SafetyDur
    BY <1>2
  <2>1. p # ProcOf[t] /\ a \in Action
    BY <1>1 DEF TypeOK
  <2> QED BY <1>4, <2>1 DEF TouchInv
<1> QED BY <1>3, <1>6, <1>7, <1>8 DEF TouchInv, OwnTouchSafe

\* The steps of a process: scan finds nothing touched, Trim takes only what is cold.
LEMMA ProcTouch ==
  ASSUME TypeOK, TouchInv, NEW p \in Proc, ProcNext(p)
  PROVE  TouchInv'
<1> USE ConstantsAssumption DEF TypeOK, TouchInv, OwnTouchSafe
<1>1. CASE Start(p)
  BY <1>1 DEF Start, threads, Entry, Never
<1>2. ASSUME NEW a \in Action, ScanEntry(p, a) PROVE TouchInv'
  BY <1>2 DEF ScanEntry, Absent, Entry, Never, threads
<1>3. CASE Serve(p)
  BY <1>3 DEF Serve, threads
<1>4. CASE BeginClose(p)
  BY <1>4 DEF BeginClose, Candidates, Idle, Entry, threads
<1>5. ASSUME NEW a \in Action, Select(p, a) PROVE TouchInv'
  BY <1>5 DEF Select, Coldest, threads
<1>6. CASE Selected(p)
  BY <1>6 DEF Selected, threads
<1>7. ASSUME NEW a \in Action, EvictOne(p, a) PROVE TouchInv'
  BY <1>7 DEF EvictOne, Entry, threads
<1>8. ASSUME Discard(p), UNCHANGED <<disk, arg, now, touched>> PROVE TouchInv'
  BY <1>8 DEF Discard, Absent, Done
<1> QED BY <1>1, <1>2, <1>3, <1>4, <1>5, <1>6, <1>7, <1>8 DEF ProcNext, Exit, Crash

\* Every step keeps the touches; time only makes them older.
LEMMA NextTouch == TypeOK /\ TouchInv /\ [Next]_vars => TouchInv'
<1> SUFFICES ASSUME TypeOK, TouchInv, [Next]_vars PROVE TouchInv'
  OBVIOUS
<1>1. ASSUME NEW a \in Action, PowerLoss(a) \/ Rot(a) PROVE TouchInv'
  BY <1>1 DEF PowerLoss, Rot, TouchInv, OwnTouchSafe, index, threads
<1>2. CASE Tick
  BY <1>2, ConstantsAssumption DEF Tick, TypeOK, TouchInv, OwnTouchSafe, disk, index, threads
<1>3. CASE UNCHANGED vars
  BY <1>3 DEF vars, TouchInv, OwnTouchSafe, disk, index, threads
<1> QED BY <1>1, <1>2, <1>3, ThreadTouch, ProcTouch DEF Next

\* Whatever the other processes do to the directory, and although handleClose
\* unpins everything before it calls Trim, Trim never chooses an entry that its
\* own process handed out within the safety window.
THEOREM TrimRespectsOwnTouches == Spec => []OwnTouchSafe
<1>1. TouchInv => OwnTouchSafe
  BY DEF TouchInv
<1> QED BY <1>1, InitTouch, NextTouch, TypeCorrect, PTL DEF Spec

=============================================================================
