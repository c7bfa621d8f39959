------------------------------ MODULE DiskCache ------------------------------
(***************************************************************************)
(* The local disk cache of gocache-rbe (internal/cache): body files (-d),  *)
(* metadata files (-m) and their temporaries in one directory, shared by   *)
(* every gocache-rbe process of a user, and the in-memory index that each  *)
(* process builds by scanning that directory and then keeps on its own.    *)
(*                                                                         *)
(* Grain: one action per system call on a shared file and one per section  *)
(* under dc.mu.  An Output stands for the bytes of an artifact and for the *)
(* metadata (OutputID, size, CAS digest) that describes exactly those      *)
(* bytes.  Time is counted in units of which SafetyDur make 24 hours.      *)
(***************************************************************************)
EXTENDS Integers, FiniteSetsExt

CONSTANTS
  Proc,       \* gocache-rbe processes that share the cache directory
  Thread,     \* request workers of these processes
  ProcOf,     \* ProcOf[t]: the process that thread t belongs to
  Action,     \* action IDs (actionIDHex)
  Output,     \* artifacts
  Produces,   \* Produces[a]: the outputs that builds store under action a
  Size,       \* Size[o]: size of artifact o
  MaxSize,    \* configured size of the cache
  SafetyDur,  \* the safety window, 24 h
  Faults,     \* faults of the environment: some of "io", "crash", "power", "rot"
  MaxTime,    \* bound: the clock stops here
  MaxTotal    \* bound: no install starts that could charge more than this

Nil     == "nil"      \* no such file, no such pointer
Empty   == "empty"    \* a file of length zero
Garbled == "garbled"  \* bytes that are no JSON document
BadHex  == "badhex"   \* metadata that parses, with an OutputIDHex that is not hex

ASSUME ConstantsAssumption ==
  /\ ProcOf \in [Thread -> Proc]
  /\ Action # {}
  /\ Output \cap {Nil, Empty, Garbled, BadHex} = {}
  /\ Produces \in [Action -> SUBSET Output]
  /\ Size \in [Output -> Nat]
  /\ MaxSize \in Nat
  /\ SafetyDur \in Nat \ {0}
  /\ MaxTime \in Nat
  /\ MaxTotal \in Nat

\* A directory lists finitely many files.
ASSUME ActionsAssumption == IsFiniteSet(Action)

VARIABLES
  \* the directory, shared
  body,       \* body[a]: content of the -d file
  mtime,      \* mtime[a]: modification time of the -d file
  meta,       \* meta[a]: content of the -m file
  metaTmp,    \* metaTmp[a]: content of the -m.tmp file
  tmp,        \* tmp[t]: content of the tmp-* file of thread t
  \* each process
  phase,      \* "down", "scan", "run", "select", "evict"
  entries,    \* entries[p][a]: the index entry, with ok = FALSE when there is none
  pinned,     \* pinned[p]: the pinned actions
  total,      \* total[p]: dc.total
  todo,       \* todo[p]: actions still to scan, candidates still to consider
  evict,      \* evict[p]: actions chosen for eviction and not evicted yet
  current,    \* current[p]: currentTotal in Trim
  \* each thread
  pc,         \* the next step of the running call, or the outcome of the last
  arg,        \* the action the call is about
  val,        \* the output to install, or the metadata that Lookup found
  fd,         \* where the open temporary metadata file is now linked
  \* time
  now,
  touched     \* history: touched[p][a], when this run of p last handed out a

disk    == <<body, mtime, meta, metaTmp, tmp>>
index   == <<phase, entries, pinned, total, todo, evict, current>>
threads == <<pc, arg, val, fd>>
vars    == <<disk, index, threads, now, touched>>

File == Output \cup {Nil, Empty, Garbled, BadHex}

Entry == [ok : BOOLEAN, size : Nat, acc : Nat, hasBody : BOOLEAN,
          meta : Output \cup {Nil, BadHex}, path : BOOLEAN]

\* A key that is not in the map dc.entries.
Absent == [ok |-> FALSE, size |-> 0, acc |-> 0, hasBody |-> FALSE,
           meta |-> Nil, path |-> FALSE]

\* Outcomes: a thread in one of these is not inside a cache operation.
Done == {"idle", "hit", "stub", "miss", "ok", "err"}

Steps == {"install", "open", "write", "rename", "rmTmp", "undo", "commit",
          "stat", "gone", "touch", "read", "statSlow", "promote",
          "rmBody", "rmMeta", "forget"}

\* Older than anything the safety window could protect.
Never == 0 - SafetyDur

TypeOK ==
  /\ body \in [Action -> File]
  /\ mtime \in [Action -> Nat]
  /\ meta \in [Action -> File]
  /\ metaTmp \in [Action -> File]
  /\ tmp \in [Thread -> Output \cup {Nil}]
  /\ phase \in [Proc -> {"down", "scan", "run", "select", "evict"}]
  /\ entries \in [Proc -> [Action -> Entry]]
  /\ pinned \in [Proc -> SUBSET Action]
  /\ total \in [Proc -> Int]
  /\ todo \in [Proc -> SUBSET Action]
  /\ evict \in [Proc -> SUBSET Action]
  /\ current \in [Proc -> Int]
  /\ pc \in [Thread -> Done \cup Steps]
  /\ arg \in [Thread -> Action]
  /\ val \in [Thread -> File]
  /\ fd \in [Thread -> {"tmp", "meta", "gone"}]
  /\ now \in Nat
  /\ touched \in [Proc -> [Action -> Int]]

Init ==
  /\ body = [a \in Action |-> Nil]
  /\ mtime = [a \in Action |-> 0]
  /\ meta = [a \in Action |-> Nil]
  /\ metaTmp = [a \in Action |-> Nil]
  /\ tmp = [t \in Thread |-> Nil]
  /\ phase = [p \in Proc |-> "down"]
  /\ entries = [p \in Proc |-> [a \in Action |-> Absent]]
  /\ pinned = [p \in Proc |-> {}]
  /\ total = [p \in Proc |-> 0]
  /\ todo = [p \in Proc |-> {}]
  /\ evict = [p \in Proc |-> {}]
  /\ current = [p \in Proc |-> 0]
  /\ pc = [t \in Thread |-> "idle"]
  /\ arg = [t \in Thread |-> CHOOSE a \in Action : TRUE]
  /\ val = [t \in Thread |-> Nil]
  /\ fd = [t \in Thread |-> "gone"]
  /\ now = 0
  /\ touched = [p \in Proc |-> [a \in Action |-> Never]]

-----------------------------------------------------------------------------
(* Helpers *)

Goto(t, step) == pc' = [pc EXCEPT ![t] = step]

\* The call of thread t returns, and its value is not looked at again.
Return(t, outcome) ==
  /\ Goto(t, outcome)
  /\ val' = [val EXCEPT ![t] = Nil]

Running(t) == phase[ProcOf[t]] = "run"

Idle(p) == \A t \in Thread : ProcOf[t] = p => pc[t] \in Done

\* Length of a file, as Stat reports it.
LengthOf(c) == IF c \in Output THEN Size[c] ELSE 0

\* Mutant: the error of json.Unmarshal is dropped.
Parses_AnyContent(c) == c # Nil

\* ReadMetadata finds a JSON document in the file.
Parses(c) == c \in Output \cup {BadHex}

\* What a file holds after c was written at its start: a shorter document
\* leaves the tail of a longer one behind it.
Overwritten(old, c) == IF old = Empty THEN {c} ELSE {c, Garbled}

\* What the index charges dc.total for action a.
Charged(p, a) ==
  IF entries[p][a].ok /\ entries[p][a].hasBody THEN entries[p][a].size ELSE 0

\* Mutant: the new size is not added.
Recharged_NoAdd(p, a, n) == total[p] - Charged(p, a)

\* dc.total once the charge for a is replaced by n.
Recharged(p, a, n) == (total[p] - Charged(p, a)) + n

\* Open descriptors follow their file when the -m.tmp file of a is renamed
\* over the -m file, and when either file is unlinked.
FdAfterRename(a) ==
  [t \in Thread |-> IF arg[t] # a \/ fd[t] = "gone" THEN fd[t]
                    ELSE IF fd[t] = "tmp" THEN "meta" ELSE "gone"]

FdAfterUnlink(a, link) ==
  [t \in Thread |-> IF arg[t] = a /\ fd[t] = link THEN "gone" ELSE fd[t]]

\* os.Remove of a file of action a.  No caller looks at its error: the file may stay.
Removed(files, a) ==
  {[files EXCEPT ![a] = Nil]} \cup (IF "io" \in Faults THEN {files} ELSE {})

\* Handing out the body of a: pinned, and touched now.
HandOut(p, a) ==
  /\ pinned' = [pinned EXCEPT ![p] = @ \cup {a}]
  /\ touched' = [touched EXCEPT ![p][a] = now]

-----------------------------------------------------------------------------
(* Install.  The caller has written the body to a tmp-* file of its own. *)

StartInstall(t, a, o) ==
  /\ Running(t)
  /\ pc[t] \in Done
  /\ o \in Produces[a]
  /\ total[ProcOf[t]] + Size[o] <= MaxTotal
  /\ tmp' = [tmp EXCEPT ![t] = o]
  /\ arg' = [arg EXCEPT ![t] = a]
  /\ val' = [val EXCEPT ![t] = o]
  /\ Goto(t, "install")
  /\ UNCHANGED <<body, mtime, meta, metaTmp, index, fd, now, touched>>

\* os.Rename of the body.
RenameBody(t) ==
  /\ pc[t] = "install"
  /\ tmp[t] # Nil
  /\ body' = [body EXCEPT ![arg[t]] = tmp[t]]
  /\ mtime' = [mtime EXCEPT ![arg[t]] = now]
  /\ tmp' = [tmp EXCEPT ![t] = Nil]
  /\ Goto(t, "open")
  /\ UNCHANGED <<meta, metaTmp, index, arg, val, fd, now, touched>>

\* WriteMetadata: OpenFile(-m.tmp, O_CREATE|O_TRUNC).
OpenMetaTmp(t) ==
  /\ pc[t] = "open"
  /\ metaTmp' = [metaTmp EXCEPT ![arg[t]] = Empty]
  /\ fd' = [fd EXCEPT ![t] = "tmp"]
  /\ Goto(t, "write")
  /\ UNCHANGED <<body, mtime, meta, tmp, index, arg, val, now, touched>>

\* What one Write of c, failed or not, leaves in a file that held old.
Written(old, c, good) ==
  Overwritten(old, c) \cup (IF good THEN {} ELSE {old, Garbled})

\* WriteMetadata: one Write at offset 0 of the file that is open, then Close.
\* Another writer may have renamed or unlinked that file in the meantime.
WriteMetaTmp(t) ==
  /\ pc[t] = "write"
  /\ \E good \in BOOLEAN :
       /\ good \/ "io" \in Faults
       /\ \E c \in Written(IF fd[t] = "tmp" THEN metaTmp[arg[t]] ELSE meta[arg[t]], val[t], good) :
            /\ metaTmp' = [metaTmp EXCEPT ![arg[t]] = IF fd[t] = "tmp" THEN c ELSE @]
            /\ meta' = [meta EXCEPT ![arg[t]] = IF fd[t] = "meta" THEN c ELSE @]
       /\ Goto(t, IF good THEN "rename" ELSE "rmTmp")
  /\ fd' = [fd EXCEPT ![t] = "gone"]
  /\ UNCHANGED <<body, mtime, tmp, index, arg, val, now, touched>>

\* WriteMetadata: os.Rename(-m.tmp, -m).
RenameMetaTmp(t) ==
  /\ pc[t] = "rename"
  /\ metaTmp[arg[t]] # Nil
  /\ meta' = [meta EXCEPT ![arg[t]] = metaTmp[arg[t]]]
  /\ metaTmp' = [metaTmp EXCEPT ![arg[t]] = Nil]
  /\ fd' = FdAfterRename(arg[t])
  /\ Goto(t, "commit")
  /\ UNCHANGED <<body, mtime, tmp, index, arg, val, now, touched>>

\* A rename or the OpenFile fails: on an I/O error (or that of creating the shard
\* directory), and when the file to rename is gone, the body because the scan of
\* another process removed it, the metadata because another writer renamed it.
InstallFails(t) ==
  /\ \/ pc[t] \in {"install", "open", "rename"} /\ "io" \in Faults
     \/ pc[t] = "install" /\ tmp[t] = Nil
     \/ pc[t] = "rename" /\ metaTmp[arg[t]] = Nil
  /\ Goto(t, CASE pc[t] = "install" -> "err"
               [] pc[t] = "open" -> "undo"
               [] pc[t] = "rename" -> "rmTmp")
  /\ UNCHANGED <<disk, index, arg, val, fd, now, touched>>

\* WriteMetadata: os.Remove(-m.tmp) after a failure.
RemoveMetaTmp(t) ==
  /\ pc[t] = "rmTmp"
  /\ metaTmp' \in Removed(metaTmp, arg[t])
  /\ fd' = IF metaTmp'[arg[t]] = Nil THEN FdAfterUnlink(arg[t], "tmp") ELSE fd
  /\ Goto(t, "undo")
  /\ UNCHANGED <<body, mtime, meta, tmp, index, arg, val, now, touched>>

\* Install: metadata failed, os.Remove(bodyPath).
UndoBody(t) ==
  /\ pc[t] = "undo"
  /\ body' \in Removed(body, arg[t])
  /\ Return(t, "err")
  /\ UNCHANGED <<mtime, meta, metaTmp, tmp, index, arg, fd, now, touched>>

\* Install: the section under dc.mu.
Commit(t) ==
  /\ pc[t] = "commit"
  /\ LET p == ProcOf[t]
         a == arg[t]
     IN /\ total' = [total EXCEPT ![p] = Recharged(p, a, Size[val[t]])]
        /\ entries' = [entries EXCEPT ![p][a] =
                         [ok |-> TRUE, size |-> Size[val[t]], acc |-> now,
                          hasBody |-> TRUE, meta |-> val[t], path |-> TRUE]]
        /\ HandOut(p, a)
  /\ Return(t, "ok")
  /\ UNCHANGED <<disk, phase, todo, evict, current, arg, fd, now>>

-----------------------------------------------------------------------------
(* Lookup, and the Remove that HandleGet calls when the OutputIDHex of the  *)
(* entry it found cannot be decoded.                                        *)

\* Lookup: the first section under dc.mu.  An entry with metadata and no path is
\* known to be evicted.
StartLookup(t, a) ==
  /\ Running(t)
  /\ pc[t] \in Done
  /\ LET e == entries[ProcOf[t]][a]
     IN /\ val' = [val EXCEPT ![t] = e.meta]
        /\ Goto(t, CASE e.meta = Nil -> "read"
                     [] e.meta # Nil /\ e.path -> "stat"
                     [] e.meta # Nil /\ ~e.path -> "stub")
  /\ arg' = [arg EXCEPT ![t] = a]
  /\ UNCHANGED <<disk, index, fd, now, touched>>

\* Lookup, fast path: os.Stat of the body outside dc.mu.
StatFast(t) ==
  /\ pc[t] = "stat"
  /\ Goto(t, IF body[arg[t]] = Nil THEN "gone" ELSE "touch")
  /\ UNCHANGED <<disk, index, arg, val, fd, now, touched>>

\* Lookup, fast path: the body is gone; dc.total is left as it is.
MarkGone(t) ==
  /\ pc[t] = "gone"
  /\ LET p == ProcOf[t]
         e == entries[p][arg[t]]
     IN entries' = [entries EXCEPT ![p][arg[t]] =
                      IF e.ok THEN [e EXCEPT !.hasBody = FALSE, !.path = FALSE] ELSE e]
  /\ Goto(t, "stub")
  /\ UNCHANGED <<disk, phase, pinned, total, todo, evict, current, arg, val, fd, now, touched>>

\* HandleGet after a hit: an OutputIDHex that is not hex leads to Remove.
Found(t) == Goto(t, IF val[t] = BadHex THEN "rmBody" ELSE "hit")

\* Lookup, fast path: the last section under dc.mu.
Touch(t) ==
  /\ pc[t] = "touch"
  /\ LET p == ProcOf[t]
         e == entries[p][arg[t]]
     IN /\ entries' = [entries EXCEPT ![p][arg[t]] =
                         IF e.ok THEN [e EXCEPT !.acc = now] ELSE e]
        /\ HandOut(p, arg[t])
  /\ Found(t)
  /\ UNCHANGED <<disk, phase, total, todo, evict, current, arg, val, fd, now>>

\* Lookup, slow path: ReadMetadata.
ReadMeta(t) ==
  /\ pc[t] = "read"
  /\ LET found == Parses(meta[arg[t]])
     IN /\ val' = [val EXCEPT ![t] = IF found THEN meta[arg[t]] ELSE Nil]
        /\ Goto(t, IF found THEN "statSlow" ELSE "miss")
  /\ UNCHANGED <<disk, index, arg, fd, now, touched>>

\* Lookup, slow path: os.Stat of the body outside dc.mu.
StatSlow(t) ==
  /\ pc[t] = "statSlow"
  /\ Goto(t, IF body[arg[t]] = Nil THEN "stub" ELSE "promote")
  /\ UNCHANGED <<disk, index, arg, val, fd, now, touched>>

\* Lookup, slow path: the last section under dc.mu.
Promote(t) ==
  /\ pc[t] = "promote"
  /\ LET p == ProcOf[t]
         e == entries[p][arg[t]]
     IN /\ entries' = [entries EXCEPT ![p][arg[t]] =
                         IF e.ok THEN [e EXCEPT !.acc = now, !.meta = val[t], !.path = TRUE]
                         ELSE e]
        /\ HandOut(p, arg[t])
  /\ Found(t)
  /\ UNCHANGED <<disk, phase, total, todo, evict, current, arg, val, fd, now>>

\* Remove: os.Remove(bodyPath).
RemoveBody(t) ==
  /\ pc[t] = "rmBody"
  /\ body' \in Removed(body, arg[t])
  /\ Goto(t, "rmMeta")
  /\ UNCHANGED <<mtime, meta, metaTmp, tmp, index, arg, val, fd, now, touched>>

\* Remove: os.Remove(metaPath).
RemoveMeta(t) ==
  /\ pc[t] = "rmMeta"
  /\ meta' \in Removed(meta, arg[t])
  /\ fd' = IF meta'[arg[t]] = Nil THEN FdAfterUnlink(arg[t], "meta") ELSE fd
  /\ Goto(t, "forget")
  /\ UNCHANGED <<body, mtime, metaTmp, tmp, index, arg, val, now, touched>>

\* Mutant: dc.total loses the size of the entry that Lookup found, without another
\* look whether it is still there.
Forget_Held(t) ==
  /\ pc[t] = "forget"
  /\ LET p == ProcOf[t]
         a == arg[t]
     IN /\ total' = [total EXCEPT ![p] = @ - Size[CHOOSE o \in Produces[a] : TRUE]]
        /\ entries' = [entries EXCEPT ![p][a] = Absent]
        /\ pinned' = [pinned EXCEPT ![p] = @ \ {a}]
  /\ Return(t, "miss")
  /\ UNCHANGED <<disk, phase, todo, evict, current, arg, fd, now, touched>>

\* Remove: the section under dc.mu.
Forget(t) ==
  /\ pc[t] = "forget"
  /\ LET p == ProcOf[t]
         a == arg[t]
     IN /\ total' = [total EXCEPT ![p] = Recharged(p, a, 0)]
        /\ entries' = [entries EXCEPT ![p][a] = Absent]
        /\ pinned' = [pinned EXCEPT ![p] = @ \ {a}]
  /\ Return(t, "miss")
  /\ UNCHANGED <<disk, phase, todo, evict, current, arg, fd, now, touched>>

-----------------------------------------------------------------------------
(* A process: NewDiskCache with its scan, the close request with UnpinAll    *)
(* and Trim, and the end of the process.                                     *)

\* NewDiskCache: an empty index; scan removes every tmp-* file it finds, also
\* those that other processes are using, but for those it cannot remove.
Start(p) ==
  /\ phase[p] = "down"
  /\ phase' = [phase EXCEPT ![p] = "scan"]
  /\ todo' = [todo EXCEPT ![p] = Action]
  /\ \E kept \in SUBSET Thread :
       /\ kept = {} \/ "io" \in Faults
       /\ tmp' = [t \in Thread |-> IF t \in kept THEN tmp[t] ELSE Nil]
  /\ touched' = [touched EXCEPT ![p] = [a \in Action |-> Never]]
  /\ UNCHANGED <<body, mtime, meta, metaTmp, entries, pinned, total, evict, current,
                 threads, now>>

\* Mutant: scan indexes a body only when its metadata is there too.
Listed_WithMeta(a) == body[a] # Nil /\ meta[a] # Nil

\* scan: the directory holds a -d file for action a.
Listed(a) == body[a] # Nil

\* scan: one -d file, or its absence; a directory that cannot be read is skipped.
ScanEntry(p, a) ==
  /\ phase[p] = "scan"
  /\ a \in todo[p]
  /\ todo' = [todo EXCEPT ![p] = @ \ {a}]
  /\ \E seen \in BOOLEAN :
       /\ seen = Listed(a) \/ (~seen /\ "io" \in Faults)
       /\ entries' = [entries EXCEPT ![p][a] =
            IF seen THEN [ok |-> TRUE, size |-> LengthOf(body[a]), acc |-> mtime[a],
                          hasBody |-> TRUE, meta |-> Nil, path |-> FALSE]
            ELSE Absent]
       /\ total' = [total EXCEPT ![p] = @ + IF seen THEN LengthOf(body[a]) ELSE 0]
  /\ UNCHANGED <<disk, phase, pinned, evict, current, threads, now, touched>>

\* scan returns, and the process serves requests.
Serve(p) ==
  /\ phase[p] = "scan"
  /\ todo[p] = {}
  /\ phase' = [phase EXCEPT ![p] = "run"]
  /\ UNCHANGED <<disk, entries, pinned, total, todo, evict, current, threads, now, touched>>

\* Trim: int64(float64(dc.maxSize) * 0.8).
target == (MaxSize * 8) \div 10

\* Mutant: the safety window is not looked at.
Candidates_NoWindow(p, pins) ==
  {a \in Action : entries[p][a].ok /\ entries[p][a].hasBody /\ a \notin pins}

\* Trim: the entries it may evict, given the set of pinned ones.
Candidates(p, pins) ==
  {a \in Action : /\ entries[p][a].ok
                  /\ entries[p][a].hasBody
                  /\ a \notin pins
                  /\ now - entries[p][a].acc >= SafetyDur}

\* handleClose: every worker has returned; UnpinAll, then Trim up to the sort.
BeginClose(p) ==
  /\ phase[p] = "run"
  /\ Idle(p)
  /\ pinned' = [pinned EXCEPT ![p] = {}]
  /\ current' = [current EXCEPT ![p] = total[p]]
  /\ todo' = [todo EXCEPT ![p] = IF total[p] <= target THEN {} ELSE Candidates(p, {})]
  /\ phase' = [phase EXCEPT ![p] = "select"]
  /\ UNCHANGED <<disk, entries, total, evict, threads, now, touched>>

\* Mutant: After in place of Before.
Coldest_Hottest(p, S, a) ==
  /\ a \in S
  /\ \A b \in S : entries[p][a].acc >= entries[p][b].acc

\* The order of sort.Slice: a is in S and no entry of S was accessed before it.
Coldest(p, S, a) ==
  /\ a \in S
  /\ \A b \in S : entries[p][a].acc <= entries[p][b].acc

\* Trim: one round of the loop over the sorted candidates.
Select(p, a) ==
  /\ phase[p] = "select"
  /\ current[p] > target
  /\ Coldest(p, todo[p], a)
  /\ todo' = [todo EXCEPT ![p] = @ \ {a}]
  /\ evict' = [evict EXCEPT ![p] = @ \cup {a}]
  /\ current' = [current EXCEPT ![p] = @ - entries[p][a].size]
  /\ UNCHANGED <<disk, phase, entries, pinned, total, threads, now, touched>>

\* Trim: the end of that loop.
Selected(p) ==
  /\ phase[p] = "select"
  /\ current[p] <= target \/ todo[p] = {}
  /\ phase' = [phase EXCEPT ![p] = "evict"]
  /\ UNCHANGED <<disk, entries, pinned, total, todo, evict, current, threads, now, touched>>

\* Trim: one round of the loop over toEvict.  No request of p is running, so
\* removing the file and updating the entry under dc.mu are one step.
EvictOne(p, a) ==
  /\ phase[p] = "evict"
  /\ Coldest(p, evict[p], a)
  /\ body' \in Removed(body, a)
  /\ total' = [total EXCEPT ![p] = Recharged(p, a, 0)]
  /\ entries' = [entries EXCEPT ![p][a] = [@ EXCEPT !.hasBody = FALSE, !.path = FALSE]]
  /\ evict' = [evict EXCEPT ![p] = @ \ {a}]
  /\ UNCHANGED <<mtime, meta, metaTmp, tmp, phase, pinned, todo, current, threads, now, touched>>

\* Process p is gone, with its memory, its threads and their open files.
Discard(p) ==
  /\ phase' = [phase EXCEPT ![p] = "down"]
  /\ entries' = [entries EXCEPT ![p] = [a \in Action |-> Absent]]
  /\ pinned' = [pinned EXCEPT ![p] = {}]
  /\ total' = [total EXCEPT ![p] = 0]
  /\ todo' = [todo EXCEPT ![p] = {}]
  /\ evict' = [evict EXCEPT ![p] = {}]
  /\ current' = [current EXCEPT ![p] = 0]
  /\ pc' = [t \in Thread |-> IF ProcOf[t] = p THEN "idle" ELSE pc[t]]
  /\ val' = [t \in Thread |-> IF ProcOf[t] = p THEN Nil ELSE val[t]]
  /\ fd' = [t \in Thread |-> IF ProcOf[t] = p THEN "gone" ELSE fd[t]]

\* The process ends: after Trim, or at the end of its input without one.
Exit(p) ==
  /\ \/ phase[p] = "evict" /\ evict[p] = {}
     \/ phase[p] = "run" /\ Idle(p)
  /\ Discard(p)
  /\ UNCHANGED <<disk, arg, now, touched>>

-----------------------------------------------------------------------------
(* The environment *)

\* Process p is killed.
Crash(p) ==
  /\ "crash" \in Faults
  /\ phase[p] # "down"
  /\ Discard(p)
  /\ UNCHANGED <<disk, arg, now, touched>>

\* Power is lost while every process is down, killed or ended.  Nothing was
\* synced: a file written in the current unit of time may turn out empty.
PowerLoss(a) ==
  /\ "power" \in Faults
  /\ \A p \in Proc : phase[p] = "down"
  /\ mtime[a] = now
  /\ \E lost \in SUBSET {"body", "meta"} :
       /\ body' = [body EXCEPT ![a] = IF "body" \in lost /\ @ # Nil THEN Empty ELSE @]
       /\ meta' = [meta EXCEPT ![a] = IF "meta" \in lost /\ @ # Nil THEN Empty ELSE @]
  /\ UNCHANGED <<mtime, metaTmp, tmp, index, threads, now, touched>>

\* A metadata file is damaged so that it still parses.
Rot(a) ==
  /\ "rot" \in Faults
  /\ meta[a] \in Output
  /\ meta' = [meta EXCEPT ![a] = BadHex]
  /\ UNCHANGED <<body, mtime, metaTmp, tmp, index, threads, now, touched>>

Tick ==
  /\ now < MaxTime
  /\ now' = now + 1
  /\ UNCHANGED <<disk, index, threads, touched>>

-----------------------------------------------------------------------------

ThreadNext(t) ==
  \/ \E a \in Action : StartLookup(t, a) \/ \E o \in Output : StartInstall(t, a, o)
  \/ RenameBody(t) \/ OpenMetaTmp(t) \/ WriteMetaTmp(t) \/ RenameMetaTmp(t)
  \/ InstallFails(t) \/ RemoveMetaTmp(t) \/ UndoBody(t) \/ Commit(t)
  \/ StatFast(t) \/ MarkGone(t) \/ Touch(t)
  \/ ReadMeta(t) \/ StatSlow(t) \/ Promote(t)
  \/ RemoveBody(t) \/ RemoveMeta(t) \/ Forget(t)

ProcNext(p) ==
  \/ Start(p) \/ Serve(p) \/ BeginClose(p) \/ Selected(p) \/ Exit(p) \/ Crash(p)
  \/ \E a \in Action : ScanEntry(p, a) \/ Select(p, a) \/ EvictOne(p, a)

Next ==
  \/ \E t \in Thread : ThreadNext(t)
  \/ \E p \in Proc : ProcNext(p)
  \/ \E a \in Action : PowerLoss(a) \/ Rot(a)
  \/ Tick

Spec == Init /\ [][Next]_vars

-----------------------------------------------------------------------------
(* Properties *)

\* A get that answers with a local hit has metadata that decodes, and the file
\* it names holds the bytes which that metadata describes, as long as the file
\* is there at all (Lookup, HandleGet).  For actions with a single output.
HitServesItsBody ==
  \A t \in Thread :
    pc[t] = "hit" => val[t] \in Produces[arg[t]] /\ body[arg[t]] \in {Nil, val[t]}

\* Trim never chooses an entry that this process handed out, by Install or by a
\* Lookup hit, within the safety window; UnpinAll, which handleClose calls just
\* before Trim, does not expose the entries of the build that is closing.
OwnTouchSafe ==
  \A p \in Proc : \A a \in evict[p] : now - touched[p][a] >= SafetyDur

\* What Trim chooses: no entry hotter than one it keeps as a candidate, and no
\* more than it needs to; and when it is done dc.total has the value that was
\* planned, at most the target unless it ran out of candidates.
TrimPlanRight ==
  \A p \in Proc :
    /\ \A a \in evict[p], b \in todo[p] : entries[p][a].acc <= entries[p][b].acc
    /\ phase[p] = "select" /\ evict[p] # {} =>
         \E a \in evict[p] : current[p] + entries[p][a].size > target
    /\ phase[p] = "evict" /\ evict[p] = {} =>
         total[p] = current[p] /\ (total[p] <= target \/ todo[p] = {})

\* dc.total never falls below what the index charges for its entries, so Trim
\* never starts too late (Install, Lookup, Remove, scan, Trim).
TotalCovers ==
  \A p \in Proc :
    total[p] >= MapThenSumSet(LAMBDA a : Charged(p, a), Action)

\* While no request runs, every body file in the directory is in the index: scan
\* and Install lose none, also when earlier runs were killed half way through an
\* Install.  For a process that has the directory to itself, without I/O errors.
BodyIndexed ==
  \A p \in Proc :
    phase[p] = "run" /\ Idle(p) =>
      \A a \in Action : body[a] # Nil => entries[p][a].ok

=============================================================================
