----------------------------- MODULE RemoteCache -----------------------------
(***************************************************************************)
(* Machines that share a remote cache: a put stores an artifact locally    *)
(* and then copies it to the remote (remotePopulate, UploadFile,           *)
(* UploadBlob, UpdateActionResult); a get refills from CAS or asks the     *)
(* action cache, downloads, verifies and installs (HandleGet,              *)
(* refillFromCAS, remoteACLookup, downloadAndInstall).  A machine runs one *)
(* process at a time; of its local store the body and metadata files and   *)
(* the metadata kept in memory are left, Install is its body rename, its   *)
(* metadata write and its index update, and Lookup is one step.  An RPC    *)
(* stands for all of its attempts.                                         *)
(***************************************************************************)
EXTENDS Integers

CONSTANTS
  Machine, Thread,
  MachineOf,      \* MachineOf[t]: where thread t, a request with its goroutine, runs
  Action, Output,
  Faults          \* some of "rpc" (failed calls), "gc", "evict", "corrupt",
                  \* "io" (failed file operations), "kill"

Nil == "nil"
Bad == "bad"       \* downloaded bytes that are not the blob that was asked for
Listed == "listed" \* an index entry of the scan: the metadata has not been read yet

ASSUME RemoteAssumption ==
  /\ MachineOf \in [Thread -> Machine]
  /\ Action # {}
  /\ Output \cap {Nil, Bad, Listed} = {}

VARIABLES
  cas,      \* external: the blobs in content-addressable storage
  ac,       \* external: ac[a], the output named by the action result of a
  updates,  \* the clients learnt at startup that the server takes action results
  file,     \* file[m][a]: the body file
  meta,     \* meta[m][a]: the output that the metadata file names, Nil if unreadable
  idx,      \* idx[m][a]: the metadata in the index of the process
  gone,     \* gone[m][a]: the index has noted that the body is missing
  pc, arg,  \* where a request is, and the action it is about
  mode,     \* whether it is a put, a get or the refill of a get
  out,      \* the output it stores, or the one it is to download
  data,     \* what its temporary file holds, or the body it was answered with
  stage,    \* the blob that remotePopulate is at
  again,    \* remotePopulate is in its second round
  dropped,  \* history: the server has dropped a blob
  stored,   \* history: stored[a], the outputs that a put has stored for a
  seen      \* history: seen[t], the kinds of blobs found or put in CAS in this round

remote == <<cas, ac, updates, dropped>>
local  == <<file, meta, idx, gone>>
call   == <<pc, arg, mode, out, data, stage, again>>
vars   == <<remote, local, call, stored, seen>>

\* The blobs of an artifact, in the order in which they are uploaded.
Order == <<"body", "command", "dir", "action">>
Kind  == {"body", "command", "dir", "action"}

Blob(kind, a, o) ==
  <<kind, CASE kind = "body" -> o [] kind = "dir" -> Nil [] OTHER -> a>>

\* The blobs that the synthetic action result of a refers to, its action included.
Needed(a, o) == {Blob(kind, a, o) : kind \in Kind}

AllBlobs == UNION {Needed(a, o) : a \in Action, o \in Output}

TypeOK ==
  /\ cas \subseteq AllBlobs
  /\ ac \in [Action -> Output \cup {Nil}]
  /\ updates \in BOOLEAN
  /\ dropped \in BOOLEAN
  /\ file \in [Machine -> [Action -> Output \cup {Nil}]]
  /\ meta \in [Machine -> [Action -> Output \cup {Nil}]]
  /\ idx \in [Machine -> [Action -> Output \cup {Nil, Listed}]]
  /\ gone \in [Machine -> [Action -> BOOLEAN]]
  /\ pc \in [Thread -> {"idle", "install", "meta", "undo", "commit", "find", "upload", "update",
                        "lookup", "download", "verify", "served"}]
  /\ mode \in [Thread -> {"put", "get", "refill"}]
  /\ arg \in [Thread -> Action]
  /\ out \in [Thread -> Output \cup {Nil}]
  /\ data \in [Thread -> Output \cup {Nil, Bad}]
  /\ stage \in [Thread -> 1..4]
  /\ again \in [Thread -> BOOLEAN]
  /\ stored \in [Action -> SUBSET Output]
  /\ seen \in [Thread -> SUBSET Kind]

Init ==
  /\ cas = {}
  /\ ac = [a \in Action |-> Nil]
  /\ updates \in BOOLEAN
  /\ dropped = FALSE
  /\ file = [m \in Machine |-> [a \in Action |-> Nil]]
  /\ meta = [m \in Machine |-> [a \in Action |-> Nil]]
  /\ idx = [m \in Machine |-> [a \in Action |-> Nil]]
  /\ gone = [m \in Machine |-> [a \in Action |-> FALSE]]
  /\ pc = [t \in Thread |-> "idle"]
  /\ mode = [t \in Thread |-> "get"]
  /\ arg = [t \in Thread |-> CHOOSE a \in Action : TRUE]
  /\ out = [t \in Thread |-> Nil]
  /\ data = [t \in Thread |-> Nil]
  /\ stage = [t \in Thread |-> 1]
  /\ again = [t \in Thread |-> FALSE]
  /\ stored = [a \in Action |-> {}]
  /\ seen = [t \in Thread |-> {}]

Goto(t, step) == pc' = [pc EXCEPT ![t] = step]

\* The request is over: what its goroutines held is gone.
Finish(t) ==
  /\ Goto(t, "idle")
  /\ mode' = [mode EXCEPT ![t] = "get"]
  /\ out' = [out EXCEPT ![t] = Nil]
  /\ data' = [data EXCEPT ![t] = Nil]
  /\ stage' = [stage EXCEPT ![t] = 1]
  /\ again' = [again EXCEPT ![t] = FALSE]
  /\ seen' = [seen EXCEPT ![t] = {}]

Current(t) == Blob(Order[stage[t]], arg[t], out[t])

\* remotePopulate begins a round of uploads.
BeginRound(t, second) ==
  /\ Goto(t, "find")
  /\ stage' = [stage EXCEPT ![t] = 1]
  /\ again' = [again EXCEPT ![t] = second]
  /\ seen' = [seen EXCEPT ![t] = {}]

-----------------------------------------------------------------------------
(* Install, of a put and of a download *)

\* Install has failed: the put is answered with an error, a refill goes on to the
\* action cache, a lookup in the action cache is a miss.
Fails(t) ==
  IF mode[t] = "refill"
  THEN /\ Goto(t, "lookup")
       /\ mode' = [mode EXCEPT ![t] = "get"]
       /\ UNCHANGED <<out, data, stage, again, seen>>
  ELSE Finish(t)

\* The temporary file becomes the body.
RenameBody(t) ==
  /\ pc[t] = "install"
  /\ file' = [file EXCEPT ![MachineOf[t]][arg[t]] = data[t]]
  /\ Goto(t, "meta")
  /\ UNCHANGED <<remote, meta, idx, gone, arg, mode, out, data, stage, again, stored, seen>>

\* The directory cannot be made, or the temporary file cannot be written or renamed.
RenameFails(t) ==
  /\ pc[t] = "install"
  /\ "io" \in Faults
  /\ Fails(t)
  /\ UNCHANGED <<remote, local, arg, stored>>

\* The Installs that share the temporary metadata file with that of t.
Rivals(t) ==
  {u \in Thread \ {t} : pc[u] = "meta" /\ MachineOf[u] = MachineOf[t] /\ arg[u] = arg[t]}

\* WriteMetadata renames the temporary file, which may hold what a rival wrote, or
\* a mixture that cannot be read.
WriteMeta(t) ==
  /\ pc[t] = "meta"
  /\ \E o \in {out[t]} \cup {out[u] : u \in Rivals(t)} \cup (IF Rivals(t) = {} THEN {} ELSE {Nil}) :
       meta' = [meta EXCEPT ![MachineOf[t]][arg[t]] = o]
  /\ Goto(t, "commit")
  /\ UNCHANGED <<remote, file, idx, gone, arg, mode, out, data, stage, again, stored, seen>>

\* WriteMetadata fails, by itself or because a rival has renamed the temporary file;
\* in that case t has written to what is the metadata file by then.
WriteMetaFails(t) ==
  /\ pc[t] = "meta"
  /\ "io" \in Faults
  /\ \E o \in {meta[MachineOf[t]][arg[t]], out[t], Nil} :
       meta' = [meta EXCEPT ![MachineOf[t]][arg[t]] = o]
  /\ Goto(t, "undo")
  /\ UNCHANGED <<remote, file, idx, gone, arg, mode, out, data, stage, again, stored, seen>>

\* The body is removed by name, whoever installed it, if it can be.
Undo(t) ==
  /\ pc[t] = "undo"
  /\ \E o \in {file[MachineOf[t]][arg[t]], Nil} :
       file' = [file EXCEPT ![MachineOf[t]][arg[t]] = o]
  /\ Fails(t)
  /\ UNCHANGED <<remote, meta, idx, gone, arg, stored>>

\* The index is updated.  A put is answered and its remotePopulate starts; a get is
\* answered with the path of the body, whatever is there by now.
Commit(t) ==
  /\ pc[t] = "commit"
  /\ idx' = [idx EXCEPT ![MachineOf[t]][arg[t]] = out[t]]
  /\ gone' = [gone EXCEPT ![MachineOf[t]][arg[t]] = FALSE]
  /\ IF mode[t] = "put"
     THEN /\ BeginRound(t, FALSE)
          /\ data' = [data EXCEPT ![t] = Nil]
     ELSE /\ Goto(t, "served")
          /\ data' = [data EXCEPT ![t] = file[MachineOf[t]][arg[t]]]
          /\ UNCHANGED <<stage, again, seen>>
  /\ UNCHANGED <<remote, file, meta, arg, mode, out, stored>>

-----------------------------------------------------------------------------
(* Put *)

\* HandlePut: the body is in a temporary file, and is to be installed.
Put(t, a, o) ==
  /\ pc[t] \in {"idle", "served"}
  /\ arg' = [arg EXCEPT ![t] = a]
  /\ mode' = [mode EXCEPT ![t] = "put"]
  /\ out' = [out EXCEPT ![t] = o]
  /\ data' = [data EXCEPT ![t] = o]
  /\ stored' = [stored EXCEPT ![a] = @ \cup {o}]
  /\ Goto(t, "install")
  /\ UNCHANGED <<remote, local, stage, again, seen>>

\* Mutant: the bound on the list of blobs is off by one.
Advance_PastEnd(t) ==
  /\ IF stage[t] <= 4 THEN Goto(t, "find") /\ stage' = [stage EXCEPT ![t] = @ + 1]
                      ELSE Goto(t, "update") /\ UNCHANGED stage
  /\ seen' = [seen EXCEPT ![t] = @ \cup {Order[stage[t]]}]

\* Mutant: the blob after the missing one is taken for uploaded as well.
Advance_SkipsOne(t) ==
  /\ IF stage[t] < 3 THEN Goto(t, "find") /\ stage' = [stage EXCEPT ![t] = @ + 2]
                     ELSE Goto(t, "update") /\ UNCHANGED stage
  /\ seen' = [seen EXCEPT ![t] = @ \cup {Order[stage[t]]}]

\* The current blob is in CAS: on to the next one, or to the action result.
Advance(t) ==
  /\ IF stage[t] < 4 THEN Goto(t, "find") /\ stage' = [stage EXCEPT ![t] = @ + 1]
                     ELSE Goto(t, "update") /\ UNCHANGED stage
  /\ seen' = [seen EXCEPT ![t] = @ \cup {Order[stage[t]]}]

\* UploadFile, UploadBlob: FindMissingBlobs, and nothing more if the blob is there.
Find(t) ==
  /\ pc[t] = "find"
  /\ IF Current(t) \in cas THEN Advance(t)
                           ELSE Goto(t, "upload") /\ UNCHANGED <<stage, seen>>
  /\ UNCHANGED <<remote, local, arg, mode, out, data, again, stored>>

\* What UploadFile reads from the body file are the bytes of the digest; other
\* bytes are refused by the server, and a missing file cannot be opened.
Readable(t) == Order[stage[t]] = "body" => file[MachineOf[t]][arg[t]] = out[t]

Upload(t) ==
  /\ pc[t] = "upload"
  /\ Readable(t)
  /\ cas' = cas \cup {Current(t)}
  /\ Advance(t)
  /\ UNCHANGED <<ac, updates, dropped, local, arg, mode, out, data, again, stored>>

\* The server has every blob that the result of t refers to.
Complete(t) == Needed(arg[t], out[t]) \subseteq cas

\* UpdateActionResult is accepted, by a server that need not look for the blobs.
Update(t) ==
  /\ pc[t] = "update"
  /\ updates
  /\ ac' = [ac EXCEPT ![arg[t]] = out[t]]
  /\ Finish(t)
  /\ UNCHANGED <<cas, updates, dropped, local, arg, stored>>

\* Mutant: uploads are repeated for as long as the server refuses.
UploadAgain_Endless(t) ==
  /\ pc[t] = "update"
  /\ updates /\ ~Complete(t)
  /\ BeginRound(t, TRUE)
  /\ UNCHANGED <<remote, local, arg, mode, out, data, stored>>

\* UpdateActionResult fails with FAILED_PRECONDITION, on a server that does look:
\* everything is uploaded once more.
UploadAgain(t) ==
  /\ pc[t] = "update"
  /\ updates /\ ~Complete(t) /\ ~again[t]
  /\ BeginRound(t, TRUE)
  /\ UNCHANGED <<remote, local, arg, mode, out, data, stored>>

\* remotePopulate returns without an action result: updates are disabled, the
\* second attempt was refused too, the body is gone, or a call failed.
GiveUp(t) ==
  /\ \/ pc[t] = "update" /\ ~updates
     \/ pc[t] = "update" /\ ~Complete(t) /\ again[t]
     \/ pc[t] = "upload" /\ ~Readable(t)
     \/ pc[t] \in {"find", "upload", "update"} /\ "rpc" \in Faults
  /\ Finish(t)
  /\ UNCHANGED <<remote, local, arg, stored>>

-----------------------------------------------------------------------------
(* Get *)

\* Lookup finds metadata in the index, or else in the file.
Indexed(m, a) == idx[m][a] \notin {Nil, Listed}
MetaOf(m, a) == IF Indexed(m, a) THEN idx[m][a] ELSE meta[m][a]

\* Mutant: a body without metadata is a hit.
Hit_BodyAlone(m, a) == file[m][a] # Nil /\ ~(Indexed(m, a) /\ gone[m][a])

\* Metadata and a body, unless the index knows the body as missing.
Hit(m, a) == MetaOf(m, a) # Nil /\ file[m][a] # Nil /\ ~(Indexed(m, a) /\ gone[m][a])

\* HandleGet: a local hit, a stub to refill, or a lookup in the action cache.
Get(t, a) ==
  /\ pc[t] \in {"idle", "served"}
  /\ LET m == MachineOf[t]
     IN /\ out' = [out EXCEPT ![t] = MetaOf(m, a)]
        /\ data' = [data EXCEPT ![t] = IF Hit(m, a) THEN file[m][a] ELSE Nil]
        /\ Goto(t, CASE Hit(m, a) -> "served"
                     [] ~Hit(m, a) /\ MetaOf(m, a) # Nil -> "download"
                     [] ~Hit(m, a) /\ MetaOf(m, a) = Nil -> "lookup")
        /\ mode' = [mode EXCEPT ![t] =
                      IF ~Hit(m, a) /\ MetaOf(m, a) # Nil THEN "refill" ELSE "get"]
        /\ idx' = [idx EXCEPT ![m][a] = IF Hit(m, a) /\ @ = Listed THEN meta[m][a] ELSE @]
        /\ gone' = [gone EXCEPT ![m][a] = @ \/ (Indexed(m, a) /\ file[m][a] = Nil)]
  /\ arg' = [arg EXCEPT ![t] = a]
  /\ UNCHANGED <<remote, file, meta, stage, again, stored, seen>>

\* remoteACLookup: GetActionResult finds a result; its output file is downloaded.
LookupHit(t) ==
  /\ pc[t] = "lookup"
  /\ ac[arg[t]] # Nil
  /\ out' = [out EXCEPT ![t] = ac[arg[t]]]
  /\ data' = [data EXCEPT ![t] = Nil]
  /\ Goto(t, "download")
  /\ UNCHANGED <<remote, local, arg, mode, stage, again, stored, seen>>

\* GetActionResult finds nothing or fails: a miss.
LookupMiss(t) ==
  /\ pc[t] = "lookup"
  /\ ac[arg[t]] = Nil \/ "rpc" \in Faults
  /\ Finish(t)
  /\ UNCHANGED <<remote, local, arg, stored>>

\* DownloadBlob: one attempt, into the temporary file.
Download(t) ==
  /\ pc[t] = "download"
  /\ Blob("body", arg[t], out[t]) \in cas
  /\ \E d \in {out[t]} \cup (IF "corrupt" \in Faults THEN {Bad} ELSE {}) :
       data' = [data EXCEPT ![t] = d]
  /\ Goto(t, "verify")
  /\ UNCHANGED <<remote, local, arg, mode, out, stage, again, stored, seen>>

\* Mutant: the digest of the download is not compared.
Verified_Unchecked(t) == TRUE

\* downloadAndInstall: hash and size are those of the digest.
Verified(t) == data[t] = out[t]

\* downloadAndInstall: a verified download is to be installed.
Verify(t) ==
  /\ pc[t] = "verify"
  /\ Verified(t)
  /\ Goto(t, "install")
  /\ UNCHANGED <<remote, local, arg, mode, out, data, stage, again, stored, seen>>

\* DownloadBlob failed, or what it wrote is not what was asked for: refillFromCAS
\* returns nil, remoteACLookup a miss.
DownloadFails(t) ==
  /\ \/ pc[t] = "download" /\ Blob("body", arg[t], out[t]) \notin cas
     \/ pc[t] = "download" /\ "rpc" \in Faults
     \/ pc[t] = "verify" /\ ~Verified(t)
  /\ Fails(t)
  /\ UNCHANGED <<remote, local, arg, stored>>

-----------------------------------------------------------------------------
(* The environment *)

\* The server drops a blob.
CollectBlob ==
  /\ "gc" \in Faults
  /\ \E b \in cas : cas' = cas \ {b}
  /\ dropped' = TRUE
  /\ UNCHANGED <<ac, updates, local, call, stored, seen>>

\* Trim, of another process of the machine or at the end of this one, leaves the
\* metadata.
Evict(m, a) ==
  /\ "evict" \in Faults
  /\ file[m][a] # Nil
  /\ file' = [file EXCEPT ![m][a] = Nil]
  /\ UNCHANGED <<remote, meta, idx, gone, call, stored, seen>>

\* The process of m ends, be it in the middle of its requests, and another one
\* starts: its scan lists the bodies and leaves metadata to be read.
Restart(m) ==
  LET Reset(f, v) == [t \in Thread |-> IF MachineOf[t] = m THEN v ELSE f[t]]
  IN /\ "kill" \in Faults
     /\ idx' = [idx EXCEPT ![m] = [a \in Action |-> IF file[m][a] = Nil THEN Nil ELSE Listed]]
     /\ gone' = [gone EXCEPT ![m] = [a \in Action |-> FALSE]]
     /\ pc' = Reset(pc, "idle")
     /\ mode' = Reset(mode, "get")
     /\ out' = Reset(out, Nil)
     /\ data' = Reset(data, Nil)
     /\ stage' = Reset(stage, 1)
     /\ again' = Reset(again, FALSE)
     /\ seen' = Reset(seen, {})
     /\ UNCHANGED <<remote, file, meta, arg, stored>>

-----------------------------------------------------------------------------

InstallStep(t) ==
  \/ RenameBody(t) \/ RenameFails(t) \/ WriteMeta(t) \/ WriteMetaFails(t) \/ Undo(t) \/ Commit(t)

Step(t) ==
  \/ InstallStep(t)
  \/ Find(t) \/ Upload(t) \/ Update(t) \/ UploadAgain(t) \/ GiveUp(t)
  \/ LookupHit(t) \/ LookupMiss(t) \/ Download(t) \/ Verify(t) \/ DownloadFails(t)

Next ==
  \/ \E t \in Thread : Step(t)
  \/ \E t \in Thread, a \in Action : Get(t, a) \/ \E o \in Output : Put(t, a, o)
  \/ \E m \in Machine, a \in Action : Evict(m, a)
  \/ \E m \in Machine : Restart(m)
  \/ CollectBlob

Spec == Init /\ [][Next]_vars

\* Goroutines run and every call returns.
FairSpec == Spec /\ \A t \in Thread : WF_vars(Step(t))

-----------------------------------------------------------------------------
(* Properties *)

\* A get answers only with an output that a put, successful or not, was given for
\* that very action on some machine, and the body it points to holds nothing but
\* such an output: across machines, overlapping Installs, restarts, failed calls,
\* evictions and damaged downloads.  So a reproducible action gets its own bytes; with
\* several outputs the body may be that of another one (InstalledWhole of DiskCache), and
\* it may be gone again (Evict, Undo).
ServedWasStored ==
  \A t \in Thread :
    pc[t] = "served" => /\ out[t] \in stored[arg[t]]
                        /\ data[t] \in stored[arg[t]] \cup {Nil}

\* An action result is sent only after every blob it refers to was found or put in
\* CAS, in the same round of remotePopulate.
ResultAfterBlobs == \A t \in Thread : pc[t] = "update" => seen[t] = Kind

\* As long as the server drops nothing, every action result has all its blobs,
\* although the server need not look for them.
ResultsBacked == ~dropped => \A a \in Action : ac[a] # Nil => Needed(a, ac[a]) \subseteq cas

\* Every request comes to an end: remotePopulate uploads again only once, however
\* often the server has dropped the blobs by then.
RequestsEnd == \A t \in Thread : []<>(pc[t] \in {"idle", "served"})

=============================================================================
