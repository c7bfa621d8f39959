-------------------------- MODULE RemoteCacheProofs --------------------------
(***************************************************************************)
(* Proofs about RemoteCache, for any machines, requests, actions, outputs  *)
(* and faults.                                                             *)
(***************************************************************************)
EXTENDS RemoteCache, TLAPS

\* Where the output of a request is fixed.
Populating == {"find", "upload", "update"}
Installing == {"install", "meta", "undo", "commit"}
Fetching   == {"download", "verify", "served"}

\* Everything that names an output for an action names one that was stored for it,
\* and every body holds one.
FilesFrom ==
  /\ \A a \in Action : ac[a] # Nil => ac[a] \in stored[a]
  /\ \A m \in Machine, a \in Action :
       /\ file[m][a] # Nil => file[m][a] \in stored[a]
       /\ meta[m][a] # Nil => meta[m][a] \in stored[a]
       /\ idx[m][a] \notin {Nil, Listed} => idx[m][a] \in stored[a]

\* So do requests; what one is about to install has been verified.
RequestsFrom ==
  \A t \in Thread :
    /\ pc[t] \in Populating \cup Installing \cup Fetching => out[t] \in stored[arg[t]]
    /\ pc[t] = "install" => data[t] = out[t]
    /\ pc[t] = "served" /\ data[t] # Nil => data[t] \in stored[arg[t]]

Provenance == FilesFrom /\ RequestsFrom

\* The blobs that remotePopulate has dealt with are those before the current one.
RoundInv ==
  \A t \in Thread :
    /\ pc[t] \in {"find", "upload"} => seen[t] = {Order[i] : i \in 1..(stage[t] - 1)}
    /\ pc[t] = "update" => seen[t] = Kind

RemoteInv == TypeOK /\ Provenance /\ RoundInv

\* The initial states satisfy the invariant.
LEMMA RemoteInit == Init => RemoteInv
<1> USE DEF Init
<1>1. Init => TypeOK
  <2>1. (CHOOSE a \in Action : TRUE) \in Action
    BY RemoteAssumption
  <2>2. Init => dropped \in BOOLEAN /\ again \in [Thread -> BOOLEAN]
    BY Zenon
  <2>3. Init => gone \in [Machine -> [Action -> BOOLEAN]]
    OBVIOUS
  <2> QED BY <2>1, <2>2, <2>3 DEF TypeOK
<1>2. Init => Provenance /\ RoundInv
  BY DEF Provenance, FilesFrom, RequestsFrom, RoundInv, Populating, Installing, Fetching
<1> QED BY <1>1, <1>2 DEF RemoteInv

\* The blobs of an artifact are blobs, and there is one of each kind.
LEMMA BlobFacts ==
  /\ \A a \in Action, o \in Output, kind \in Kind : Blob(kind, a, o) \in AllBlobs
  /\ \A i \in 1..4 : Order[i] \in Kind
  /\ {Order[i] : i \in 1..4} = Kind
<1>1. \A a \in Action, o \in Output, kind \in Kind : Blob(kind, a, o) \in AllBlobs
  <2>1. \A a \in Action, o \in Output, kind \in Kind : Blob(kind, a, o) \in Needed(a, o)
    BY Zenon DEF Needed
  <2>2. \A a \in Action, o \in Output : Needed(a, o) \subseteq AllBlobs
    BY DEF AllBlobs
  <2> QED BY <2>1, <2>2
<1>2. /\ Order[1] = "body" /\ Order[2] = "command"
      /\ Order[3] = "dir" /\ Order[4] = "action"
  BY DEF Order
<1>3. 1..4 = {1, 2, 3, 4}
  OBVIOUS
<1>4. \A i \in 1..4 : Order[i] \in Kind
  BY <1>2, <1>3 DEF Kind
<1>5. {Order[i] : i \in 1..4} = Kind
  BY <1>2, <1>3, Zenon DEF Kind
<1> QED BY <1>1, <1>4, <1>5

\* Advance keeps its variables within their types.
LEMMA AdvanceType ==
  ASSUME TypeOK, NEW t \in Thread, Advance(t)
  PROVE  /\ pc' \in [Thread -> {"idle", "install", "meta", "undo", "commit", "find", "upload",
                                "update", "lookup", "download", "verify", "served"}]
         /\ stage' \in [Thread -> 1..4]
         /\ seen' \in [Thread -> SUBSET Kind]
<1>1. stage[t] \in 1..4 /\ Order[stage[t]] \in Kind
  BY BlobFacts DEF TypeOK
<1>2. CASE stage[t] < 4
  <2>1. /\ pc' = [pc EXCEPT ![t] = "find"]
        /\ stage' = [stage EXCEPT ![t] = stage[t] + 1]
        /\ seen' = [seen EXCEPT ![t] = seen[t] \cup {Order[stage[t]]}]
    BY <1>2 DEF Advance, Goto, TypeOK
  <2>2. stage[t] + 1 \in 1..4
    BY <1>1, <1>2
  <2> QED BY <1>1, <2>1, <2>2 DEF TypeOK
<1>3. CASE ~(stage[t] < 4)
  BY <1>1, <1>3 DEF TypeOK, Advance, Goto
<1> QED BY <1>2, <1>3

\* So does the end of a request, and of an attempt to get an output.
LEMMA FailsType ==
  ASSUME TypeOK, NEW t \in Thread, Finish(t) \/ Fails(t)
  PROVE  /\ pc' \in [Thread -> {"idle", "install", "meta", "undo", "commit", "find", "upload",
                                "update", "lookup", "download", "verify", "served"}]
         /\ mode' \in [Thread -> {"put", "get", "refill"}]
         /\ out' \in [Thread -> Output \cup {Nil}]
         /\ data' \in [Thread -> Output \cup {Nil, Bad}]
         /\ stage' \in [Thread -> 1..4]
         /\ again' \in [Thread -> BOOLEAN]
         /\ seen' \in [Thread -> SUBSET Kind]
<1>1. CASE Finish(t)
  BY <1>1 DEF Finish, Goto, TypeOK
<1>2. CASE Fails(t) /\ mode[t] = "refill"
  BY <1>2 DEF Fails, Goto, TypeOK
<1>3. Fails(t) /\ mode[t] # "refill" => Finish(t)
  BY DEF Fails
<1> QED BY <1>1, <1>2, <1>3

\* The metadata that a file may get is an output, or unreadable.
LEMMA WriteMetaFrom ==
  ASSUME RemoteInv, NEW t \in Thread, WriteMeta(t) \/ WriteMetaFails(t)
  PROVE  \E o \in Output \cup {Nil} :
           /\ o # Nil => o \in stored[arg[t]]
           /\ meta' = [meta EXCEPT ![MachineOf[t]][arg[t]] = o]
<1> USE RemoteAssumption DEF RemoteInv
<1>0. MachineOf[t] \in Machine /\ arg[t] \in Action /\ pc[t] = "meta"
  BY DEF TypeOK, WriteMeta, WriteMetaFails
<1>1. out[t] \in stored[arg[t]] /\ stored[arg[t]] \subseteq Output
  BY <1>0 DEF Provenance, RequestsFrom, Installing, TypeOK
<1>2. \A u \in Rivals(t) : out[u] \in stored[arg[t]]
  BY DEF Rivals, Provenance, RequestsFrom, Installing
<1>3. meta[MachineOf[t]][arg[t]] # Nil => meta[MachineOf[t]][arg[t]] \in stored[arg[t]]
  BY <1>0 DEF Provenance, FilesFrom
<1>4. CASE WriteMeta(t)
  <2>1. PICK o \in {out[t]} \cup {out[u] : u \in Rivals(t)}
                    \cup (IF Rivals(t) = {} THEN {} ELSE {Nil}) :
          meta' = [meta EXCEPT ![MachineOf[t]][arg[t]] = o]
    BY <1>4 DEF WriteMeta
  <2>2. o = Nil \/ o \in stored[arg[t]]
    BY <1>1, <1>2, <2>1
  <2> QED BY <1>1, <2>1, <2>2
<1>5. CASE WriteMetaFails(t)
  <2>1. PICK o \in {meta[MachineOf[t]][arg[t]], out[t], Nil} :
          meta' = [meta EXCEPT ![MachineOf[t]][arg[t]] = o]
    BY <1>5 DEF WriteMetaFails
  <2>2. o = Nil \/ o \in stored[arg[t]]
    BY <1>1, <1>3, <2>1
  <2> QED BY <1>1, <2>1, <2>2
<1> QED BY <1>4, <1>5

\* Every step of Install keeps the variables within their types.
LEMMA InstallType ==
  ASSUME RemoteInv, NEW t \in Thread, InstallStep(t) PROVE TypeOK'
<1> USE RemoteAssumption DEF RemoteInv
<1>0. MachineOf[t] \in Machine /\ arg[t] \in Action
  BY DEF TypeOK
<1>1. CASE RenameBody(t)
  <2>1. data[t] \in Output
    BY <1>1 DEF RenameBody, Provenance, RequestsFrom, Installing, TypeOK
  <2> QED BY <1>0, <1>1, <2>1 DEF RenameBody, Goto, TypeOK, remote
<1>2. CASE RenameFails(t)
  BY <1>2, FailsType DEF RenameFails, TypeOK, remote, local
<1>3. CASE WriteMeta(t) \/ WriteMetaFails(t)
  <2>1. PICK o \in Output \cup {Nil} : meta' = [meta EXCEPT ![MachineOf[t]][arg[t]] = o]
    BY <1>3, WriteMetaFrom
  <2> QED BY <1>0, <1>3, <2>1 DEF WriteMeta, WriteMetaFails, Goto, TypeOK, remote
<1>4. CASE Undo(t)
  <2>1. file' \in [Machine -> [Action -> Output \cup {Nil}]]
    BY <1>0, <1>4 DEF Undo, TypeOK
  <2> QED BY <1>4, <2>1, FailsType DEF Undo, TypeOK, remote
<1>5. CASE Commit(t)
  <2>0. out[t] \in Output /\ file[MachineOf[t]][arg[t]] \in Output \cup {Nil}
    BY <1>0, <1>5 DEF Commit, Provenance, RequestsFrom, Installing, TypeOK
  <2>1. idx' \in [Machine -> [Action -> Output \cup {Nil, Listed}]]
    BY <1>0, <1>5, <2>0 DEF Commit, TypeOK
  <2>2. gone' \in [Machine -> [Action -> BOOLEAN]]
    BY <1>0, <1>5 DEF Commit, TypeOK
  <2>3. again' \in [Thread -> BOOLEAN]
    BY <1>5, Zenon DEF Commit, BeginRound, TypeOK
  <2>4. /\ pc' \in [Thread -> {"idle", "install", "meta", "undo", "commit", "find", "upload",
                               "update", "lookup", "download", "verify", "served"}]
        /\ stage' \in [Thread -> 1..4]
        /\ seen' \in [Thread -> SUBSET Kind]
    <3>1. CASE mode[t] = "put"
      <4>1. /\ pc' = [pc EXCEPT ![t] = "find"]
            /\ stage' = [stage EXCEPT ![t] = 1]
            /\ seen' = [seen EXCEPT ![t] = {}]
        BY <1>5, <3>1 DEF Commit, BeginRound, Goto
      <4> QED BY <4>1 DEF TypeOK
    <3>2. CASE mode[t] # "put"
      BY <1>5, <3>2 DEF Commit, Goto, TypeOK
    <3> QED BY <3>1, <3>2
  <2>5. data' \in [Thread -> Output \cup {Nil, Bad}]
    BY <1>5, <2>0 DEF Commit, TypeOK
  <2>6. UNCHANGED <<remote, file, meta, arg, mode, out, stored>>
    BY <1>5 DEF Commit
  <2> QED BY <2>1, <2>2, <2>3, <2>4, <2>5, <2>6 DEF TypeOK, remote
<1> QED BY <1>1, <1>2, <1>3, <1>4, <1>5 DEF InstallStep

\* Every step keeps the variables within their types.
LEMMA TypeStep == ASSUME RemoteInv, [Next]_vars PROVE TypeOK'
<1> USE RemoteAssumption DEF RemoteInv
<1>1. ASSUME NEW t \in Thread, Step(t) PROVE TypeOK'
  <2>0. out[t] \in Output \/ pc[t] \notin Populating \cup Fetching
    BY DEF Provenance, RequestsFrom, TypeOK
  <2>1. CASE Find(t)
    <3>1. CASE Current(t) \in cas
      BY <2>1, <3>1, AdvanceType DEF Find, TypeOK, remote, local
    <3>2. CASE Current(t) \notin cas
      BY <2>1, <3>2 DEF Find, Goto, TypeOK, remote, local
    <3> QED BY <3>1, <3>2
  <2>2. CASE Upload(t)
    <3>1. Current(t) \in AllBlobs
      BY <2>0, <2>2, BlobFacts DEF Upload, Current, TypeOK, Populating
    <3> QED BY <2>2, <3>1, AdvanceType DEF Upload, TypeOK, local
  <2>3. CASE Update(t)
    BY <2>3, FailsType DEF Update, TypeOK, local
  <2>4. CASE UploadAgain(t)
    BY <2>4 DEF UploadAgain, BeginRound, Goto, TypeOK, remote, local
  <2>5. CASE GiveUp(t) \/ LookupMiss(t) \/ DownloadFails(t)
    BY <2>5, FailsType DEF GiveUp, LookupMiss, DownloadFails, TypeOK, remote, local
  <2>6. CASE LookupHit(t)
    BY <2>6 DEF LookupHit, Goto, TypeOK, remote, local
  <2>7. CASE Download(t)
    BY <2>7 DEF Download, Goto, TypeOK, remote, local
  <2>8. CASE Verify(t)
    BY <2>8 DEF Verify, Goto, TypeOK, remote, local
  <2> QED BY <1>1, <2>1, <2>2, <2>3, <2>4, <2>5, <2>6, <2>7, <2>8, InstallType DEF Step
<1>2. ASSUME NEW t \in Thread, NEW a \in Action, Get(t, a) PROVE TypeOK'
  <2>1. MachineOf[t] \in Machine
    OBVIOUS
  <2>2. /\ meta[MachineOf[t]][a] \in Output \cup {Nil}
        /\ file[MachineOf[t]][a] \in Output \cup {Nil}
        /\ MetaOf(MachineOf[t], a) \in Output \cup {Nil}
    BY <2>1 DEF TypeOK, MetaOf, Indexed
  <2>3. idx' \in [Machine -> [Action -> Output \cup {Nil, Listed}]]
    BY <1>2, <2>1, <2>2 DEF Get, TypeOK
  <2>4. gone' \in [Machine -> [Action -> BOOLEAN]]
    BY <1>2, <2>1, Zenon DEF Get, TypeOK
  <2>5. /\ pc' \in [Thread -> {"idle", "install", "meta", "undo", "commit", "find", "upload",
                               "update", "lookup", "download", "verify", "served"}]
        /\ mode' \in [Thread -> {"put", "get", "refill"}]
    BY <1>2 DEF Get, Goto, TypeOK
  <2> QED BY <1>2, <2>2, <2>3, <2>4, <2>5 DEF Get, TypeOK, remote
<1>3. ASSUME NEW t \in Thread, NEW a \in Action, NEW o \in Output, Put(t, a, o) PROVE TypeOK'
  BY <1>3 DEF Put, Goto, TypeOK, remote, local
<1>4. ASSUME NEW m \in Machine, NEW a \in Action, Evict(m, a) PROVE TypeOK'
  BY <1>4 DEF Evict, TypeOK, remote, call
<1>5. CASE CollectBlob
  BY <1>5 DEF CollectBlob, TypeOK, local, call
<1>6. CASE UNCHANGED vars
  BY <1>6 DEF vars, remote, local, call, TypeOK
<1>7. ASSUME NEW m \in Machine, Restart(m) PROVE TypeOK'
  <2>1. again' \in [Thread -> BOOLEAN]
    BY <1>7, Zenon DEF Restart, TypeOK
  <2>2. gone' \in [Machine -> [Action -> BOOLEAN]]
    BY <1>7 DEF Restart, TypeOK
  <2>3. idx' \in [Machine -> [Action -> Output \cup {Nil, Listed}]]
    BY <1>7 DEF Restart, TypeOK
  <2>4. /\ pc' \in [Thread -> {"idle", "install", "meta", "undo", "commit", "find", "upload",
                               "update", "lookup", "download", "verify", "served"}]
        /\ mode' \in [Thread -> {"put", "get", "refill"}]
        /\ stage' \in [Thread -> 1..4]
    BY <1>7 DEF Restart, TypeOK
  <2>5. /\ out' \in [Thread -> Output \cup {Nil}]
        /\ data' \in [Thread -> Output \cup {Nil, Bad}]
        /\ seen' \in [Thread -> SUBSET Kind]
    BY <1>7 DEF Restart, TypeOK
  <2>6. UNCHANGED <<remote, file, meta, arg, stored>>
    BY <1>7 DEF Restart
  <2> QED BY <2>1, <2>2, <2>3, <2>4, <2>5, <2>6 DEF TypeOK, remote
<1> QED BY <1>1, <1>2, <1>3, <1>4, <1>5, <1>6, <1>7 DEF Next

\* Install does not reach the remote.
LEMMA InstallLeaves ==
  ASSUME NEW t \in Thread, InstallStep(t) PROVE UNCHANGED <<cas, ac, dropped, stored>>
BY DEF InstallStep, RenameBody, RenameFails, WriteMeta, WriteMetaFails, Undo, Commit, remote

\* What is stored stays stored.
LEMMA StoredGrows ==
  ASSUME RemoteInv, [Next]_vars PROVE \A a \in Action : stored[a] \subseteq stored'[a]
<1>1. CASE UNCHANGED stored
  BY <1>1
<1>2. ASSUME NEW t \in Thread, NEW a \in Action, NEW o \in Output, Put(t, a, o)
      PROVE \A b \in Action : stored[b] \subseteq stored'[b]
  BY <1>2 DEF Put, RemoteInv, TypeOK
<1>3. UNCHANGED stored \/ \E t \in Thread, a \in Action, o \in Output : Put(t, a, o)
  BY InstallLeaves
  DEF Next, vars, Step, Find, Upload, Update, UploadAgain, GiveUp, LookupHit, LookupMiss, Download,
      Verify, DownloadFails, Get, Evict, CollectBlob, Restart
<1> QED BY <1>1, <1>2, <1>3

\* A request that ends, or goes on to the action cache, has no output any more.
LEMMA FailsFrom ==
  ASSUME RemoteInv, TypeOK', NEW t \in Thread, Finish(t) \/ Fails(t), UNCHANGED <<arg, stored>>
  PROVE  RequestsFrom'
<1>1. pc'[t] \in {"idle", "lookup"}
  BY DEF Finish, Fails, Goto, RemoteInv, TypeOK
<1>2. ASSUME NEW u \in Thread, u # t
      PROVE  pc'[u] = pc[u] /\ out'[u] = out[u] /\ data'[u] = data[u]
  BY <1>2 DEF Finish, Fails, Goto, RemoteInv, TypeOK
<1> QED BY <1>1, <1>2 DEF RequestsFrom, RemoteInv, Provenance, Populating, Installing, Fetching

\* Every step of Install keeps the provenance of outputs.
LEMMA InstallFrom ==
  ASSUME RemoteInv, NEW t \in Thread, InstallStep(t) PROVE Provenance'
<1> USE RemoteAssumption DEF RemoteInv
<1>0. TypeOK' /\ MachineOf[t] \in Machine /\ arg[t] \in Action
  BY InstallType DEF TypeOK
<1>1. CASE RenameBody(t)
  <2>1. data[t] \in stored[arg[t]]
    BY <1>1 DEF RenameBody, Provenance, RequestsFrom, Installing
  <2>2. FilesFrom'
    BY <1>0, <1>1, <2>1 DEF RenameBody, TypeOK, remote, Provenance, FilesFrom
  <2>3. RequestsFrom'
    BY <1>1 DEF RenameBody, Goto, TypeOK, Provenance, RequestsFrom, Populating, Installing, Fetching
  <2> QED BY <2>2, <2>3 DEF Provenance
<1>2. CASE RenameFails(t)
  BY <1>0, <1>2, FailsFrom DEF RenameFails, remote, local, Provenance, FilesFrom
<1>3. CASE WriteMeta(t) \/ WriteMetaFails(t)
  <2>1. PICK o \in Output \cup {Nil} :
          /\ o # Nil => o \in stored[arg[t]]
          /\ meta' = [meta EXCEPT ![MachineOf[t]][arg[t]] = o]
    BY <1>3, WriteMetaFrom
  <2>2. FilesFrom'
    BY <1>0, <1>3, <2>1 DEF WriteMeta, WriteMetaFails, TypeOK, remote, Provenance, FilesFrom
  <2>3. RequestsFrom'
    BY <1>3 DEF WriteMeta, WriteMetaFails, Goto, TypeOK, Provenance, RequestsFrom,
                Populating, Installing, Fetching
  <2> QED BY <2>2, <2>3 DEF Provenance
<1>4. CASE Undo(t)
  <2>1. FilesFrom'
    BY <1>0, <1>4 DEF Undo, TypeOK, remote, Provenance, FilesFrom
  <2> QED BY <1>0, <1>4, <2>1, FailsFrom DEF Undo, Provenance
<1>5. CASE Commit(t)
  <2>1. out[t] \in stored[arg[t]]
    BY <1>5 DEF Commit, Provenance, RequestsFrom, Installing
  <2>2. FilesFrom'
    BY <1>0, <1>5, <2>1 DEF Commit, TypeOK, remote, Provenance, FilesFrom
  <2>3. /\ pc'[t] \in {"find", "served"}
        /\ pc'[t] = "served" => data'[t] = file[MachineOf[t]][arg[t]]
        /\ \A u \in Thread \ {t} : pc'[u] = pc[u] /\ data'[u] = data[u]
    BY <1>5 DEF Commit, BeginRound, Goto, TypeOK
  <2>4. file[MachineOf[t]][arg[t]] # Nil => file[MachineOf[t]][arg[t]] \in stored[arg[t]]
    BY <1>0 DEF Provenance, FilesFrom
  <2>5. UNCHANGED <<arg, out, stored>>
    BY <1>5 DEF Commit
  <2>6. RequestsFrom'
    BY <2>1, <2>3, <2>4, <2>5 DEF Provenance, RequestsFrom, Populating, Installing, Fetching
  <2> QED BY <2>2, <2>6 DEF Provenance
<1> QED BY <1>1, <1>2, <1>3, <1>4, <1>5 DEF InstallStep

\* Every step keeps the provenance of outputs.
LEMMA ProvenanceStep == ASSUME RemoteInv, [Next]_vars PROVE Provenance'
<1> USE RemoteAssumption DEF RemoteInv
<1>0. TypeOK' /\ \A a \in Action : stored[a] \subseteq stored'[a]
  BY TypeStep, StoredGrows
<1>1. ASSUME NEW t \in Thread, Step(t) PROVE Provenance'
  <2> USE <1>0
  <2>1. CASE Find(t)
    BY <2>1 DEF Find, Advance, Goto, TypeOK, remote, local, Provenance, FilesFrom, RequestsFrom,
                Populating, Installing, Fetching
  <2>2. CASE Upload(t)
    BY <2>2 DEF Upload, Advance, Goto, TypeOK, local, Provenance, FilesFrom, RequestsFrom,
                Populating, Installing, Fetching
  <2>3. CASE Update(t)
    <3>1. out[t] \in stored[arg[t]]
      BY <2>3 DEF Update, Provenance, RequestsFrom, Populating
    <3>2. FilesFrom'
      BY <2>3, <3>1 DEF Update, TypeOK, local, Provenance, FilesFrom
    <3> QED BY <2>3, <3>2, FailsFrom DEF Update, Provenance
  <2>4. CASE UploadAgain(t)
    BY <2>4 DEF UploadAgain, BeginRound, Goto, TypeOK, remote, local, Provenance, FilesFrom,
                RequestsFrom, Populating, Installing, Fetching
  <2>5. CASE GiveUp(t) \/ LookupMiss(t) \/ DownloadFails(t)
    BY <2>5, FailsFrom DEF GiveUp, LookupMiss, DownloadFails, remote, local, Provenance, FilesFrom
  <2>6. CASE LookupHit(t)
    BY <2>6 DEF LookupHit, Goto, TypeOK, remote, local, Provenance, FilesFrom, RequestsFrom,
                Populating, Installing, Fetching
  <2>7. CASE Download(t)
    BY <2>7 DEF Download, Goto, TypeOK, remote, local, Provenance, FilesFrom, RequestsFrom,
                Populating, Installing, Fetching
  <2>8. CASE Verify(t)
    BY <2>8 DEF Verify, Verified, Goto, TypeOK, remote, local, Provenance, FilesFrom, RequestsFrom,
                Populating, Installing, Fetching
  <2> QED BY <1>1, <2>1, <2>2, <2>3, <2>4, <2>5, <2>6, <2>7, <2>8, InstallFrom DEF Step
<1>2. ASSUME NEW t \in Thread, NEW a \in Action, Get(t, a) PROVE Provenance'
  <2>1. MachineOf[t] \in Machine
    OBVIOUS
  <2>2. MetaOf(MachineOf[t], a) # Nil => MetaOf(MachineOf[t], a) \in stored[a]
    BY <2>1 DEF MetaOf, Indexed, Provenance, FilesFrom
  <2>3. FilesFrom'
    BY <1>2, <2>1 DEF Get, TypeOK, remote, Provenance, FilesFrom
  <2>4. /\ arg'[t] = a /\ out'[t] = MetaOf(MachineOf[t], a)
        /\ pc'[t] \in {"served", "download", "lookup"}
        /\ pc'[t] # "lookup" => out'[t] # Nil
        /\ data'[t] \in {file[MachineOf[t]][a], Nil}
    BY <1>2 DEF Get, Goto, Hit, TypeOK
  <2>5. ASSUME NEW u \in Thread, u # t
        PROVE  pc'[u] = pc[u] /\ arg'[u] = arg[u] /\ out'[u] = out[u] /\ data'[u] = data[u]
    BY <1>2, <2>5 DEF Get, Goto, TypeOK
  <2>6. file[MachineOf[t]][a] # Nil => file[MachineOf[t]][a] \in stored[a]
    BY <2>1 DEF Provenance, FilesFrom
  <2>7. UNCHANGED stored
    BY <1>2 DEF Get
  <2>8. RequestsFrom'
    BY <2>2, <2>4, <2>5, <2>6, <2>7
    DEF Provenance, RequestsFrom, Populating, Installing, Fetching
  <2> QED BY <2>3, <2>8 DEF Provenance
<1>3. ASSUME NEW t \in Thread, NEW a \in Action, NEW o \in Output, Put(t, a, o) PROVE Provenance'
  <2>1. o \in stored'[a]
    BY <1>3 DEF Put, TypeOK
  <2> QED BY <1>0, <1>3, <2>1 DEF Put, Goto, TypeOK, remote, local, Provenance, FilesFrom,
                                  RequestsFrom, Populating, Installing, Fetching
<1>4. ASSUME NEW m \in Machine, NEW a \in Action, Evict(m, a) PROVE Provenance'
  BY <1>0, <1>4 DEF Evict, TypeOK, remote, call, Provenance, FilesFrom, RequestsFrom
<1>5. CASE CollectBlob
  BY <1>0, <1>5 DEF CollectBlob, TypeOK, local, call, Provenance, FilesFrom, RequestsFrom
<1>6. CASE UNCHANGED vars
  BY <1>6 DEF vars, remote, local, call, Provenance, FilesFrom, RequestsFrom
<1>7. ASSUME NEW m \in Machine, Restart(m) PROVE Provenance'
  <2>1. FilesFrom'
    BY <1>7 DEF Restart, TypeOK, remote, Provenance, FilesFrom
  <2>2. RequestsFrom'
    BY <1>7 DEF Restart, Provenance, RequestsFrom, Populating, Installing, Fetching
  <2> QED BY <2>1, <2>2 DEF Provenance
<1> QED BY <1>1, <1>2, <1>3, <1>4, <1>5, <1>6, <1>7 DEF Next

\* Advance has dealt with exactly one more blob.
LEMMA AdvanceRound ==
  ASSUME RemoteInv, NEW t \in Thread, pc[t] \in {"find", "upload"}, Advance(t)
  PROVE  RoundInv'
<1>0. /\ stage[t] \in 1..4
      /\ seen[t] = {Order[i] : i \in 1..(stage[t] - 1)}
      /\ seen' = [seen EXCEPT ![t] = seen[t] \cup {Order[stage[t]]}]
  BY DEF RemoteInv, TypeOK, RoundInv, Advance
<1>1. 1..stage[t] = 1..(stage[t] - 1) \cup {stage[t]}
  BY <1>0
<1>2. {Order[i] : i \in 1..stage[t]} = {Order[i] : i \in 1..(stage[t] - 1)} \cup {Order[stage[t]]}
  BY <1>1, Zenon
<1>3. seen'[t] = {Order[i] : i \in 1..stage[t]}
  BY <1>0, <1>2 DEF RemoteInv, TypeOK
<1>4. ASSUME NEW u \in Thread, u # t PROVE pc'[u] = pc[u] /\ stage'[u] = stage[u] /\ seen'[u] = seen[u]
  BY <1>4 DEF Advance, Goto, RemoteInv, TypeOK
<1>5. CASE stage[t] < 4
  <2>1. pc'[t] = "find" /\ stage'[t] = stage[t] + 1
    BY <1>5 DEF Advance, Goto, RemoteInv, TypeOK
  <2>2. (stage[t] + 1) - 1 = stage[t]
    BY <1>0
  <2>3. seen'[t] = {Order[i] : i \in 1..(stage'[t] - 1)}
    BY <1>3, <2>1, <2>2
  <2> QED BY <1>4, <2>1, <2>3 DEF RoundInv, RemoteInv
<1>6. CASE ~(stage[t] < 4)
  <2>1. pc'[t] = "update" /\ stage[t] = 4
    BY <1>0, <1>6 DEF Advance, Goto, RemoteInv, TypeOK
  <2>2. seen'[t] = Kind
    BY <1>3, <2>1, BlobFacts
  <2> QED BY <1>4, <2>1, <2>2 DEF RoundInv, RemoteInv
<1> QED BY <1>5, <1>6

\* A round begins with no blob dealt with.
LEMMA BeginRoundInv ==
  ASSUME RemoteInv, NEW t \in Thread, NEW second, BeginRound(t, second) PROVE RoundInv'
<1>1. pc'[t] = "find" /\ stage'[t] = 1 /\ seen'[t] = {}
  BY DEF BeginRound, Goto, RemoteInv, TypeOK
<1>2. {Order[i] : i \in 1..(stage'[t] - 1)} = {}
  BY <1>1
<1>3. ASSUME NEW u \in Thread, u # t PROVE pc'[u] = pc[u] /\ stage'[u] = stage[u] /\ seen'[u] = seen[u]
  BY <1>3 DEF BeginRound, Goto, RemoteInv, TypeOK
<1> QED BY <1>1, <1>2, <1>3 DEF RoundInv, RemoteInv

\* Steps outside of remotePopulate leave the rounds alone.
LEMMA OtherRound ==
  ASSUME RemoteInv, NEW t \in Thread,
         pc'[t] \notin Populating,
         \A u \in Thread \ {t} : pc'[u] = pc[u] /\ stage'[u] = stage[u] /\ seen'[u] = seen[u]
  PROVE  RoundInv'
BY DEF RoundInv, RemoteInv, Populating

\* The end of a request leaves the rounds of the others alone.
LEMMA FailsRound ==
  ASSUME RemoteInv, NEW t \in Thread, Finish(t) \/ Fails(t) PROVE RoundInv'
<1>1. pc'[t] \notin Populating
  BY DEF Finish, Fails, Goto, RemoteInv, TypeOK, Populating
<1>2. \A u \in Thread \ {t} : pc'[u] = pc[u] /\ stage'[u] = stage[u] /\ seen'[u] = seen[u]
  BY DEF Finish, Fails, Goto, RemoteInv, TypeOK
<1> QED BY <1>1, <1>2, OtherRound

\* The steps of Install begin at most a round.
LEMMA InstallRound ==
  ASSUME RemoteInv, NEW t \in Thread, InstallStep(t) PROVE RoundInv'
<1>1. CASE RenameBody(t) \/ WriteMeta(t) \/ WriteMetaFails(t)
  BY <1>1, OtherRound DEF RenameBody, WriteMeta, WriteMetaFails, Goto, RemoteInv, TypeOK, Populating
<1>2. CASE RenameFails(t) \/ Undo(t)
  BY <1>2, FailsRound DEF RenameFails, Undo
<1>3. CASE Commit(t) /\ mode[t] = "put"
  BY <1>3, BeginRoundInv DEF Commit
<1>4. CASE Commit(t) /\ mode[t] # "put"
  BY <1>4, OtherRound DEF Commit, Goto, RemoteInv, TypeOK, Populating
<1> QED BY <1>1, <1>2, <1>3, <1>4 DEF InstallStep

\* Every step keeps the rounds of remotePopulate in order.
LEMMA RoundStep == ASSUME RemoteInv, [Next]_vars PROVE RoundInv'
<1>1. ASSUME NEW t \in Thread, Step(t) PROVE RoundInv'
  <2>1. CASE Find(t)
    <3>1. CASE Current(t) \in cas
      BY <2>1, <3>1, AdvanceRound DEF Find
    <3>2. CASE Current(t) \notin cas
      BY <2>1, <3>2 DEF Find, Goto, RemoteInv, TypeOK, RoundInv
    <3> QED BY <3>1, <3>2
  <2>2. CASE Upload(t)
    BY <2>2, AdvanceRound DEF Upload
  <2>3. CASE UploadAgain(t)
    BY <2>3, BeginRoundInv DEF UploadAgain
  <2>4. CASE Update(t) \/ GiveUp(t) \/ LookupMiss(t) \/ DownloadFails(t)
    BY <2>4, FailsRound DEF Update, GiveUp, LookupMiss, DownloadFails
  <2>5. CASE LookupHit(t) \/ Download(t) \/ Verify(t)
    BY <2>5, OtherRound DEF LookupHit, Download, Verify, Goto, RemoteInv, TypeOK, Populating
  <2> QED BY <1>1, <2>1, <2>2, <2>3, <2>4, <2>5, InstallRound DEF Step
<1>2. ASSUME NEW t \in Thread, NEW a \in Action, Get(t, a) PROVE RoundInv'
  BY <1>2, OtherRound DEF Get, Goto, RemoteInv, TypeOK, Populating
<1>3. ASSUME NEW t \in Thread, NEW a \in Action, NEW o \in Output, Put(t, a, o) PROVE RoundInv'
  BY <1>3, OtherRound DEF Put, Goto, RemoteInv, TypeOK, Populating
<1>4. ASSUME NEW m \in Machine, NEW a \in Action, Evict(m, a) PROVE RoundInv'
  BY <1>4 DEF Evict, call, RoundInv, RemoteInv
<1>5. CASE CollectBlob
  BY <1>5 DEF CollectBlob, call, RoundInv, RemoteInv
<1>6. CASE UNCHANGED vars
  BY <1>6 DEF vars, call, RoundInv, RemoteInv
<1>7. ASSUME NEW m \in Machine, Restart(m) PROVE RoundInv'
  BY <1>7 DEF Restart, RoundInv, RemoteInv
<1> QED BY <1>1, <1>2, <1>3, <1>4, <1>5, <1>6, <1>7 DEF Next

\* The invariant holds in every state.
THEOREM RemoteInvariant == Spec => []RemoteInv
<1>1. RemoteInv /\ [Next]_vars => RemoteInv'
  BY TypeStep, ProvenanceStep, RoundStep DEF RemoteInv
<1> QED BY <1>1, RemoteInit, PTL DEF Spec

\* Files, blobs, results and requests stay within their types; in particular a round
\* of uploads never goes past its last blob.
THEOREM RemoteTypes == Spec => []TypeOK
<1>1. RemoteInv => TypeOK
  BY DEF RemoteInv
<1> QED BY <1>1, RemoteInvariant, PTL

\* A get answers only with an output that a put was given for its action, and the
\* body it points to holds such an output or is gone (HandleGet, downloadAndInstall,
\* Install), however Installs overlap or fail half way, processes are killed, calls
\* fail, bodies are evicted, blobs are collected or downloads damaged.
THEOREM GetsServeWhatWasStored == Spec => []ServedWasStored
<1>1. RemoteInv => ServedWasStored
  BY DEF RemoteInv, Provenance, RequestsFrom, ServedWasStored, Fetching
<1> QED BY <1>1, RemoteInvariant, PTL

\* remotePopulate sends an action result only after it found or put every blob that
\* the result refers to.
THEOREM ResultsFollowBlobs == Spec => []ResultAfterBlobs
<1>1. RemoteInv => ResultAfterBlobs
  BY DEF RemoteInv, RoundInv, ResultAfterBlobs
<1> QED BY <1>1, RemoteInvariant, PTL

\* The blobs that remotePopulate has dealt with are in CAS, if none was dropped.
SeenInCAS ==
  ~dropped => \A t \in Thread : pc[t] \in Populating =>
    \A kind \in seen[t] : Blob(kind, arg[t], out[t]) \in cas

BackedInv == SeenInCAS /\ ResultsBacked

\* As long as the server drops nothing CAS only grows.
LEMMA CASGrows == ASSUME [Next]_vars, ~dropped' PROVE cas \subseteq cas' /\ ~dropped
<1>1. ASSUME NEW t \in Thread, Step(t), ~Upload(t) PROVE UNCHANGED <<cas, dropped>>
  BY <1>1, InstallLeaves
  DEF remote, Step, Find, Update, UploadAgain, GiveUp, LookupHit, LookupMiss, Download, Verify,
      DownloadFails
<1>2. CASE \E t \in Thread, a \in Action : Get(t, a) \/ \E o \in Output : Put(t, a, o)
  BY <1>2 DEF Get, Put, remote
<1>3. ASSUME \/ \E m \in Machine, a \in Action : Evict(m, a)
             \/ \E m \in Machine : Restart(m)
             \/ UNCHANGED vars
      PROVE  UNCHANGED <<cas, dropped>>
  BY <1>3 DEF Evict, Restart, vars, remote
<1>4. ASSUME NEW t \in Thread, Upload(t) PROVE cas \subseteq cas' /\ UNCHANGED dropped
  BY <1>4 DEF Upload
<1>5. ~CollectBlob
  BY DEF CollectBlob
<1> QED BY <1>1, <1>2, <1>3, <1>4, <1>5 DEF Next

\* Advance is taken when the current blob is in CAS.
LEMMA AdvanceSeen ==
  ASSUME RemoteInv, SeenInCAS, ~dropped, cas \subseteq cas', NEW t \in Thread, pc[t] \in Populating,
         Advance(t), Current(t) \in cas', UNCHANGED <<arg, out>>
  PROVE  SeenInCAS'
<1>1. /\ seen'[t] = seen[t] \cup {Order[stage[t]]}
      /\ \A u \in Thread \ {t} : pc'[u] = pc[u] /\ seen'[u] = seen[u]
  BY DEF Advance, Goto, RemoteInv, TypeOK
<1>2. Blob(Order[stage[t]], arg[t], out[t]) \in cas'
  BY DEF Current
<1>3. ASSUME NEW kind \in seen'[t] PROVE Blob(kind, arg[t], out[t]) \in cas'
  BY <1>1, <1>2, <1>3 DEF SeenInCAS
<1>4. ASSUME NEW u \in Thread \ {t}, pc'[u] \in Populating, NEW kind \in seen'[u]
      PROVE  Blob(kind, arg[u], out[u]) \in cas'
  BY <1>1, <1>4 DEF SeenInCAS
<1> QED BY <1>3, <1>4 DEF SeenInCAS

\* A step after which t has dealt with nothing keeps SeenInCAS.
LEMMA OtherSeen ==
  ASSUME SeenInCAS, ~dropped, cas \subseteq cas', NEW t \in Thread,
         pc'[t] \notin Populating \/ seen'[t] = {},
         \A u \in Thread \ {t} :
           pc'[u] = pc[u] /\ seen'[u] = seen[u] /\ arg'[u] = arg[u] /\ out'[u] = out[u]
  PROVE  SeenInCAS'
<1> SUFFICES ASSUME NEW u \in Thread, pc'[u] \in Populating, NEW kind \in seen'[u]
             PROVE  Blob(kind, arg'[u], out'[u]) \in cas'
  BY DEF SeenInCAS
<1>1. u # t
  OBVIOUS
<1>2. Blob(kind, arg[u], out[u]) \in cas
  BY <1>1 DEF SeenInCAS
<1> QED BY <1>1, <1>2

\* The end of a request keeps SeenInCAS.
LEMMA FailsSeen ==
  ASSUME RemoteInv, SeenInCAS, ~dropped, cas \subseteq cas', NEW t \in Thread,
         Finish(t) \/ Fails(t), UNCHANGED arg
  PROVE  SeenInCAS'
<1>1. pc'[t] \notin Populating
  BY DEF Finish, Fails, Goto, RemoteInv, TypeOK, Populating
<1>2. \A u \in Thread \ {t} : pc'[u] = pc[u] /\ seen'[u] = seen[u] /\ out'[u] = out[u]
  BY DEF Finish, Fails, Goto, RemoteInv, TypeOK
<1> QED BY <1>1, <1>2, OtherSeen

\* Every step keeps SeenInCAS.
LEMMA SeenStep ==
  ASSUME RemoteInv, SeenInCAS, [Next]_vars PROVE SeenInCAS'
<1> SUFFICES ASSUME ~dropped' PROVE SeenInCAS'
  BY DEF SeenInCAS
<1>0. cas \subseteq cas' /\ ~dropped
  BY CASGrows
<1>1. ASSUME NEW t \in Thread, Step(t) PROVE SeenInCAS'
  <2>1. CASE Find(t)
    <3>1. CASE Current(t) \in cas
      BY <1>0, <2>1, <3>1, AdvanceSeen DEF Find, Populating
    <3>2. CASE Current(t) \notin cas
      BY <1>0, <2>1, <3>2 DEF Find, Goto, RemoteInv, TypeOK, SeenInCAS, Populating
    <3> QED BY <3>1, <3>2
  <2>2. CASE Upload(t)
    BY <1>0, <2>2, AdvanceSeen DEF Upload, Populating
  <2>3. CASE UploadAgain(t)
    BY <1>0, <2>3, OtherSeen DEF UploadAgain, BeginRound, Goto, RemoteInv, TypeOK
  <2>4. CASE Update(t) \/ GiveUp(t) \/ LookupMiss(t) \/ DownloadFails(t)
    BY <1>0, <2>4, FailsSeen DEF Update, GiveUp, LookupMiss, DownloadFails
  <2>5. CASE LookupHit(t) \/ Download(t) \/ Verify(t)
    BY <1>0, <2>5, OtherSeen DEF LookupHit, Download, Verify, Goto, RemoteInv, TypeOK, Populating
  <2>6. CASE RenameBody(t) \/ WriteMeta(t) \/ WriteMetaFails(t)
    BY <1>0, <2>6, OtherSeen
    DEF RenameBody, WriteMeta, WriteMetaFails, Goto, RemoteInv, TypeOK, Populating
  <2>7. CASE RenameFails(t) \/ Undo(t)
    BY <1>0, <2>7, FailsSeen DEF RenameFails, Undo
  <2>8. CASE Commit(t)
    BY <1>0, <2>8, OtherSeen DEF Commit, BeginRound, Goto, RemoteInv, TypeOK, Populating
  <2> QED BY <1>1, <2>1, <2>2, <2>3, <2>4, <2>5, <2>6, <2>7, <2>8 DEF Step, InstallStep
<1>2. ASSUME NEW t \in Thread, NEW a \in Action, Get(t, a) PROVE SeenInCAS'
  BY <1>0, <1>2, OtherSeen DEF Get, Goto, RemoteInv, TypeOK, Populating
<1>3. ASSUME NEW t \in Thread, NEW a \in Action, NEW o \in Output, Put(t, a, o) PROVE SeenInCAS'
  BY <1>0, <1>3, OtherSeen DEF Put, Goto, RemoteInv, TypeOK, Populating
<1>4. ASSUME NEW m \in Machine, NEW a \in Action, Evict(m, a) PROVE SeenInCAS'
  BY <1>0, <1>4 DEF Evict, call, SeenInCAS
<1>5. CASE CollectBlob
  BY <1>5 DEF CollectBlob
<1>6. CASE UNCHANGED vars
  BY <1>6 DEF vars, call, remote, SeenInCAS
<1>7. ASSUME NEW m \in Machine, Restart(m) PROVE SeenInCAS'
  <2>1. \A u \in Thread : pc'[u] \in Populating => pc'[u] = pc[u] /\ seen'[u] = seen[u] /\ out'[u] = out[u]
    BY <1>7 DEF Restart, Populating
  <2> QED BY <1>0, <1>7, <2>1 DEF Restart, SeenInCAS
<1> QED BY <1>1, <1>2, <1>3, <1>4, <1>5, <1>6, <1>7 DEF Next

\* Every step keeps action results backed.
LEMMA BackedStep ==
  ASSUME RemoteInv, BackedInv, [Next]_vars PROVE ResultsBacked'
<1> SUFFICES ASSUME ~dropped' PROVE ResultsBacked'
  BY DEF ResultsBacked
<1>0. cas \subseteq cas' /\ ~dropped
  BY CASGrows
<1>1. CASE UNCHANGED ac
  BY <1>0, <1>1 DEF BackedInv, ResultsBacked
<1>2. ASSUME NEW t \in Thread, Update(t) PROVE ResultsBacked'
  <2>1. \A kind \in Kind : Blob(kind, arg[t], out[t]) \in cas
    BY <1>0, <1>2 DEF Update, RemoteInv, RoundInv, BackedInv, SeenInCAS, Populating
  <2>2. Needed(arg[t], out[t]) \subseteq cas
    BY <2>1, Zenon DEF Needed
  <2>3. ac'[arg[t]] = out[t] /\ \A a \in Action \ {arg[t]} : ac'[a] = ac[a]
    BY <1>2 DEF Update, RemoteInv, TypeOK
  <2> QED BY <1>0, <2>2, <2>3 DEF BackedInv, ResultsBacked
<1>3. UNCHANGED ac \/ \E t \in Thread : Update(t)
  BY InstallLeaves
  DEF Next, vars, remote, Step, Find, Upload, UploadAgain, GiveUp, LookupHit, LookupMiss, Download,
      Verify, DownloadFails, Get, Put, Evict, CollectBlob, Restart
<1> QED BY <1>1, <1>2, <1>3

\* As long as the server drops nothing, whether or not it checks results, every
\* action result has all its blobs in CAS: remotePopulate uploads first and
\* publishes last.
THEOREM ResultsAreBacked == Spec => []ResultsBacked
<1>1. Init => BackedInv
  BY DEF Init, BackedInv, SeenInCAS, ResultsBacked, Populating
<1>2. RemoteInv /\ BackedInv /\ [Next]_vars => BackedInv'
  BY SeenStep, BackedStep DEF BackedInv
<1>3. BackedInv => ResultsBacked
  BY DEF BackedInv
<1> QED BY <1>1, <1>2, <1>3, RemoteInvariant, PTL DEF Spec

=============================================================================
