--------------------------- MODULE DataPathProofs ---------------------------
(***************************************************************************)
(* Proofs about the bytes on their way through DataPath, for any artifacts *)
(* and digests, any sizes of chunks, batches and messages, any number of   *)
(* requests at the same time and any set of faults.                        *)
(***************************************************************************)
EXTENDS ProtocolProofs

\* What may rightly be in CAS or on disk: what other machines have stored, and the
\* bodies of the puts that cmd/go has sent in full.
Origin ==
  Stored \cup {c \in Seq(Nat) : [cmd |-> "put", body |-> c] \in {asked[i] : i \in DOMAIN asked}}

\* The bytes that a put has in its hands are those of its body, unless something got
\* in the way; the digest is that of the body in any case.
PutOK(j, bs, lost, src, mb) ==
  /\ j.pc \in {"body", "install", "meta", "find", "open", "batch", "stream", "rejected", "failed", "uploaded"}
  /\ j.given \in src
  /\ j.pc \in {"body", "rejected"} => j.digest = NoDigest
  /\ j.pc \in {"install", "meta", "find", "open", "batch", "stream", "uploaded"} =>
       j.digest = Digest(j.given)
  /\ j.pc = "failed" => j.digest \in {NoDigest, Digest(j.given)}
  /\ j.pc = "install" => j.tmp = j.given
  /\ j.pc \notin {"body", "install"} /\ j.tmp # NoFile => j.pc = "failed" /\ j.stuck
  /\ j.pc = "batch" => j.digest.size <= mb /\ (~j.broke => j.data = j.given)
  /\ j.pc = "stream" => j.digest.size > mb /\ (~j.broke => j.data \o j.left = j.given)
  /\ j.pc = "failed" /\ ~j.broke => MsgMax < j.digest.size /\ j.digest.size <= mb
  /\ j.pc = "uploaded" /\ ~lost => [hash |-> j.given, data |-> j.given] \in bs

\* The hasher of a get has seen what is in the file; from the first byte on the digest
\* is one that CAS had; and what is installed has been compared with it.
GetOK(j, src, mb) ==
  /\ j.pc \in {"new", "download", "receive", "verify", "install", "meta", "served", "failed"}
  /\ j.pc = "new" => j.digest = NoDigest /\ j.tmp = NoFile
  /\ j.pc \in {"download", "receive", "verify", "install"} =>
       j.sum = j.tmp /\ j.digest.hash \in Seq(Nat)
  /\ j.pc \in {"meta", "served", "failed"} /\ j.tmp # NoFile => j.stuck
  /\ j.pc = "download" => j.tmp = <<>>
  /\ j.pc \in {"receive", "verify", "install"} => j.digest.hash \in src
  /\ j.pc = "receive" /\ ~j.broke => j.tmp \o j.left = j.digest.hash
  /\ j.pc = "verify" /\ ~j.broke => j.tmp = j.digest.hash
  /\ j.pc = "install" => j.digest = Digest(j.tmp)
  /\ j.pc \in {"meta", "served"} => j.digest = Digest(j.data)
  /\ j.pc = "failed" /\ ~j.broke =>
       \/ j.digest # Digest(j.digest.hash)
       \/ MsgMax < j.digest.size /\ j.digest.size <= mb

JobOK(j, bs, lost, src, mb) ==
  /\ j \in Job
  /\ j.cmd = "put" => PutOK(j, bs, lost, src, mb)
  /\ j.cmd = "get" => GetOK(j, src, mb)

\* CAS has everything under its own name, no hasher in the pool has seen anything, and
\* the body file is of a rightful origin.
SharedOK ==
  /\ maxBatch \in BatchSizes /\ dropped \in BOOLEAN
  /\ blobs \subseteq {[hash |-> c, data |-> c] : c \in Origin}
  /\ known \subseteq [hash : Seq(Nat), size : Nat]
  /\ pool \subseteq {<<>>}
  /\ body = NoFile \/ body \in Origin

JobsOK ==
  /\ job \in [Thread -> Job]
  /\ \A t \in Thread : JobOK(job[t], blobs, dropped, Origin, maxBatch)

TransferInv == SharedOK /\ JobsOK

-----------------------------------------------------------------------------
(* Sequences of bytes *)

\* No content is mistaken for the absence of a file.
LEMMA NoFileFacts ==
  /\ NoFile \in Seq(Int) /\ NoFile \notin Seq(Nat) /\ Len(NoFile) = 1
  /\ \A s \in Seq(Nat) : s \in Seq(Int)
<1>1. NoFile \in Seq(Int) /\ Len(NoFile) = 1 /\ NoFile[1] = -1
  BY DEF NoFile
<1>2. NoFile \notin Seq(Nat)
  <2> SUFFICES ASSUME NoFile \in Seq(Nat) PROVE FALSE
    OBVIOUS
  <2>1. NoFile[1] \in Nat
    BY <1>1, ElementOfSeq
  <2> QED BY <1>1, <2>1
<1>3. \A s \in Seq(Nat) : s \in Seq(Int)
  BY SeqMonotonic
<1> QED BY <1>1, <1>2, <1>3

\* What is rightly there is a sequence of bytes, and so is what is stored.
LEMMA OriginFacts == Stored \subseteq Origin /\ Origin \subseteq Seq(Nat)
BY TransferAssumption DEF Origin

\* A chunk and the rest make up the whole.
LEMMA ChunkFacts ==
  ASSUME NEW s \in Seq(Nat)
  PROVE  /\ ChunkOf(s) \in Seq(Nat) /\ RestOf(s) \in Seq(Nat)
         /\ ChunkOf(s) \o RestOf(s) = s
<1>1. Len(s) \in Nat /\ Chunk \in Nat \ {0} /\ \A i \in 1..Len(s) : s[i] \in Nat
  BY TransferAssumption, NilLen, ElementOfSeq
<1>2. CASE Len(s) < Chunk
  <2>1. ChunkOf(s) = s
    BY <1>2 DEF ChunkOf
  <2>2. RestOf(s) = <<>>
    BY <1>1, <1>2, SubSeqEmpty DEF RestOf
  <2> QED BY <2>1, <2>2, ConcatEmptySeq, EmptySeq
<1>3. CASE ~(Len(s) < Chunk)
  <2>1. ChunkOf(s) = SubSeq(s, 1, Chunk)
    BY <1>3 DEF ChunkOf
  <2>2. 1 \in 1..(Len(s) + 1) /\ Chunk \in 0..Len(s) /\ Len(s) \in Chunk..Len(s) /\ 1 - 1 = 0
    BY <1>1, <1>3
  <2>3. SubSeq(s, 1, Chunk) \o SubSeq(s, Chunk + 1, Len(s)) = SubSeq(s, 1, Len(s))
    BY <2>2, ConcatAdjacentSubSeq
  <2>4. SubSeq(s, 1, Len(s)) = s
    BY SubSeqFull
  <2>5. ChunkOf(s) \in Seq(Nat)
    <3>1. \A i \in 1..Chunk : s[i] \in Nat
      BY <1>1, <1>3
    <3> QED BY <1>1, <2>1, <3>1, SubSeqProperties
  <2>6. RestOf(s) \in Seq(Nat)
    <3>1. \A i \in (Chunk + 1)..Len(s) : s[i] \in Nat
      BY <1>1, <1>3
    <3>2. Chunk + 1 \in Int /\ Len(s) \in Int
      BY <1>1
    <3> QED BY <3>1, <3>2, SubSeqProperties DEF RestOf
  <2> QED BY <2>1, <2>3, <2>4, <2>5, <2>6 DEF RestOf
<1> QED BY <1>2, <1>3

\* A chunk moves from what is to come to what has come.
LEMMA ChunkMoves ==
  ASSUME NEW a \in Seq(Nat), NEW s \in Seq(Nat)
  PROVE  /\ a \o ChunkOf(s) \in Seq(Nat)
         /\ (a \o ChunkOf(s)) \o RestOf(s) = a \o s
<1>1. PICK p, r : p = ChunkOf(s) /\ r = RestOf(s)
  OBVIOUS
<1>2. p \in Seq(Nat) /\ r \in Seq(Nat) /\ p \o r = s
  BY <1>1, ChunkFacts
<1>3. a \o p \in Seq(Nat)
  BY <1>2, ConcatProperties
<1>4. (a \o p) \o r = a \o (p \o r)
  <2>1. p \in Seq(Nat)
    BY <1>2
  <2>2. r \in Seq(Nat)
    BY <1>2
  <2> QED BY <2>1, <2>2, SMTT(30)
<1> QED BY <1>1, <1>2, <1>3, <1>4

\* What a faulty server sends is a sequence of bytes too.
LEMMA DamagedFacts ==
  ASSUME NEW c \in Seq(Nat)
  PROVE  Damaged(c) \subseteq Seq(Nat)
<1>1. Len(c) \in Nat /\ (c # <<>> => 1 \in 1..Len(c)) /\ \A i \in 1..Len(c) : c[i] \in Nat
  BY NilLen, ElementOfSeq
<1>2. <<>> \in Seq(Nat) /\ <<0>> \in Seq(Nat)
  OBVIOUS
<1>3. c # <<>> => [c EXCEPT ![1] = 0] \in Seq(Nat)
  BY <1>1, ExceptSeq
<1>4. SubSeq(c, 1, Len(c) - 1) \in Seq(Nat)
  <2>1. (\A i \in 1..(Len(c) - 1) : c[i] \in Nat) /\ 1 \in Int /\ Len(c) - 1 \in Int
    BY <1>1
  <2> QED BY <2>1, SubSeqProperties
<1> QED BY <1>2, <1>3, <1>4 DEF Damaged

-----------------------------------------------------------------------------
(* What a step has to show *)

\* The jobs of the other threads stay right when CAS loses nothing.
LEMMA JobStep ==
  ASSUME TransferInv, NEW t \in Thread, NEW j, job' = [job EXCEPT ![t] = j],
         UNCHANGED <<asked, maxBatch, dropped>>,
         JobOK(j, blobs', dropped, Origin, maxBatch),
         \A c \in Seq(Nat) :
           [hash |-> c, data |-> c] \in blobs => [hash |-> c, data |-> c] \in blobs'
  PROVE  JobsOK'
<1>1. Origin' = Origin /\ maxBatch' = maxBatch /\ dropped' = dropped
  BY DEF Origin
<1>2. job \in [Thread -> Job] /\ j \in Job
  BY DEF TransferInv, JobsOK, JobOK
<1>3. job' \in [Thread -> Job]
  BY <1>2
<1>4. ASSUME NEW u \in Thread PROVE JobOK(job'[u], blobs', dropped, Origin, maxBatch)
  <2>1. CASE u = t
    BY <1>2, <2>1
  <2>2. CASE u # t
    <3>1. job'[u] = job[u] /\ JobOK(job[u], blobs, dropped, Origin, maxBatch)
      BY <1>2, <2>2 DEF TransferInv, JobsOK
    <3>2. job[u].given \in Seq(Nat)
      BY <1>2 DEF Job
    <3> QED BY <3>1, <3>2 DEF JobOK, PutOK
  <2> QED BY <2>1, <2>2
<1> QED BY <1>1, <1>3, <1>4 DEF JobsOK

\* A step of a thread that leaves the shared state alone.
LEMMA QuietStep ==
  ASSUME TransferInv, NEW t \in Thread, NEW j, job' = [job EXCEPT ![t] = j],
         UNCHANGED <<asked, remote, maxBatch, body>>, pool' \subseteq {<<>>},
         JobOK(j, blobs, dropped, Origin, maxBatch)
  PROVE  TransferInv'
<1>1. Origin' = Origin /\ UNCHANGED <<blobs, dropped, known, maxBatch, body>>
  BY DEF Origin, remote
<1>2. JobsOK'
  BY <1>1, JobStep
<1>3. SharedOK'
  BY <1>1 DEF TransferInv, SharedOK
<1> QED BY <1>2, <1>3 DEF TransferInv

\* The facts about one job that its steps start from.
LEMMA JobFacts ==
  ASSUME TransferInv, NEW t \in Thread
  PROVE  /\ job \in [Thread -> Job] /\ job[t] \in Job
         /\ job[t].cmd \in {"get", "put"}
         /\ job[t].cmd = "put" => PutOK(job[t], blobs, dropped, Origin, maxBatch)
         /\ job[t].cmd = "get" => GetOK(job[t], Origin, maxBatch)
         /\ Hashers = {<<>>} /\ Origin \subseteq Seq(Nat)
         /\ maxBatch \in Nat \ {0}
<1>1. job \in [Thread -> Job] /\ JobOK(job[t], blobs, dropped, Origin, maxBatch)
  BY DEF TransferInv, JobsOK
<1>2. job[t].cmd \in {"get", "put"}
  BY <1>1 DEF Job
<1>3. Hashers = {<<>>}
  BY DEF TransferInv, SharedOK, Hashers
<1> QED BY <1>1, <1>2, <1>3, OriginFacts, TransferAssumption DEF JobOK, TransferInv, SharedOK

\* A request of cmd/go's is taken up.
LEMMA PutStarts ==
  ASSUME TransferInv, NEW t \in Thread, NEW b \in Origin, StartPut(t, b), asked' = asked
  PROVE  TransferInv'
<1>1. job \in [Thread -> Job] /\ job[t] \in Job /\ b \in Seq(Nat)
  BY JobFacts
<1>0. job[t].digest = NoDigest /\ job[t].tmp = NoFile
  BY JobFacts DEF StartPut, At, PutOK, GetOK
<1>2. PICK step \in {"rejected", "body", "failed"}, file \in {NoFile, <<>>}, hit \in BOOLEAN :
        /\ job' = [job EXCEPT ![t] = [job[t] EXCEPT !.pc = step, !.cmd = "put", !.given = b,
                                                    !.tmp = file, !.broke = hit]]
        /\ file = NoFile \/ step = "body"
        /\ step = "failed" => hit
  <2>2. job[t].broke \in BOOLEAN
    BY <1>1 DEF Job
  <2>3. [job[t] EXCEPT !.pc = "rejected", !.cmd = "put", !.given = b]
          = [job[t] EXCEPT !.pc = "rejected", !.cmd = "put", !.given = b,
                           !.tmp = NoFile, !.broke = job[t].broke]
    BY <1>1, <1>0 DEF Job
  <2>4. [[job[t] EXCEPT !.pc = "body", !.cmd = "put", !.given = b] EXCEPT !.tmp = <<>>]
          = [job[t] EXCEPT !.pc = "body", !.cmd = "put", !.given = b,
                           !.tmp = <<>>, !.broke = job[t].broke]
    BY <1>1, <1>0 DEF Job
  <2>5. [[job[t] EXCEPT !.pc = "failed", !.cmd = "put", !.given = b] EXCEPT !.broke = TRUE]
          = [job[t] EXCEPT !.pc = "failed", !.cmd = "put", !.given = b,
                           !.tmp = NoFile, !.broke = TRUE]
    BY <1>1, <1>0 DEF Job
  <2>6. CASE job' = [job EXCEPT ![t] = [job[t] EXCEPT !.pc = "rejected", !.cmd = "put", !.given = b]]
    BY <2>2, <2>3, <2>6, Zenon
  <2>7. CASE job' = [job EXCEPT ![t] = [[job[t] EXCEPT !.pc = "body", !.cmd = "put", !.given = b]
                                          EXCEPT !.tmp = <<>>]]
    BY <2>2, <2>4, <2>7, Zenon
  <2>8. CASE job' = [job EXCEPT ![t] = [[job[t] EXCEPT !.pc = "failed", !.cmd = "put", !.given = b]
                                          EXCEPT !.broke = TRUE]]
    BY <2>5, <2>8, Zenon
  <2> QED BY <2>6, <2>7, <2>8, Zenon DEF StartPut
<1>3. PICK j : j = [job[t] EXCEPT !.pc = step, !.cmd = "put", !.given = b, !.tmp = file, !.broke = hit]
  OBVIOUS
<1>4. job' = [job EXCEPT ![t] = j]
  BY <1>2, <1>3
<1>5. /\ j.pc = step /\ j.cmd = "put" /\ j.given = b /\ j.digest = NoDigest
      /\ j.tmp = file /\ j.broke = hit
  BY <1>0, <1>1, <1>3 DEF Job
<1>6. j \in Job
  <2> HIDE DEF NoFile
  <2>0. NoFile \in Seq(Int) /\ <<>> \in Seq(Int)
    BY NoFileFacts
  <2>1. file \in Seq(Int)
    BY <1>2, <2>0
  <2> QED BY <1>1, <1>3, <2>1 DEF Job, Ends
<1>7. JobOK(j, blobs, dropped, Origin, maxBatch)
  BY <1>2, <1>5, <1>6 DEF JobOK, PutOK
<1>8. UNCHANGED <<remote, maxBatch, body>> /\ pool' \subseteq {<<>>}
  BY DEF StartPut, TransferInv, SharedOK
<1> QED BY <1>4, <1>7, <1>8, QuietStep

\* A get begins with a hasher that has seen nothing, because the pool has no other.
LEMMA GetStarts ==
  ASSUME TransferInv, NEW t \in Thread, NEW d, StartGet(t, d), asked' = asked
  PROVE  TransferInv'
<1>1. job \in [Thread -> Job] /\ job[t] \in Job /\ Hashers = {<<>>}
  BY JobFacts
<1>2. d \in [hash : Seq(Nat), size : Nat]
  BY DEF StartGet, TransferInv, SharedOK
<1>3. /\ job' = [job EXCEPT ![t].pc = "download", ![t].digest = d, ![t].tmp = <<>>, ![t].sum = <<>>]
      /\ pool' = pool \ {<<>>}
  BY <1>1 DEF StartGet
<1>4. PICK j : j = [job[t] EXCEPT !.pc = "download", !.digest = d, !.tmp = <<>>, !.sum = <<>>]
  OBVIOUS
<1>5. job' = [job EXCEPT ![t] = j]
  BY <1>1, <1>3, <1>4
<1>6. /\ j \in Job /\ j.pc = "download" /\ j.cmd = job[t].cmd
      /\ j.digest = d /\ j.tmp = <<>> /\ j.sum = <<>>
  <2>1. d \in [hash : Seq(Int), size : Nat]
    BY <1>2, NoFileFacts
  <2>2. <<>> \in Seq(Int) /\ <<>> \in Seq(Nat)
    OBVIOUS
  <2>3. /\ j.pc = "download" /\ j.cmd = job[t].cmd
        /\ j.digest = d /\ j.tmp = <<>> /\ j.sum = <<>>
    BY <1>1, <1>4 DEF Job
  <2>4. j \in Job
    BY <1>1, <1>4, <2>1, <2>2 DEF Job
  <2> QED BY <2>3, <2>4
<1>7. job[t].cmd = "get"
  BY JobFacts DEF StartGet, At, PutOK
<1>8. JobOK(j, blobs, dropped, Origin, maxBatch)
  BY <1>2, <1>6, <1>7 DEF JobOK, GetOK
<1>9. UNCHANGED <<remote, maxBatch, body>> /\ pool' \subseteq {<<>>}
  BY <1>3 DEF StartGet, TransferInv, SharedOK
<1> QED BY <1>5, <1>8, <1>9, QuietStep

\* A hasher goes back to the pool as if new.
LEMMA PoolClean ==
  ASSUME TransferInv, NEW t \in Thread, Release(t)
  PROVE  pool' \subseteq {<<>>}
BY DEF TransferInv, SharedOK, Release, Reset

\* A put or a get that has begun gives up, and has a cause for it.
LEMMA FailStep ==
  ASSUME TransferInv, NEW t \in Thread, NEW hit \in BOOLEAN, Fail(t, hit), asked' = asked,
         job[t].pc \in {"find", "open", "batch", "stream", "download", "receive", "verify"},
         \/ hit \/ job[t].broke \/ job[t].digest # Digest(job[t].digest.hash)
         \/ MsgMax < job[t].digest.size /\ job[t].digest.size <= maxBatch
  PROVE  TransferInv'
<1>1. job \in [Thread -> Job] /\ job[t] \in Job /\ job[t].cmd \in {"get", "put"}
  BY JobFacts
<1>2. PICK j : j = [Over(t, "failed") EXCEPT !.tmp = NoFile, !.broke = @ \/ hit]
  OBVIOUS
<1>3. job' = [job EXCEPT ![t] = j]
  BY <1>2 DEF Fail
<1>4. j = [job[t] EXCEPT !.pc = "failed", !.sum = <<>>, !.left = <<>>, !.data = <<>>,
                         !.tmp = NoFile, !.broke = job[t].broke \/ hit]
  BY <1>1, <1>2 DEF Over, Job
<1>5. /\ j.pc = "failed" /\ j.cmd = job[t].cmd /\ j.given = job[t].given
      /\ j.digest = job[t].digest /\ j.tmp = NoFile /\ (j.broke <=> job[t].broke \/ hit)
  BY <1>1, <1>4 DEF Job
<1>6. j \in Job
  <2>1. (job[t].broke \/ hit) \in BOOLEAN /\ NoFile \in Seq(Int) /\ <<>> \in Seq(Nat)
    BY NoFileFacts
  <2> HIDE DEF NoFile
  <2> QED BY <1>1, <1>4, <2>1 DEF Job, Ends
<1>7. JobOK(j, blobs, dropped, Origin, maxBatch)
  <2>1. CASE job[t].cmd = "put"
    <3>1. PutOK(job[t], blobs, dropped, Origin, maxBatch)
      BY <2>1, JobFacts
    <3>2. job[t].digest = Digest(job[t].given) /\ job[t].given \in Origin
      BY <3>1 DEF PutOK
    <3>3. job[t].digest = Digest(job[t].digest.hash)
      BY <3>2 DEF Digest
    <3> QED BY <1>5, <1>6, <2>1, <3>2, <3>3 DEF JobOK, PutOK
  <2>2. CASE job[t].cmd = "get"
    BY <1>5, <1>6, <2>2 DEF JobOK, GetOK
  <2> QED BY <1>1, <2>1, <2>2
<1>8. UNCHANGED <<remote, maxBatch, body>> /\ pool' \subseteq {<<>>}
  BY PoolClean DEF Fail
<1> QED BY <1>3, <1>7, <1>8, QuietStep

\* writeBodyToTemp leaves the body in the file and its digest with the put.
LEMMA BodyWritten ==
  ASSUME TransferInv, NEW t \in Thread, WriteBody(t), asked' = asked
  PROVE  TransferInv'
<1>1. /\ job \in [Thread -> Job] /\ job[t] \in Job /\ Hashers = {<<>>} /\ job[t].pc = "body"
      /\ job[t].given \in Seq(Nat)
  BY JobFacts DEF WriteBody, At, Job
<1>2. <<>> \o job[t].given = job[t].given
  BY <1>1, ConcatEmptySeq
<1>3. job' = [job EXCEPT ![t].pc = "install", ![t].tmp = job[t].given,
                         ![t].digest = Digest(job[t].given)]
  BY <1>1, <1>2 DEF WriteBody, Digest
<1>4. PICK j : j = [job[t] EXCEPT !.pc = "install", !.tmp = job[t].given,
                                  !.digest = Digest(job[t].given)]
  OBVIOUS
<1>5. job' = [job EXCEPT ![t] = j]
  BY <1>1, <1>3, <1>4
<1>6. /\ j.pc = "install" /\ j.cmd = job[t].cmd /\ j.given = job[t].given
      /\ j.tmp = job[t].given /\ j.digest = Digest(job[t].given)
  BY <1>1, <1>4 DEF Job
<1>7. j \in Job
  <2>1. job[t].given \in Seq(Int) /\ Len(job[t].given) \in Nat
    BY <1>1, NoFileFacts, NilLen
  <2>2. Digest(job[t].given) \in [hash : Seq(Int), size : Nat]
    BY <2>1 DEF Digest
  <2> QED BY <1>1, <1>4, <2>1, <2>2 DEF Job
<1>8. job[t].cmd = "put" /\ PutOK(job[t], blobs, dropped, Origin, maxBatch)
  BY <1>1, JobFacts DEF GetOK
<1>9. JobOK(j, blobs, dropped, Origin, maxBatch)
  BY <1>6, <1>7, <1>8 DEF JobOK, PutOK
<1>10. UNCHANGED <<remote, maxBatch, body>> /\ pool' \subseteq {<<>>}
  BY <1>1 DEF WriteBody, TransferInv, SharedOK, Reset
<1> QED BY <1>5, <1>9, <1>10, QuietStep

\* writeBodyToTemp fails: the file is gone and the hasher as if new.
LEMMA BodyNotWritten ==
  ASSUME TransferInv, NEW t \in Thread, WriteBodyFails(t), asked' = asked
  PROVE  TransferInv'
<1>1. job \in [Thread -> Job] /\ job[t] \in Job /\ Hashers = {<<>>} /\ job[t].pc = "body"
  BY JobFacts DEF WriteBodyFails, At
<1>2. PICK j : j = [job[t] EXCEPT !.pc = "failed", !.broke = TRUE, !.tmp = NoFile]
  OBVIOUS
<1>3. job' = [job EXCEPT ![t] = j]
  BY <1>1, <1>2 DEF WriteBodyFails
<1>4. /\ j.pc = "failed" /\ j.cmd = job[t].cmd /\ j.given = job[t].given
      /\ j.tmp = NoFile /\ j.digest = job[t].digest /\ j.broke
  BY <1>1, <1>2 DEF Job
<1>5. j \in Job
  BY <1>1, <1>2, NoFileFacts DEF Job, Ends
<1>6. job[t].cmd = "put" /\ PutOK(job[t], blobs, dropped, Origin, maxBatch)
  BY <1>1, JobFacts DEF GetOK
<1>7. JobOK(j, blobs, dropped, Origin, maxBatch)
  BY <1>1, <1>4, <1>5, <1>6 DEF JobOK, PutOK
<1>8. UNCHANGED <<remote, maxBatch, body>> /\ pool' \subseteq {<<>>}
  BY DEF WriteBodyFails, TransferInv, SharedOK, Reset
<1> QED BY <1>3, <1>7, <1>8, QuietStep

\* The rename puts the bytes of a put's body, or those that a get has verified, in
\* place.
LEMMA BodyRenamed ==
  ASSUME TransferInv, NEW t \in Thread, RenameBody(t), asked' = asked
  PROVE  TransferInv'
<1>1. /\ job \in [Thread -> Job] /\ job[t] \in Job /\ job[t].cmd \in {"get", "put"}
      /\ job[t].pc = "install" /\ body' = job[t].tmp
      /\ UNCHANGED <<remote, maxBatch, pool>>
  BY JobFacts DEF RenameBody, At
<1>2. job[t].tmp \in Origin
  <2>1. CASE job[t].cmd = "put"
    <3>1. PutOK(job[t], blobs, dropped, Origin, maxBatch)
      BY <2>1, JobFacts
    <3> QED BY <1>1, <3>1 DEF PutOK
  <2>2. CASE job[t].cmd = "get"
    <3>1. GetOK(job[t], Origin, maxBatch)
      BY <2>2, JobFacts
    <3>2. job[t].digest = Digest(job[t].tmp) /\ job[t].digest.hash \in Origin
      BY <1>1, <3>1 DEF GetOK
    <3>3. Digest(job[t].tmp).hash = job[t].tmp
      BY DEF Digest
    <3> QED BY <3>2, <3>3
  <2> QED BY <1>1, <2>1, <2>2
<1>3. job[t].tmp \in Seq(Nat)
  BY <1>2, OriginFacts
<1>4. PICK j : j = [job[t] EXCEPT !.pc = "meta", !.tmp = NoFile, !.data = job[t].tmp]
  OBVIOUS
<1>5. job' = [job EXCEPT ![t] = j]
  BY <1>1, <1>4 DEF RenameBody
<1>6. /\ j.pc = "meta" /\ j.cmd = job[t].cmd /\ j.given = job[t].given
      /\ j.digest = job[t].digest /\ j.tmp = NoFile /\ j.data = job[t].tmp
  BY <1>1, <1>4 DEF Job
<1>7. j \in Job
  <2>1. NoFile \in Seq(Int)
    BY NoFileFacts
  <2> HIDE DEF NoFile
  <2> QED BY <1>1, <1>3, <1>4, <2>1 DEF Job
<1>8. JobOK(j, blobs, dropped, Origin, maxBatch)
  <2>1. CASE job[t].cmd = "put"
    <3>1. PutOK(job[t], blobs, dropped, Origin, maxBatch)
      BY <2>1, JobFacts
    <3> QED BY <1>1, <1>6, <1>7, <2>1, <3>1 DEF JobOK, PutOK
  <2>2. CASE job[t].cmd = "get"
    <3>1. GetOK(job[t], Origin, maxBatch)
      BY <2>2, JobFacts
    <3> QED BY <1>1, <1>6, <1>7, <2>2, <3>1 DEF JobOK, GetOK
  <2> QED BY <1>1, <2>1, <2>2
<1>9. UNCHANGED <<blobs, dropped, known>> /\ Origin' = Origin
  BY <1>1 DEF remote, Origin
<1>10. JobsOK'
  BY <1>1, <1>5, <1>8, <1>9, JobStep
<1>11. SharedOK'
  BY <1>1, <1>2, <1>9 DEF TransferInv, SharedOK
<1> QED BY <1>10, <1>11 DEF TransferInv

\* With the metadata a put is answered, and a get served.
LEMMA MetaWritten ==
  ASSUME TransferInv, NEW t \in Thread, WriteMeta(t), asked' = asked
  PROVE  TransferInv'
<1>1. /\ job \in [Thread -> Job] /\ job[t] \in Job /\ job[t].cmd \in {"get", "put"}
      /\ job[t].pc = "meta" /\ UNCHANGED <<remote, maxBatch, body>>
  BY JobFacts DEF WriteMeta, At
<1>2. PICK j : j = IF job[t].cmd = "put" THEN [job[t] EXCEPT !.pc = "find"]
                   ELSE [Over(t, "served") EXCEPT !.data = job[t].data]
  OBVIOUS
<1>3. job' = [job EXCEPT ![t] = j]
  BY <1>2 DEF WriteMeta
<1>4. JobOK(j, blobs, dropped, Origin, maxBatch)
  <2>1. CASE job[t].cmd = "put"
    <3>1. j = [job[t] EXCEPT !.pc = "find"]
      BY <1>2, <2>1
    <3>2. /\ j.pc = "find" /\ j.cmd = "put" /\ j.given = job[t].given
          /\ j.digest = job[t].digest /\ j.tmp = job[t].tmp /\ j \in Job
      BY <1>1, <2>1, <3>1 DEF Job
    <3>3. PutOK(job[t], blobs, dropped, Origin, maxBatch)
      BY <2>1, JobFacts
    <3> QED BY <1>1, <3>2, <3>3 DEF JobOK, PutOK
  <2>2. CASE job[t].cmd = "get"
    <3>1. j = [job[t] EXCEPT !.pc = "served", !.sum = <<>>, !.left = <<>>]
      BY <1>1, <1>2, <2>2 DEF Over, Job
    <3>2. /\ j.pc = "served" /\ j.cmd = "get" /\ j.digest = job[t].digest
          /\ j.tmp = job[t].tmp /\ j.data = job[t].data /\ j.stuck = job[t].stuck
      BY <1>1, <2>2, <3>1 DEF Job
    <3>3. j \in Job
      <4>1. <<>> \in Seq(Nat)
        OBVIOUS
      <4> QED BY <1>1, <3>1, <4>1 DEF Job, Ends
    <3>4. GetOK(job[t], Origin, maxBatch)
      BY <2>2, JobFacts
    <3> QED BY <1>1, <3>2, <3>3, <3>4 DEF JobOK, GetOK
  <2> QED BY <1>1, <2>1, <2>2
<1>5. pool' \subseteq {<<>>}
  BY PoolClean DEF WriteMeta
<1> QED BY <1>1, <1>3, <1>4, <1>5, QuietStep

\* Install fails: with a temporary file that nobody removes, or with the metadata.
LEMMA NotInstalled ==
  ASSUME TransferInv, NEW t \in Thread, RenameFails(t) \/ WriteMetaFails(t), asked' = asked
  PROVE  TransferInv'
<1>1. /\ job \in [Thread -> Job] /\ job[t] \in Job /\ job[t].cmd \in {"get", "put"}
      /\ job[t].pc \in {"install", "meta"} /\ body' \in {body, NoFile}
      /\ UNCHANGED <<remote, maxBatch>>
  BY JobFacts DEF RenameFails, WriteMetaFails, At
<1>2. PICK j \in {[Over(t, "failed") EXCEPT !.broke = TRUE, !.stuck = TRUE],
                  [Over(t, "failed") EXCEPT !.broke = TRUE]} :
        /\ job' = [job EXCEPT ![t] = j]
        /\ \/ j = [Over(t, "failed") EXCEPT !.broke = TRUE, !.stuck = TRUE]
           \/ job[t].pc = "meta" /\ j = [Over(t, "failed") EXCEPT !.broke = TRUE]
  BY DEF RenameFails, WriteMetaFails, At
<1>3. /\ j.pc = "failed" /\ j.cmd = job[t].cmd /\ j.given = job[t].given
      /\ j.digest = job[t].digest /\ j.broke /\ j.tmp = job[t].tmp
      /\ j.stuck \/ (job[t].pc = "meta" /\ j.stuck = job[t].stuck)
  BY <1>1, <1>2 DEF Over, Job
<1>4. j \in Job
  <2>1. <<>> \in Seq(Nat)
    OBVIOUS
  <2>2. Over(t, "failed") \in Job
    BY <1>1, <2>1 DEF Over, Job, Ends
  <2>3. [Over(t, "failed") EXCEPT !.broke = TRUE, !.stuck = TRUE] \in Job
    BY <2>2 DEF Job
  <2>4. [Over(t, "failed") EXCEPT !.broke = TRUE] \in Job
    BY <2>2 DEF Job
  <2> QED BY <1>2, <2>3, <2>4
<1>5. JobOK(j, blobs, dropped, Origin, maxBatch)
  <2>1. CASE job[t].cmd = "put"
    <3>1. PutOK(job[t], blobs, dropped, Origin, maxBatch)
      BY <2>1, JobFacts
    <3> QED BY <1>1, <1>3, <1>4, <2>1, <3>1 DEF JobOK, PutOK
  <2>2. CASE job[t].cmd = "get"
    <3>1. GetOK(job[t], Origin, maxBatch)
      BY <2>2, JobFacts
    <3> QED BY <1>1, <1>3, <1>4, <2>2, <3>1 DEF JobOK, GetOK
  <2> QED BY <1>1, <2>1, <2>2
<1>6. UNCHANGED <<blobs, dropped, known>> /\ Origin' = Origin
  BY <1>1 DEF remote, Origin
<1>7. JobsOK'
  BY <1>1, <1>2, <1>5, <1>6, JobStep
<1>8. pool' \subseteq {<<>>}
  BY PoolClean DEF RenameFails, WriteMetaFails
<1>9. SharedOK'
  BY <1>1, <1>6, <1>8 DEF TransferInv, SharedOK
<1> QED BY <1>7, <1>9 DEF TransferInv

-----------------------------------------------------------------------------
(* Uploads *)

\* What CAS has under a name is what the name says.
LEMMA BlobFacts ==
  ASSUME TransferInv, NEW h, Has(h)
  PROVE  h \in Origin /\ Bytes(h) = h /\ [hash |-> h, data |-> h] \in blobs
<1>1. \A b \in blobs : \E c \in Origin : b = [hash |-> c, data |-> c]
  BY DEF TransferInv, SharedOK
<1>2. PICK b \in blobs : b.hash = h
  BY DEF Has
<1>3. h \in Origin /\ b = [hash |-> h, data |-> h]
  BY <1>1, <1>2
<1>4. PICK b1 : b1 = CHOOSE x \in blobs : x.hash = h
  OBVIOUS
<1>5. b1 \in blobs /\ b1.hash = h
  BY <1>2, <1>4
<1>6. b1.data = h
  BY <1>1, <1>5
<1> QED BY <1>2, <1>3, <1>4, <1>6 DEF Bytes

\* A put is over, its body being in CAS.
LEMMA UploadedJob ==
  ASSUME TransferInv, NEW t \in Thread, job[t].pc \in {"find", "batch", "stream"},
         NEW bs, [hash |-> job[t].given, data |-> job[t].given] \in bs
  PROVE  /\ JobOK(Over(t, "uploaded"), bs, dropped, Origin, maxBatch)
         /\ job[t].digest = Digest(job[t].given) /\ job[t].given \in Origin
         /\ job[t].digest \in [hash : Seq(Nat), size : Nat]
<1>1. job[t] \in Job /\ job[t].cmd = "put" /\ PutOK(job[t], blobs, dropped, Origin, maxBatch)
  BY JobFacts DEF GetOK
<1>2. job[t].digest = Digest(job[t].given) /\ job[t].given \in Origin
  BY <1>1 DEF PutOK
<1>3. job[t].digest \in [hash : Seq(Nat), size : Nat]
  <2>1. job[t].given \in Seq(Nat) /\ Len(job[t].given) \in Nat
    BY <1>2, OriginFacts, NilLen
  <2> QED BY <1>2, <2>1 DEF Digest
<1>4. PICK j : j = Over(t, "uploaded")
  OBVIOUS
<1>5. j = [job[t] EXCEPT !.pc = "uploaded", !.sum = <<>>, !.left = <<>>, !.data = <<>>]
  BY <1>4 DEF Over
<1>6. /\ j.pc = "uploaded" /\ j.cmd = "put" /\ j.given = job[t].given
      /\ j.digest = job[t].digest /\ j.tmp = job[t].tmp
  BY <1>1, <1>5 DEF Job
<1>7. j \in Job
  <2>1. <<>> \in Seq(Nat)
    OBVIOUS
  <2> QED BY <1>1, <1>5, <2>1 DEF Job, Ends
<1>8. JobOK(j, bs, dropped, Origin, maxBatch)
  BY <1>1, <1>2, <1>6, <1>7 DEF JobOK, PutOK
<1> QED BY <1>2, <1>3, <1>4, <1>8

\* FindMissingBlobs: what CAS has already need not be sent.
LEMMA Found ==
  ASSUME TransferInv, NEW t \in Thread, Find(t), asked' = asked
  PROVE  TransferInv'
<1>1. /\ job \in [Thread -> Job] /\ job[t] \in Job /\ job[t].pc = "find"
      /\ UNCHANGED <<blobs, dropped, maxBatch, body, pool>>
  BY JobFacts DEF Find, At
<1>2. job[t].cmd = "put" /\ PutOK(job[t], blobs, dropped, Origin, maxBatch)
  BY <1>1, JobFacts DEF GetOK
<1>3. job[t].digest = Digest(job[t].given) /\ job[t].digest.hash = job[t].given
  BY <1>1, <1>2 DEF PutOK, Digest
<1>4. Origin' = Origin
  BY DEF Origin
<1>5. CASE Has(job[t].digest.hash)
  <2>1. job' = [job EXCEPT ![t] = Over(t, "uploaded")] /\ known' = known \cup {job[t].digest}
    BY <1>5 DEF Find, Uploaded
  <2>2. [hash |-> job[t].given, data |-> job[t].given] \in blobs
    BY <1>3, <1>5, BlobFacts
  <2>3. /\ JobOK(Over(t, "uploaded"), blobs, dropped, Origin, maxBatch)
        /\ job[t].digest \in [hash : Seq(Nat), size : Nat]
    BY <1>1, <2>2, UploadedJob
  <2>4. JobsOK'
    BY <1>1, <2>1, <2>3, JobStep
  <2>5. SharedOK'
    BY <1>1, <1>4, <2>1, <2>3 DEF TransferInv, SharedOK
  <2> QED BY <2>4, <2>5 DEF TransferInv
<1>6. CASE ~Has(job[t].digest.hash)
  <2>1. job' = [job EXCEPT ![t].pc = "open"] /\ known' = known
    BY <1>6 DEF Find
  <2>2. PICK j : j = [job[t] EXCEPT !.pc = "open"]
    OBVIOUS
  <2>3. job' = [job EXCEPT ![t] = j]
    BY <1>1, <2>1, <2>2
  <2>4. /\ j \in Job /\ j.pc = "open" /\ j.cmd = "put" /\ j.given = job[t].given
        /\ j.digest = job[t].digest /\ j.tmp = job[t].tmp
    BY <1>1, <1>2, <2>2 DEF Job
  <2>5. JobOK(j, blobs, dropped, Origin, maxBatch)
    BY <1>1, <1>2, <2>4 DEF JobOK, PutOK
  <2>6. UNCHANGED <<remote, maxBatch, body>> /\ pool' \subseteq {<<>>}
    BY <1>1, <2>1 DEF remote, TransferInv, SharedOK
  <2> QED BY <2>3, <2>5, <2>6, QuietStep
<1> QED BY <1>5, <1>6

\* The body file is opened; if it is still that of this put, its bytes are those to send.
LEMMA Opened ==
  ASSUME TransferInv, NEW t \in Thread, OpenFile(t), asked' = asked
  PROVE  TransferInv'
<1>1. /\ job \in [Thread -> Job] /\ job[t] \in Job /\ job[t].pc = "open"
      /\ UNCHANGED <<remote, maxBatch, body, pool>> /\ body # NoFile
  BY JobFacts DEF OpenFile, At
<1>2. job[t].cmd = "put" /\ PutOK(job[t], blobs, dropped, Origin, maxBatch)
  BY <1>1, JobFacts DEF GetOK
<1>3. /\ job[t].digest = Digest(job[t].given) /\ job[t].digest.size = Len(job[t].given)
      /\ job[t].given \in Seq(Nat) /\ Len(job[t].given) \in Nat /\ job[t].given \in Origin
      /\ job[t].tmp = NoFile
  BY <1>1, <1>2, NilLen, OriginFacts DEF PutOK, Digest
<1>4. body \in Seq(Nat) /\ Len(body) \in Nat /\ \A i \in 1..Len(body) : body[i] \in Nat
  <2>1. body \in Seq(Nat)
    BY <1>1, OriginFacts DEF TransferInv, SharedOK
  <2> QED BY <2>1, NilLen, ElementOfSeq
<1>5. pool' \subseteq {<<>>}
  BY <1>1 DEF TransferInv, SharedOK
<1> DEFINE n == job[t].digest.size
<1>6. CASE /\ n <= maxBatch /\ Len(body) >= n
           /\ job' = [job EXCEPT ![t].pc = "batch", ![t].data = SubSeq(body, 1, n),
                                 ![t].broke = body # job[t].given]
  <2>1. SubSeq(body, 1, n) \in Seq(Nat)
    <3>1. (\A i \in 1..n : body[i] \in Nat) /\ 1 \in Int /\ n \in Int
      BY <1>3, <1>4, <1>6
    <3> QED BY <3>1, SubSeqProperties
  <2>2. body = job[t].given => SubSeq(body, 1, n) = job[t].given
    BY <1>3, SubSeqFull
  <2>3. PICK j : j = [job[t] EXCEPT !.pc = "batch", !.data = SubSeq(body, 1, n),
                                    !.broke = body # job[t].given]
    OBVIOUS
  <2>4. job' = [job EXCEPT ![t] = j]
    BY <1>1, <1>6, <2>3
  <2>5. /\ j.pc = "batch" /\ j.cmd = "put" /\ j.given = job[t].given
        /\ j.digest = job[t].digest /\ j.tmp = NoFile /\ j.data = SubSeq(body, 1, n)
        /\ (j.broke <=> body # job[t].given)
    BY <1>1, <1>2, <1>3, <2>3 DEF Job
  <2>6. j \in Job
    BY <1>1, <2>1, <2>3 DEF Job
  <2>7. JobOK(j, blobs, dropped, Origin, maxBatch)
    BY <1>3, <1>6, <2>2, <2>5, <2>6 DEF JobOK, PutOK
  <2> QED BY <1>1, <1>5, <2>4, <2>7, QuietStep
<1>7. CASE /\ n > maxBatch
           /\ job' = [job EXCEPT ![t].pc = "stream", ![t].left = body, ![t].data = <<>>,
                                 ![t].broke = body # job[t].given]
  <2>1. PICK j : j = [job[t] EXCEPT !.pc = "stream", !.left = body, !.data = <<>>,
                                    !.broke = body # job[t].given]
    OBVIOUS
  <2>2. job' = [job EXCEPT ![t] = j]
    BY <1>1, <1>7, <2>1
  <2>3. /\ j.pc = "stream" /\ j.cmd = "put" /\ j.given = job[t].given
        /\ j.digest = job[t].digest /\ j.tmp = NoFile /\ j.data = <<>> /\ j.left = body
        /\ (j.broke <=> body # job[t].given)
    BY <1>1, <1>2, <1>3, <2>1 DEF Job
  <2>4. j \in Job
    <3>1. <<>> \in Seq(Nat)
      OBVIOUS
    <3> QED BY <1>1, <1>4, <2>1, <3>1 DEF Job
  <2>5. <<>> \o body = body
    BY <1>4, ConcatEmptySeq
  <2>6. JobOK(j, blobs, dropped, Origin, maxBatch)
    BY <1>3, <1>7, <2>3, <2>4, <2>5 DEF JobOK, PutOK
  <2> QED BY <1>1, <1>5, <2>2, <2>6, QuietStep
<1> QED BY <1>6, <1>7 DEF OpenFile

\* A body file that cannot be opened is not that of this put any more.
LEMMA NotOpened ==
  ASSUME TransferInv, NEW t \in Thread, OpenFails(t), asked' = asked
  PROVE  TransferInv'
<1>1. /\ job[t] \in Job /\ job[t].pc = "open" /\ Fail(t, body # job[t].given)
      /\ body = NoFile \/ Len(body) < job[t].digest.size
  BY JobFacts DEF OpenFails, At
<1>2. job[t].cmd = "put" /\ PutOK(job[t], blobs, dropped, Origin, maxBatch)
  BY <1>1, JobFacts DEF GetOK
<1>3. /\ job[t].digest.size = Len(job[t].given) /\ Len(job[t].given) \in Nat
      /\ job[t].given \in Seq(Nat)
  BY <1>1, <1>2, NilLen, OriginFacts DEF PutOK, Digest
<1>4. body # job[t].given
  BY <1>1, <1>3, NoFileFacts
<1> QED BY <1>1, <1>4, FailStep

\* The server keeps what is sound, which is the body of the put; the reply may be lost.
LEMMA StoredAndReplied ==
  ASSUME TransferInv, NEW t \in Thread, job[t].pc \in {"batch", "stream"}, Sound(t),
         StoreAndReply(t), asked' = asked
  PROVE  TransferInv'
<1>1. job \in [Thread -> Job] /\ job[t] \in Job
  BY JobFacts
<1>2. job[t].cmd = "put" /\ PutOK(job[t], blobs, dropped, Origin, maxBatch)
  BY JobFacts DEF GetOK
<1>3. /\ job[t].given \in Origin /\ job[t].digest = Digest(job[t].given)
      /\ job[t].digest.hash = job[t].given
      /\ job[t].data = job[t].given
  BY <1>2 DEF PutOK, Digest, Sound
<1>4. /\ blobs' = {b \in blobs : b.hash # job[t].given}
                    \cup {[hash |-> job[t].given, data |-> job[t].given]}
      /\ UNCHANGED <<dropped, maxBatch, body, pool>>
  BY <1>3 DEF StoreAndReply, Keep
<1>5. \A c \in Seq(Nat) : [hash |-> c, data |-> c] \in blobs => [hash |-> c, data |-> c] \in blobs'
  BY <1>4
<1>6. Origin' = Origin
  BY DEF Origin
<1>7. blobs' \subseteq {[hash |-> c, data |-> c] : c \in Origin}
  BY <1>3, <1>4 DEF TransferInv, SharedOK
<1>8. CASE Uploaded(t)
  <2>1. job' = [job EXCEPT ![t] = Over(t, "uploaded")] /\ known' = known \cup {job[t].digest}
    BY <1>8 DEF Uploaded
  <2>2. /\ JobOK(Over(t, "uploaded"), blobs', dropped, Origin, maxBatch)
        /\ job[t].digest \in [hash : Seq(Nat), size : Nat]
    BY <1>4, UploadedJob
  <2>3. JobsOK'
    BY <1>4, <1>5, <2>1, <2>2, JobStep
  <2>4. SharedOK'
    BY <1>4, <1>6, <1>7, <2>1, <2>2 DEF TransferInv, SharedOK
  <2> QED BY <2>3, <2>4 DEF TransferInv
<1>9. CASE /\ job' = [job EXCEPT ![t] = [Over(t, "failed") EXCEPT !.broke = TRUE]]
           /\ known' = known
  <2>1. PICK j : j = [Over(t, "failed") EXCEPT !.broke = TRUE]
    OBVIOUS
  <2>2. /\ j.pc = "failed" /\ j.cmd = "put" /\ j.given = job[t].given
        /\ j.digest = job[t].digest /\ j.broke /\ j.tmp = job[t].tmp
    BY <1>1, <1>2, <2>1 DEF Over, Job
  <2>3. j \in Job
    <3>1. <<>> \in Seq(Nat)
      OBVIOUS
    <3>2. Over(t, "failed") \in Job
      BY <1>1, <3>1 DEF Over, Job, Ends
    <3> QED BY <2>1, <3>2 DEF Job
  <2>4. JobOK(j, blobs', dropped, Origin, maxBatch)
    BY <1>2, <1>3, <2>2, <2>3 DEF JobOK, PutOK
  <2>5. JobsOK'
    BY <1>4, <1>5, <1>9, <2>1, <2>4, JobStep
  <2>6. SharedOK'
    BY <1>4, <1>6, <1>7, <1>9 DEF TransferInv, SharedOK
  <2> QED BY <2>5, <2>6 DEF TransferInv
<1> QED BY <1>8, <1>9 DEF StoreAndReply

\* A chunk goes over; nothing is lost or repeated between the chunks.
LEMMA ChunkSent ==
  ASSUME TransferInv, NEW t \in Thread, SendChunk(t), asked' = asked
  PROVE  TransferInv'
<1>1. /\ job \in [Thread -> Job] /\ job[t] \in Job /\ job[t].pc = "stream"
      /\ UNCHANGED <<remote, maxBatch, body, pool>>
      /\ job[t].left \in Seq(Nat) /\ job[t].data \in Seq(Nat)
  BY JobFacts DEF SendChunk, At, Job
<1>2. job[t].cmd = "put" /\ PutOK(job[t], blobs, dropped, Origin, maxBatch)
  BY <1>1, JobFacts DEF GetOK
<1> DEFINE part == ChunkOf(job[t].left)
           rest == RestOf(job[t].left)
<1>3. part \in Seq(Nat) /\ rest \in Seq(Nat) /\ part \o rest = job[t].left
  BY <1>1, ChunkFacts
<1>4. /\ job[t].data \o part \in Seq(Nat)
      /\ (job[t].data \o part) \o rest = job[t].data \o job[t].left
  BY <1>1, ChunkMoves
<1>5. PICK j : j = [job[t] EXCEPT !.left = rest, !.data = job[t].data \o part]
  OBVIOUS
<1>6. job' = [job EXCEPT ![t] = j]
  BY <1>1, <1>5 DEF SendChunk
<1> HIDE DEF part, rest
<1>7. /\ j \in Job /\ j.pc = "stream" /\ j.cmd = "put" /\ j.given = job[t].given
      /\ j.digest = job[t].digest /\ j.tmp = job[t].tmp /\ j.broke = job[t].broke
      /\ j.data \o j.left = job[t].data \o job[t].left
  <2>1. j \in Job
    BY <1>1, <1>3, <1>4, <1>5 DEF Job
  <2>2. j.left = rest /\ j.data = job[t].data \o part
    BY <1>1, <1>5 DEF Job
  <2>3. /\ j.pc = job[t].pc /\ j.cmd = job[t].cmd /\ j.given = job[t].given
        /\ j.digest = job[t].digest /\ j.tmp = job[t].tmp /\ j.broke = job[t].broke
    BY <1>1, <1>5 DEF Job
  <2> QED BY <1>1, <1>2, <1>4, <2>1, <2>2, <2>3
<1>8. JobOK(j, blobs, dropped, Origin, maxBatch)
  BY <1>1, <1>2, <1>7 DEF JobOK, PutOK
<1>9. pool' \subseteq {<<>>}
  BY <1>1 DEF TransferInv, SharedOK
<1> QED BY <1>1, <1>6, <1>8, <1>9, QuietStep

\* A refusal, or a message that is too large, is not the fault of the upload.
LEMMA Refused ==
  ASSUME TransferInv, NEW t \in Thread, asked' = asked,
         \/ BatchRefused(t) \/ StreamRefused(t)
         \/ At(t, "batch") /\ ~Passes(Len(job[t].data)) /\ Fail(t, FALSE)
  PROVE  TransferInv'
<1>1. job[t] \in Job /\ job[t].pc \in {"batch", "stream"} /\ Fail(t, FALSE)
  BY JobFacts DEF BatchRefused, StreamRefused, At
<1>2. job[t].cmd = "put" /\ PutOK(job[t], blobs, dropped, Origin, maxBatch)
  BY <1>1, JobFacts DEF GetOK
<1>3. /\ job[t].given \in Seq(Nat) /\ Len(job[t].given) \in Nat
      /\ job[t].digest.hash = job[t].given /\ job[t].digest.size = Len(job[t].given)
      /\ maxBatch \in Nat \ {0} /\ MsgMax \in Nat
      /\ job[t].data \in Seq(Nat) /\ job[t].left \in Seq(Nat)
  BY <1>1, <1>2, NilLen, OriginFacts, TransferAssumption DEF PutOK, Digest, TransferInv, SharedOK, Job
<1>4. \/ job[t].broke
      \/ MsgMax < job[t].digest.size /\ job[t].digest.size <= maxBatch
  <2> SUFFICES ASSUME ~job[t].broke
               PROVE  MsgMax < job[t].digest.size /\ job[t].digest.size <= maxBatch
    OBVIOUS
  <2>1. CASE job[t].pc = "batch"
    <3>1. job[t].data = job[t].given /\ job[t].digest.size <= maxBatch
      BY <1>2, <2>1 DEF PutOK
    <3>2. ~Passes(Len(job[t].given))
      BY <1>3, <2>1, <3>1 DEF BatchRefused, StreamRefused, At, Sound
    <3> QED BY <1>3, <3>1, <3>2 DEF Passes
  <2>2. CASE job[t].pc = "stream"
    <3>1. job[t].data \o job[t].left = job[t].given /\ job[t].digest.size > maxBatch
      BY <1>2, <2>2 DEF PutOK
    <3>2. job[t].left = <<>> /\ (job[t].data = <<>> \/ ~Sound(t))
      BY <2>2 DEF BatchRefused, StreamRefused, At
    <3>3. job[t].data = job[t].given
      BY <1>3, <3>1, <3>2, ConcatEmptySeq
    <3>4. job[t].given # <<>>
      BY <1>3, <3>1, NilLen
    <3> QED BY <1>3, <3>2, <3>3, <3>4 DEF Sound
  <2> QED BY <1>1, <2>1, <2>2
<1>5. FALSE \in BOOLEAN
  OBVIOUS
<1> QED BY <1>1, <1>4, <1>5, FailStep

-----------------------------------------------------------------------------
(* Downloads *)

\* Bytes that reach the file reach the hasher too.
LEMMA WrittenJob ==
  ASSUME TransferInv, NEW t \in Thread, job[t].pc \in {"download", "receive"}, NEW d \in Seq(Nat)
  PROVE  /\ job[t].cmd = "get" /\ GetOK(job[t], Origin, maxBatch)
         /\ job[t].tmp \in Seq(Nat) /\ job[t].tmp \o d \in Seq(Nat)
         /\ Written(t, d) = [job[t] EXCEPT !.tmp = job[t].tmp \o d, !.sum = job[t].tmp \o d]
         /\ Written(t, d) \in Job
<1>1. job[t] \in Job /\ job[t].cmd = "get" /\ GetOK(job[t], Origin, maxBatch)
  BY JobFacts DEF PutOK
<1>2. job[t].sum = job[t].tmp /\ job[t].sum \in Seq(Nat)
  BY <1>1 DEF GetOK, Job
<1>3. job[t].tmp \o d \in Seq(Nat) /\ job[t].tmp \o d \in Seq(Int)
  BY <1>2, ConcatProperties, NoFileFacts
<1>4. Written(t, d) = [job[t] EXCEPT !.tmp = job[t].tmp \o d, !.sum = job[t].tmp \o d]
  BY <1>1, <1>2 DEF Written, Job
<1>5. PICK s : s = job[t].tmp \o d
  OBVIOUS
<1>6. [job[t] EXCEPT !.tmp = s, !.sum = s] \in Job
  BY <1>1, <1>3, <1>5 DEF Job
<1> QED BY <1>1, <1>2, <1>3, <1>4, <1>5, <1>6

\* What the server sends for a digest is right, or something is broken.
LEMMA SentBytes ==
  ASSUME TransferInv, NEW t \in Thread, Has(job[t].digest.hash),
         NEW d \in {Bytes(job[t].digest.hash)} \cup Damaged(Bytes(job[t].digest.hash))
  PROVE  /\ Bytes(job[t].digest.hash) = job[t].digest.hash
         /\ job[t].digest.hash \in Origin /\ d \in Seq(Nat)
<1>1. Bytes(job[t].digest.hash) = job[t].digest.hash /\ job[t].digest.hash \in Origin
  BY BlobFacts
<1>2. job[t].digest.hash \in Seq(Nat)
  BY <1>1, OriginFacts
<1> QED BY <1>1, <1>2, DamagedFacts

\* BatchReadBlobs.
LEMMA BatchWasRead ==
  ASSUME TransferInv, NEW t \in Thread, BatchRead(t), asked' = asked
  PROVE  TransferInv'
<1>1. /\ job \in [Thread -> Job] /\ job[t] \in Job /\ job[t].pc = "download"
      /\ Has(job[t].digest.hash) /\ UNCHANGED <<remote, maxBatch, body, pool>>
  BY JobFacts DEF BatchRead, At
<1> DEFINE c == Bytes(job[t].digest.hash)
<1>2. PICK d \in {c} \cup Damaged(c) :
        job' = [job EXCEPT ![t] = [Written(t, d) EXCEPT !.pc = "verify", !.broke = d # c]]
  BY DEF BatchRead
<1>3. c = job[t].digest.hash /\ c \in Origin /\ d \in Seq(Nat)
  BY <1>1, SentBytes
<1> HIDE DEF c
<1>4. /\ job[t].cmd = "get" /\ GetOK(job[t], Origin, maxBatch)
      /\ Written(t, d) = [job[t] EXCEPT !.tmp = job[t].tmp \o d, !.sum = job[t].tmp \o d]
      /\ Written(t, d) \in Job
  BY <1>1, <1>3, WrittenJob
<1>5. job[t].tmp \o d = d
  BY <1>1, <1>3, <1>4, ConcatEmptySeq DEF GetOK
<1>6. PICK j : j = [Written(t, d) EXCEPT !.pc = "verify", !.broke = d # c]
  OBVIOUS
<1>7. /\ j.pc = "verify" /\ j.cmd = "get" /\ j.digest = job[t].digest /\ j.tmp = d /\ j.sum = d
      /\ (j.broke <=> d # c)
  BY <1>1, <1>4, <1>5, <1>6 DEF Job
<1>8. j \in Job
  BY <1>4, <1>6 DEF Job
<1>9. JobOK(j, blobs, dropped, Origin, maxBatch)
  BY <1>1, <1>3, <1>4, <1>7, <1>8 DEF JobOK, GetOK
<1>10. pool' \subseteq {<<>>}
  BY <1>1 DEF TransferInv, SharedOK
<1> QED BY <1>1, <1>2, <1>6, <1>9, <1>10, QuietStep

\* A stream is opened.
LEMMA StreamOpened ==
  ASSUME TransferInv, NEW t \in Thread, OpenStream(t), asked' = asked
  PROVE  TransferInv'
<1>1. /\ job \in [Thread -> Job] /\ job[t] \in Job /\ job[t].pc = "download"
      /\ Has(job[t].digest.hash) /\ UNCHANGED <<remote, maxBatch, body, pool>>
  BY JobFacts DEF OpenStream, At
<1> DEFINE c == Bytes(job[t].digest.hash)
<1>2. PICK d \in {c} \cup Damaged(c) :
        job' = [job EXCEPT ![t].pc = "receive", ![t].left = d, ![t].broke = d # c]
  BY DEF OpenStream
<1>3. c = job[t].digest.hash /\ c \in Origin /\ d \in Seq(Nat)
  BY <1>1, SentBytes
<1> HIDE DEF c
<1>4. job[t].cmd = "get" /\ GetOK(job[t], Origin, maxBatch)
  BY <1>1, JobFacts DEF PutOK
<1>5. job[t].tmp = <<>> /\ <<>> \o d = d
  BY <1>1, <1>3, <1>4, ConcatEmptySeq DEF GetOK
<1>6. PICK j : j = [job[t] EXCEPT !.pc = "receive", !.left = d, !.broke = d # c]
  OBVIOUS
<1>7. job' = [job EXCEPT ![t] = j]
  BY <1>1, <1>2, <1>6
<1>8. /\ j.pc = "receive" /\ j.cmd = "get" /\ j.digest = job[t].digest /\ j.tmp = <<>>
      /\ j.sum = job[t].sum /\ j.left = d /\ (j.broke <=> d # c)
  BY <1>1, <1>4, <1>5, <1>6 DEF Job
<1>9. j \in Job
  BY <1>1, <1>3, <1>6 DEF Job
<1>10. JobOK(j, blobs, dropped, Origin, maxBatch)
  BY <1>1, <1>3, <1>4, <1>5, <1>8, <1>9 DEF JobOK, GetOK
<1>11. pool' \subseteq {<<>>}
  BY <1>1 DEF TransferInv, SharedOK
<1> QED BY <1>1, <1>7, <1>10, <1>11, QuietStep

\* A chunk arrives; nothing is lost or repeated between the chunks.
LEMMA ChunkReceived ==
  ASSUME TransferInv, NEW t \in Thread, ReceiveChunk(t), asked' = asked
  PROVE  TransferInv'
<1>1. /\ job \in [Thread -> Job] /\ job[t] \in Job /\ job[t].pc = "receive"
      /\ UNCHANGED <<remote, maxBatch, body, pool>> /\ job[t].left \in Seq(Nat)
  BY JobFacts DEF ReceiveChunk, At, Job
<1> DEFINE part == ChunkOf(job[t].left)
           rest == RestOf(job[t].left)
<1>2. part \in Seq(Nat) /\ rest \in Seq(Nat) /\ part \o rest = job[t].left
  BY <1>1, ChunkFacts
<1>3. PICK j : j = [Written(t, part) EXCEPT !.left = rest]
  OBVIOUS
<1>4. /\ job[t].cmd = "get" /\ GetOK(job[t], Origin, maxBatch) /\ job[t].tmp \in Seq(Nat)
      /\ Written(t, part) = [job[t] EXCEPT !.tmp = job[t].tmp \o part, !.sum = job[t].tmp \o part]
      /\ Written(t, part) \in Job
  BY <1>1, <1>2, WrittenJob
<1>5. job' = [job EXCEPT ![t] = j]
  <2>1. Written(t, part).left = job[t].left
    BY <1>1, <1>4 DEF Job
  <2>2. job' = [job EXCEPT ![t] = [Written(t, part) EXCEPT !.left = RestOf(@)]]
    BY DEF ReceiveChunk
  <2>3. [Written(t, part) EXCEPT !.left = RestOf(@)] = j
    BY <1>3, <1>4, <2>1 DEF Job
  <2> QED BY <2>2, <2>3
<1>6. (job[t].tmp \o part) \o rest = job[t].tmp \o job[t].left
  BY <1>1, <1>4, ChunkMoves
<1> HIDE DEF part, rest
<1>7. /\ j.pc = "receive" /\ j.cmd = "get" /\ j.digest = job[t].digest
      /\ j.tmp = job[t].tmp \o part /\ j.sum = job[t].tmp \o part /\ j.left = rest
      /\ j.broke = job[t].broke
  BY <1>1, <1>3, <1>4 DEF Job
<1>8. j \in Job
  BY <1>2, <1>3, <1>4 DEF Job
<1>9. JobOK(j, blobs, dropped, Origin, maxBatch)
  BY <1>1, <1>4, <1>6, <1>7, <1>8 DEF JobOK, GetOK
<1>10. pool' \subseteq {<<>>}
  BY <1>1 DEF TransferInv, SharedOK
<1> QED BY <1>1, <1>5, <1>9, <1>10, QuietStep

\* The stream is over, or what has come is the right thing: only the place changes.
LEMMA DownloadGoesOn ==
  ASSUME TransferInv, NEW t \in Thread, ReceiveEOF(t) \/ Verify(t), asked' = asked
  PROVE  TransferInv'
<1>1. /\ job \in [Thread -> Job] /\ job[t] \in Job /\ UNCHANGED <<remote, maxBatch, body, pool>>
      /\ job[t].tmp \in Seq(Int)
  BY JobFacts DEF ReceiveEOF, Verify, Job
<1>2. PICK step \in {"verify", "install"} :
        /\ job' = [job EXCEPT ![t].pc = step]
        /\ step = "verify" => job[t].pc = "receive" /\ job[t].left = <<>>
        /\ step = "install" => job[t].pc = "verify" /\ Genuine(t)
  BY DEF ReceiveEOF, Verify, At
<1>3. job[t].cmd = "get" /\ GetOK(job[t], Origin, maxBatch)
  BY <1>2, JobFacts DEF PutOK
<1>4. PICK j : j = [job[t] EXCEPT !.pc = step]
  OBVIOUS
<1>5. job' = [job EXCEPT ![t] = j]
  BY <1>1, <1>2, <1>4
<1>6. /\ j \in Job /\ j.pc = step /\ j.cmd = "get" /\ j.digest = job[t].digest /\ j.tmp = job[t].tmp
      /\ j.sum = job[t].sum /\ j.broke = job[t].broke
  BY <1>1, <1>2, <1>3, <1>4 DEF Job
<1>7. JobOK(j, blobs, dropped, Origin, maxBatch)
  <2>1. CASE step = "verify"
    <3>1. job[t].tmp \o job[t].left = job[t].tmp
      BY <1>1, <1>2, <2>1, ConcatEmptySeq
    <3> QED BY <1>2, <1>3, <1>6, <2>1, <3>1 DEF JobOK, GetOK
  <2>2. CASE step = "install"
    <3>1. job[t].digest = Digest(job[t].tmp)
      <4>1. job[t].digest.hash = job[t].tmp /\ job[t].digest.size = Len(job[t].tmp)
        BY <1>2, <1>3, <2>2 DEF Genuine, GetOK
      <4> QED BY <1>1, <4>1 DEF Digest, Job
    <3> QED BY <1>2, <1>3, <1>6, <2>2, <3>1 DEF JobOK, GetOK
  <2> QED BY <1>2, <2>1, <2>2
<1>8. pool' \subseteq {<<>>}
  BY <1>1 DEF TransferInv, SharedOK
<1> QED BY <1>1, <1>5, <1>7, <1>8, QuietStep

\* A download is given up: something broke, or the digest was wrong.
LEMMA DownloadGivenUp ==
  ASSUME TransferInv, NEW t \in Thread, asked' = asked,
         \/ VerifyFails(t)
         \/ /\ At(t, "download") /\ job[t].digest.size <= maxBatch
            /\ Has(job[t].digest.hash) /\ ~Passes(Len(Bytes(job[t].digest.hash)))
            /\ Fail(t, FALSE)
  PROVE  TransferInv'
<1>1. job[t] \in Job /\ job[t].pc \in {"download", "verify"} /\ Fail(t, FALSE)
  BY JobFacts DEF VerifyFails, At
<1>2. job[t].cmd = "get" /\ GetOK(job[t], Origin, maxBatch)
  BY <1>1, JobFacts DEF PutOK
<1>3. \/ job[t].broke \/ job[t].digest # Digest(job[t].digest.hash)
      \/ MsgMax < job[t].digest.size /\ job[t].digest.size <= maxBatch
  <2> SUFFICES ASSUME ~job[t].broke, job[t].digest = Digest(job[t].digest.hash)
               PROVE  MsgMax < job[t].digest.size /\ job[t].digest.size <= maxBatch
    OBVIOUS
  <2>1. job[t].digest.size = Len(job[t].digest.hash)
    BY DEF Digest
  <2>2. CASE job[t].pc = "verify"
    <3>1. ~Genuine(t) /\ job[t].sum = job[t].tmp /\ job[t].tmp = job[t].digest.hash
      BY <1>2, <2>2 DEF VerifyFails, At, GetOK
    <3> QED BY <2>1, <3>1 DEF Genuine
  <2>3. CASE job[t].pc = "download"
    <3>1. /\ job[t].digest.size <= maxBatch /\ Has(job[t].digest.hash)
          /\ ~Passes(Len(Bytes(job[t].digest.hash)))
      BY <2>3 DEF VerifyFails, At
    <3>2. Bytes(job[t].digest.hash) = job[t].digest.hash /\ job[t].digest.hash \in Seq(Nat)
      BY <3>1, BlobFacts, OriginFacts
    <3>3. Len(job[t].digest.hash) \in Nat /\ MsgMax \in Nat
      BY <3>2, NilLen, TransferAssumption
    <3> QED BY <2>1, <3>1, <3>2, <3>3 DEF Passes
  <2> QED BY <1>1, <2>2, <2>3
<1>4. FALSE \in BOOLEAN
  OBVIOUS
<1> QED BY <1>1, <1>3, <1>4, FailStep

\* A fault, or a blob that is not there.
LEMMA Broken ==
  ASSUME TransferInv, NEW t \in Thread, NotFound(t) \/ CallFails(t) \/ FileFails(t), asked' = asked
  PROVE  TransferInv'
<1>1. /\ job[t].pc \in {"find", "open", "batch", "stream", "download", "receive", "verify"}
      /\ Fail(t, TRUE)
  BY DEF NotFound, CallFails, FileFails, At
<1>2. TRUE \in BOOLEAN
  OBVIOUS
<1> QED BY <1>1, <1>2, FailStep

-----------------------------------------------------------------------------
(* The invariant *)

\* Nothing has been transferred at the beginning.
LEMMA TransferInitially == Init => TransferInv
<1> SUFFICES ASSUME Init PROVE TransferInv
  OBVIOUS
<1>1. SharedOK
  <2>1. dropped \in BOOLEAN
    BY DEF Init, TransferInit
  <2>2. blobs \subseteq {[hash |-> c, data |-> c] : c \in Origin}
    BY OriginFacts DEF Init, TransferInit
  <2>3. known \subseteq [hash : Seq(Nat), size : Nat]
    BY TransferAssumption DEF Init, TransferInit
  <2> QED BY <2>1, <2>2, <2>3 DEF Init, TransferInit, SharedOK
<1>2. PICK j : j = [pc |-> "new", cmd |-> "get", given |-> <<>>, digest |-> NoDigest, tmp |-> NoFile,
                    sum |-> <<>>, left |-> <<>>, data |-> <<>>, broke |-> FALSE, stuck |-> FALSE]
  OBVIOUS
<1>3. j \in Job
  <2>1. NoFile \in Seq(Int) /\ <<>> \in Seq(Nat) /\ 0 \in Nat
    BY NoFileFacts
  <2>2. NoDigest \in [hash : Seq(Int), size : Nat]
    <3> HIDE DEF NoFile
    <3> QED BY <2>1 DEF NoDigest
  <2> HIDE DEF NoFile, NoDigest
  <2> QED BY <1>2, <2>1, <2>2 DEF Job
<1>4. JobOK(j, blobs, dropped, Origin, maxBatch)
  BY <1>2, <1>3 DEF JobOK, GetOK
<1>5. job = [t \in Thread |-> j]
  BY <1>2 DEF Init, TransferInit
<1>6. JobsOK
  BY <1>3, <1>4, <1>5 DEF JobsOK
<1> QED BY <1>1, <1>6 DEF TransferInv

\* Requests are only added to what was asked for.
LEMMA OriginGrows ==
  ASSUME ReaderInv, asked' = asked \/ \E r : asked' = Append(asked, r)
  PROVE  Origin \subseteq Origin'
<1>1. asked \in Seq(Request \cup {Garbled})
  BY DEF ReaderInv, ProtocolTypeOK
<1>2. \A i \in DOMAIN asked : i \in DOMAIN asked' /\ asked'[i] = asked[i]
  BY <1>1
<1> QED BY <1>2 DEF Origin

\* The input is written or read, and the transfers stay as they are.
LEMMA InputStep ==
  ASSUME TransferInv, UNCHANGED transfer, Origin \subseteq Origin'
  PROVE  TransferInv'
<1>1. UNCHANGED <<blobs, dropped, known, maxBatch, body, pool, job>>
  BY DEF transfer, remote
<1>2. SharedOK'
  <2>1. /\ maxBatch \in BatchSizes /\ dropped \in BOOLEAN
        /\ known \subseteq [hash : Seq(Nat), size : Nat] /\ pool \subseteq {<<>>}
        /\ body = NoFile \/ body \in Origin
        /\ blobs \subseteq {[hash |-> c, data |-> c] : c \in Origin}
    BY DEF TransferInv, SharedOK
  <2>2. blobs \subseteq {[hash |-> c, data |-> c] : c \in Origin'}
    BY <2>1
  <2> QED BY <1>1, <2>1, <2>2 DEF SharedOK
<1>3. ASSUME NEW t \in Thread PROVE JobOK(job[t], blobs, dropped, Origin', maxBatch)
  BY DEF TransferInv, JobsOK, JobOK, PutOK, GetOK
<1> QED BY <1>1, <1>2, <1>3 DEF TransferInv, JobsOK

\* CAS loses a blob: nobody counts on it any more.
LEMMA Collected ==
  ASSUME TransferInv, CollectBlob, asked' = asked
  PROVE  TransferInv'
<1>1. /\ blobs' \subseteq blobs /\ dropped' = TRUE
      /\ UNCHANGED <<known, maxBatch, body, pool, job>> /\ Origin' = Origin
  BY DEF CollectBlob, Origin
<1>2. SharedOK'
  BY <1>1 DEF TransferInv, SharedOK
<1>3. ASSUME NEW t \in Thread PROVE JobOK(job[t], blobs', TRUE, Origin, maxBatch)
  BY DEF TransferInv, JobsOK, JobOK, PutOK
<1> QED BY <1>1, <1>2, <1>3 DEF TransferInv, JobsOK

\* The disk cache evicts the body.
LEMMA Evicted ==
  ASSUME TransferInv, Evict, asked' = asked
  PROVE  TransferInv'
<1>1. /\ body' = NoFile /\ UNCHANGED <<blobs, dropped, known, maxBatch, pool, job>>
      /\ Origin' = Origin
  BY DEF Evict, remote, Origin
<1> QED BY <1>1 DEF TransferInv, SharedOK, JobsOK

\* A worker takes a request that Read has returned, and with it a body that was asked
\* to be put.
LEMMA Dispatched ==
  ASSUME TransferInv, ReaderInv, NEW t \in Thread, Dispatch(t)
  PROVE  TransferInv'
<1>1. asked' = asked
  BY DEF Dispatch, input
<1>2. ASSUME read[t].cmd = "put", StartPut(t, read[t].body) PROVE TransferInv'
  <2>1. /\ read \in Seq(Request) /\ asked \in Seq(Request \cup {Garbled})
        /\ Len(read) \in Nat /\ Len(asked) \in Nat /\ Len(read) <= Len(asked)
        /\ \A i \in 1..Len(read) : read[i] = asked[i]
    BY NilLen DEF ReaderInv, ProtocolTypeOK
  <2>2. t \in 1..Len(read) /\ t \in 1..Len(asked)
    BY <2>1, DataPathAssumption, ProtocolAssumption DEF Dispatch
  <2>3. read[t] = asked[t] /\ t \in DOMAIN asked /\ read[t] \in Request
    BY <2>1, <2>2, ElementOfSeq, LenProperties
  <2>4. read[t] = [cmd |-> "put", body |-> read[t].body] /\ read[t].body \in Seq(Nat)
    <3>1. PICK r : r = read[t]
      OBVIOUS
    <3>2. r.cmd = "put" /\ r.body \in Body \cup {<<>>} /\ r = [cmd |-> r.cmd, body |-> r.body]
      BY <1>2, <2>3, <3>1 DEF Request
    <3>3. <<>> \in Seq(Nat)
      OBVIOUS
    <3> QED BY <3>1, <3>2, <3>3, ProtocolAssumption
  <2>5. read[t].body \in Origin
    BY <2>3, <2>4 DEF Origin
  <2> QED BY <1>1, <1>2, <2>5, PutStarts
<1>3. ASSUME NEW d, StartGet(t, d) PROVE TransferInv'
  BY <1>1, <1>3, GetStarts
<1> QED BY <1>2, <1>3 DEF Dispatch

\* No step of a transfer, and no fault, breaks the invariant.
LEMMA TransferKeeps ==
  ASSUME TransferInv, NEW t \in Thread, TransferStep(t) \/ TransferFault(t), asked' = asked
  PROVE  TransferInv'
<1>1. CASE WriteBody(t) \/ WriteBodyFails(t)
  BY <1>1, BodyWritten, BodyNotWritten
<1>2. CASE RenameBody(t) \/ WriteMeta(t) \/ RenameFails(t) \/ WriteMetaFails(t)
  BY <1>2, BodyRenamed, MetaWritten, NotInstalled
<1>3. CASE Find(t) \/ OpenFile(t) \/ OpenFails(t)
  BY <1>3, Found, Opened, NotOpened
<1>4. CASE BatchUpdate(t) \/ CloseStream(t)
  BY <1>4, StoredAndReplied DEF BatchUpdate, CloseStream, At
<1>5. CASE SendChunk(t)
  BY <1>5, ChunkSent
<1>6. CASE BatchRefused(t) \/ StreamRefused(t)
  BY <1>6, Refused
<1>7. CASE BatchRead(t) \/ OpenStream(t) \/ ReceiveChunk(t)
  BY <1>7, BatchWasRead, StreamOpened, ChunkReceived
<1>8. CASE ReceiveEOF(t) \/ Verify(t)
  BY <1>8, DownloadGoesOn
<1>9. CASE VerifyFails(t)
  BY <1>9, DownloadGivenUp
<1>10. CASE TooLarge(t)
  BY <1>10, Refused, DownloadGivenUp DEF TooLarge
<1>11. CASE NotFound(t) \/ CallFails(t) \/ FileFails(t)
  BY <1>11, Broken
<1> QED BY <1>1, <1>2, <1>3, <1>4, <1>5, <1>6, <1>7, <1>8, <1>9, <1>10, <1>11
        DEF TransferStep, TransferFault

\* The invariant of the transfers holds always.
LEMMA TransferAlways == Spec => []TransferInv
<1>1. ASSUME ReaderInv, TransferInv, [Next]_vars PROVE TransferInv'
  <2>1. CASE (ReaderStep \/ ClientStep) /\ UNCHANGED transfer
    <3>1. asked' = asked \/ \E r : asked' = Append(asked, r)
      BY <2>1 DEF ReaderStep, SkipBlank, ReadEOF, ReadRequest, ReadBody, ReadRejects,
         ClientStep, AskGet, AskPut, StrayBody, CloseInput
    <3> QED BY <1>1, <2>1, <3>1, OriginGrows, InputStep
  <2>2. ASSUME NEW t \in Thread, Dispatch(t) PROVE TransferInv'
    BY <1>1, <2>2, Dispatched
  <2>3. ASSUME NEW t \in Thread, TransferStep(t) \/ TransferFault(t), UNCHANGED input PROVE TransferInv'
    BY <1>1, <2>3, TransferKeeps DEF input
  <2>4. CASE (CollectBlob \/ Evict) /\ UNCHANGED input
    BY <1>1, <2>4, Collected, Evicted DEF input
  <2>5. CASE UNCHANGED vars
    <3>1. UNCHANGED transfer /\ asked' = asked
      BY <2>5 DEF vars, input
    <3> QED BY <1>1, <3>1, OriginGrows, InputStep
  <2> QED BY <1>1, <2>1, <2>2, <2>3, <2>4, <2>5 DEF Next, Progress
<1> QED BY <1>1, TransferInitially, ReaderAlways, PTL DEF Spec

-----------------------------------------------------------------------------
(* Theorems *)

\* The state keeps its types.
THEOREM DataTypes == Spec => []TypeOK
<1>1. ReaderInv /\ TransferInv => TypeOK
  <2> SUFFICES ASSUME ReaderInv, TransferInv PROVE TypeOK
    OBVIOUS
  <2>1. \A b \in blobs : b \in [hash : Seq(Nat), data : Seq(Nat)]
    BY OriginFacts DEF TransferInv, SharedOK
  <2>2. body \in Seq(Int)
    <3>1. body = NoFile \/ body \in Seq(Nat)
      BY OriginFacts DEF TransferInv, SharedOK
    <3> QED BY <3>1, NoFileFacts
  <2>3. \A s \in pool : s \in Seq(Nat)
    BY EmptySeq DEF TransferInv, SharedOK
  <2>4. \A t \in Thread : job[t] \in Job
    BY DEF TransferInv, JobsOK
  <2> QED BY <2>1, <2>2, <2>3, <2>4 DEF TypeOK, TransferTypeOK, ReaderInv, TransferInv, SharedOK
<1> QED BY <1>1, ReaderAlways, TransferAlways, PTL

\* However hashers are shared and calls end, the digest of a put is that of its body.
THEOREM DataDigests == Spec => []DigestsTrue
<1>1. TransferInv => DigestsTrue
  BY DEF TransferInv, JobsOK, JobOK, PutOK, DigestsTrue
<1> QED BY <1>1, TransferAlways, PTL

\* What is reported as uploaded is in CAS, byte by byte, as long as CAS drops nothing.
THEOREM DataUploaded == Spec => []UploadedIsThere
<1>1. TransferInv => UploadedIsThere
  <2> SUFFICES ASSUME TransferInv, NEW t \in Thread, At(t, "uploaded"), ~dropped
               PROVE  [hash |-> job[t].given, data |-> job[t].given] \in blobs
    BY DEF UploadedIsThere
  <2>1. job[t].pc = "uploaded"
    BY DEF At
  <2> QED BY <2>1, JobFacts DEF PutOK, GetOK
<1> QED BY <1>1, TransferAlways, PTL

\* What a get serves has the hash and the size of its digest, whatever the server sends.
THEOREM DataServed == Spec => []ServedExactly
<1>1. TransferInv => ServedExactly
  <2> SUFFICES ASSUME TransferInv, NEW t \in Thread, At(t, "served")
               PROVE  Digest(job[t].data) = job[t].digest
    BY DEF ServedExactly
  <2>1. job[t].pc = "served"
    BY DEF At
  <2> QED BY <2>1, JobFacts DEF PutOK, GetOK
<1> QED BY <1>1, TransferAlways, PTL

\* No temporary file stays behind but those that Install could not rename.
THEOREM DataNoStray == Spec => []NoStrayTemp
<1>1. TransferInv => NoStrayTemp
  <2> SUFFICES ASSUME TransferInv, NEW t \in Thread, job[t].pc \in Ends, job[t].tmp # NoFile
               PROVE  job[t].stuck
    BY DEF NoStrayTemp
  <2>1. job[t].pc \in {"rejected", "failed", "uploaded", "served"}
    BY DEF Ends
  <2> QED BY <2>1, JobFacts DEF PutOK, GetOK
<1> QED BY <1>1, TransferAlways, PTL

\* No transfer fails but for one of the causes named.
THEOREM DataFails == Spec => []FailsForCause
<1>1. TransferInv => FailsForCause
  <2> SUFFICES ASSUME TransferInv, NEW t \in Thread, At(t, "failed")
               PROVE  \/ job[t].broke
                      \/ job[t].digest # Digest(job[t].digest.hash)
                      \/ MsgMax < job[t].digest.size /\ job[t].digest.size <= maxBatch
    BY DEF FailsForCause
  <2>1. job[t].pc = "failed"
    BY DEF At
  <2> QED BY <2>1, JobFacts DEF PutOK, GetOK
<1> QED BY <1>1, TransferAlways, PTL

\* Only what was sent in full, or was there before, is in CAS or on disk, and under the
\* name of its own hash.
THEOREM DataOnlySent == Spec => []OnlySent
<1>1. TransferInv => OnlySent
  BY DEF TransferInv, SharedOK, OnlySent, Origin
<1> QED BY <1>1, TransferAlways, PTL

=============================================================================
