------------------------------ MODULE Transfer ------------------------------
(***************************************************************************)
(* The bytes of one action's artifacts on their way: a put's body into a   *)
(* temporary file, to its place on disk, and to CAS in one batch call or   *)
(* as a stream of chunks; a get's download from CAS into a temporary file, *)
(* its verification and its place on disk (writeBodyToTemp, UploadFile,    *)
(* batchUpload, byteStreamUpload, DownloadBlob, downloadAndInstall, and    *)
(* the CAS and ByteStream services of fakereapi).  A hash is the content   *)
(* itself: SHA-256 is taken to be without collisions.                      *)
(***************************************************************************)
EXTENDS Integers, Sequences

CONSTANTS
  Thread,       \* requests, each with the goroutine it starts
  Content,      \* artifacts: sequences of bytes
  Stored,       \* contents that other machines have put into CAS
  Foreign,      \* digests in action results of other machines
  Chunk,        \* bytes read or sent at a time, 1 MiB in the code
  BatchSizes,   \* values of maxBatchSize that discoverCapabilities may leave
  MsgMax,       \* largest blob in one message, by the limits of both ends
  MaxArtifact,  \* MaxArtifactSize, 0 for no limit
  Faults        \* some of "rpc", "io", "corrupt", "gc", "evict"

Digest(c) == [hash |-> c, size |-> Len(c)]

NoFile   == <<-1>>           \* a sequence that is no content
NoDigest == [hash |-> NoFile, size |-> 0]

ASSUME TransferAssumption ==
  /\ Content \subseteq Seq(Nat) /\ Stored \subseteq Content
  /\ Foreign \subseteq [hash : Content, size : Nat]
  /\ Chunk \in Nat \ {0} /\ BatchSizes \subseteq Nat \ {0}
  /\ MsgMax \in Nat /\ MaxArtifact \in Nat

VARIABLES
  blobs,      \* external: CAS, a set of [hash, data]
  dropped,    \* history: CAS has lost a blob
  known,      \* external: the digests that action results of this action name
  maxBatch,   \* maxBatchSize of the client
  body,       \* the body file of the action
  pool,       \* states of the idle hashers in SHA256Pool
  job         \* job[t]: what a request has in its hands

remote   == <<blobs, dropped, known>>
transfer == <<remote, maxBatch, body, pool, job>>

Ends == {"rejected", "failed", "uploaded", "served"}

Job ==
  [pc : {"new", "body", "install", "meta", "find", "open", "batch", "stream",
         "download", "receive", "verify"} \cup Ends,
   cmd : {"get", "put"},
   given : Seq(Nat),             \* Body of a put
   digest : [hash : Seq(Int), size : Nat],
   tmp : Seq(Int),               \* the temporary file
   sum : Seq(Nat),               \* what the hasher of a get has been fed
   left : Seq(Nat),              \* what is still to come from the source
   data : Seq(Nat),              \* what was sent, or what was installed
   broke : BOOLEAN,              \* history: a fault or another request got in the way
   stuck : BOOLEAN]              \* history: the temporary file could not be renamed

TransferTypeOK ==
  /\ \A b \in blobs : b \in [hash : Seq(Nat), data : Seq(Nat)]
  /\ dropped \in BOOLEAN
  /\ \A d \in known : d \in [hash : Seq(Nat), size : Nat]
  /\ maxBatch \in BatchSizes
  /\ body \in Seq(Int)
  /\ \A s \in pool : s \in Seq(Nat)
  /\ \A t \in Thread : job[t] \in Job

TransferInit ==
  /\ blobs = {[hash |-> c, data |-> c] : c \in Stored}
  /\ dropped = FALSE
  /\ known = Foreign
  /\ maxBatch \in BatchSizes
  /\ body = NoFile
  /\ pool = {}
  /\ job = [t \in Thread |->
       [pc |-> "new", cmd |-> "get", given |-> <<>>, digest |-> NoDigest, tmp |-> NoFile,
        sum |-> <<>>, left |-> <<>>, data |-> <<>>, broke |-> FALSE, stuck |-> FALSE]]

At(t, step) == job[t].pc = step

\* Mutant: the hasher goes back with what it has seen.
Reset_Forgotten(s) == s

\* Hash.Reset, before a hasher goes back to the pool.
Reset(s) == <<>>

\* A hasher from the pool, or a new one.
Hashers == pool \cup {<<>>}

\* The end of downloadAndInstall; a put has given its hasher back by then.
Release(t) ==
  pool' = IF job[t].cmd = "get" THEN pool \cup {Reset(job[t].sum)} ELSE pool

\* What is left of a request or its goroutine when it has returned.
Over(t, end) == [job[t] EXCEPT !.pc = end, !.sum = <<>>, !.left = <<>>, !.data = <<>>]

\* The request or its goroutine gives up, and removes its temporary file.
Fail(t, hit) ==
  /\ job' = [job EXCEPT ![t] = [Over(t, "failed") EXCEPT !.tmp = NoFile, !.broke = @ \/ hit]]
  /\ Release(t)
  /\ UNCHANGED <<remote, maxBatch, body>>

-----------------------------------------------------------------------------
(* Put, up to its place on disk *)

\* HandlePut: what is too large is refused; for the rest a temporary file is made,
\* or cannot be made.
StartPut(t, b) ==
  /\ At(t, "new")
  /\ LET large == MaxArtifact > 0 /\ Len(b) > MaxArtifact
         Put(step) == [job[t] EXCEPT !.pc = step, !.cmd = "put", !.given = b]
     IN \/ large /\ job' = [job EXCEPT ![t] = Put("rejected")]
        \/ ~large /\ job' = [job EXCEPT ![t] = [Put("body") EXCEPT !.tmp = <<>>]]
        \/ /\ ~large /\ "io" \in Faults
           /\ job' = [job EXCEPT ![t] = [Put("failed") EXCEPT !.broke = TRUE]]
  /\ UNCHANGED <<remote, maxBatch, body, pool>>

\* writeBodyToTemp: the body goes to the file and through a hasher.
WriteBody(t) ==
  /\ At(t, "body")
  /\ \E h \in Hashers :
       LET seen == h \o job[t].given
       IN /\ job' = [job EXCEPT ![t].pc = "install", ![t].tmp = job[t].given,
                                ![t].digest = [hash |-> seen, size |-> Len(job[t].given)]]
          /\ pool' = (pool \ {h}) \cup {Reset(seen)}
  /\ UNCHANGED <<remote, maxBatch, body>>

\* Mutant: the file that could not be written stays where it is.
WriteBodyFails_Leaves(t) ==
  /\ At(t, "body") /\ "io" \in Faults
  /\ job' = [job EXCEPT ![t].pc = "failed", ![t].broke = TRUE]
  /\ \E h \in Hashers : pool' = (pool \ {h}) \cup {Reset(h \o job[t].given)}
  /\ UNCHANGED <<remote, maxBatch, body>>

\* The write or the close fails: the hasher is reset, the file removed, and the put
\* answered with an error.
WriteBodyFails(t) ==
  /\ At(t, "body") /\ "io" \in Faults
  /\ job' = [job EXCEPT ![t].pc = "failed", ![t].broke = TRUE, ![t].tmp = NoFile]
  /\ \E h \in Hashers : pool' = (pool \ {h}) \cup {Reset(h \o job[t].given)}
  /\ UNCHANGED <<remote, maxBatch, body>>

\* Install, first half: the temporary file gets its name.
RenameBody(t) ==
  /\ At(t, "install")
  /\ body' = job[t].tmp
  /\ job' = [job EXCEPT ![t].pc = "meta", ![t].tmp = NoFile, ![t].data = job[t].tmp]
  /\ UNCHANGED <<remote, maxBatch, pool>>

\* The directory cannot be made or the file not renamed, and nobody removes it.
RenameFails(t) ==
  /\ At(t, "install") /\ "io" \in Faults
  /\ job' = [job EXCEPT ![t] = [Over(t, "failed") EXCEPT !.broke = TRUE, !.stuck = TRUE]]
  /\ Release(t)
  /\ UNCHANGED <<remote, maxBatch, body>>

\* Install, second half: with the metadata written, a put is answered and its
\* goroutine begins; a get is served.
WriteMeta(t) ==
  /\ At(t, "meta")
  /\ job' = [job EXCEPT ![t] = IF job[t].cmd = "put"
                               THEN [job[t] EXCEPT !.pc = "find"]
                               ELSE [Over(t, "served") EXCEPT !.data = job[t].data]]
  /\ Release(t)
  /\ UNCHANGED <<remote, maxBatch, body>>

\* The metadata cannot be written: the body is removed by its name, whoever has put
\* it there since, or is still there if that fails too.
WriteMetaFails(t) ==
  /\ At(t, "meta") /\ "io" \in Faults
  /\ body' \in {NoFile, body}
  /\ job' = [job EXCEPT ![t] = [Over(t, "failed") EXCEPT !.broke = TRUE]]
  /\ Release(t)
  /\ UNCHANGED <<remote, maxBatch>>

-----------------------------------------------------------------------------
(* UploadFile, and the services it calls *)

Has(h)  == \E b \in blobs : b.hash = h
Bytes(h) == (CHOOSE b \in blobs : b.hash = h).data

\* The server keeps data under the name h.
Keep(h, d) == blobs' = {b \in blobs : b.hash # h} \cup {[hash |-> h, data |-> d]}

\* UploadFile returns nil: the digest is published in an action result.
Uploaded(t) ==
  /\ job' = [job EXCEPT ![t] = Over(t, "uploaded")]
  /\ known' = known \cup {job[t].digest}

\* FindMissingBlobs.
Find(t) ==
  /\ At(t, "find")
  /\ IF Has(job[t].digest.hash)
     THEN Uploaded(t)
     ELSE job' = [job EXCEPT ![t].pc = "open"] /\ UNCHANGED known
  /\ UNCHANGED <<blobs, dropped, maxBatch, body, pool>>

\* Mutant: goes on although the file could not be opened.
OpenFile_Missing(t) ==
  /\ At(t, "open") /\ body = NoFile
  /\ job' = [job EXCEPT ![t].pc = "batch", ![t].data = body]
  /\ UNCHANGED <<remote, maxBatch, body, pool>>

\* The body file is opened by its name, whatever is there now; what is opened stays
\* readable.  For a batch the bytes of the digest's size are read, no more.
OpenFile(t) ==
  /\ At(t, "open")
  /\ LET n == job[t].digest.size
     IN \/ /\ body # NoFile /\ n <= maxBatch /\ Len(body) >= n
           /\ job' = [job EXCEPT ![t].pc = "batch", ![t].data = SubSeq(body, 1, n),
                                 ![t].broke = body # job[t].given]
        \/ /\ body # NoFile /\ n > maxBatch
           /\ job' = [job EXCEPT ![t].pc = "stream", ![t].left = body, ![t].data = <<>>,
                                 ![t].broke = body # job[t].given]
  /\ UNCHANGED <<remote, maxBatch, body, pool>>

\* os.Open or io.ReadFull fails.
OpenFails(t) ==
  /\ At(t, "open")
  /\ body = NoFile \/ (job[t].digest.size <= maxBatch /\ Len(body) < job[t].digest.size)
  /\ Fail(t, body # job[t].given)

\* A message with a blob of n bytes passes the limits of the channel: that of the
\* client is maxGRPCMessageSize, that of the server its own affair.
Passes(n) == n <= MsgMax

\* Mutant: the server, or what stands before it, stores what it is sent.
Sound_Unchecked(t) == TRUE

\* The server compares the hash of what it got with the name.
Sound(t) == job[t].data = job[t].digest.hash

\* The server stores the data; the reply may be lost.
StoreAndReply(t) ==
  /\ Keep(job[t].digest.hash, job[t].data)
  /\ \/ Uploaded(t)
     \/ /\ "rpc" \in Faults
        /\ job' = [job EXCEPT ![t] = [Over(t, "failed") EXCEPT !.broke = TRUE]]
        /\ UNCHANGED known
  /\ UNCHANGED <<dropped, maxBatch, body, pool>>

\* batchUpload, BatchUpdateBlobs.
BatchUpdate(t) ==
  /\ At(t, "batch")
  /\ Passes(Len(job[t].data)) /\ Sound(t)
  /\ StoreAndReply(t)

\* Mutant: the status of the single blob in the response is not looked at.
BatchRefused_Ignored(t) ==
  /\ At(t, "batch")
  /\ Passes(Len(job[t].data)) /\ ~Sound(t)
  /\ Uploaded(t)
  /\ UNCHANGED <<blobs, dropped, maxBatch, body, pool>>

\* The response has another status than OK for the blob.
BatchRefused(t) ==
  /\ At(t, "batch")
  /\ Passes(Len(job[t].data)) /\ ~Sound(t)
  /\ Fail(t, FALSE)

\* Mutant: a read that does not fill the buffer is taken for the end of the file.
ChunkOf_FullOnly(s) == IF Len(s) < Chunk THEN <<>> ELSE SubSeq(s, 1, Chunk)

\* One read into a buffer of Chunk bytes, or one message of the server.
ChunkOf(s) == IF Len(s) < Chunk THEN s ELSE SubSeq(s, 1, Chunk)

RestOf(s) == SubSeq(s, Chunk + 1, Len(s))

\* byteStreamUpload: a chunk is read and sent.
SendChunk(t) ==
  /\ At(t, "stream") /\ job[t].left # <<>>
  /\ job' = [job EXCEPT ![t].left = RestOf(@), ![t].data = @ \o ChunkOf(job[t].left)]
  /\ UNCHANGED <<remote, maxBatch, body, pool>>

\* CloseAndRecv at the end of the file.  FinishWrite was never set, because a file
\* reports its end only after its last byte: the server goes by the end of the
\* stream.  The resource name came with the first chunk, if there was one.
CloseStream(t) ==
  /\ At(t, "stream") /\ job[t].left = <<>>
  /\ job[t].data # <<>> /\ Sound(t)
  /\ StoreAndReply(t)

\* Mutant: nothing is received after a stream without a message.
StreamRefused_Waits(t) ==
  /\ At(t, "stream") /\ job[t].left = <<>>
  /\ job[t].data # <<>> /\ ~Sound(t)
  /\ Fail(t, FALSE)

\* No resource name, or another hash than the name says.
StreamRefused(t) ==
  /\ At(t, "stream") /\ job[t].left = <<>>
  /\ job[t].data = <<>> \/ ~Sound(t)
  /\ Fail(t, FALSE)

-----------------------------------------------------------------------------
(* downloadAndInstall, and the services it calls *)

\* A get has found digest d, in an action result or in metadata without a body.
StartGet(t, d) ==
  /\ At(t, "new") /\ d \in known
  /\ \E h \in Hashers :
       /\ job' = [job EXCEPT ![t].pc = "download", ![t].digest = d, ![t].tmp = <<>>, ![t].sum = h]
       /\ pool' = pool \ {h}
  /\ UNCHANGED <<remote, maxBatch, body>>

\* What a faulty server may send instead of c: nothing at all, too little, or
\* other bytes.
Damaged(c) ==
  IF "corrupt" \notin Faults THEN {}
  ELSE IF c = <<>> THEN {<<0>>}
  ELSE {<<>>, SubSeq(c, 1, Len(c) - 1), [c EXCEPT ![1] = 0]}

\* Bytes d are written to the file and to the hasher.
Written(t, d) == [job[t] EXCEPT !.tmp = @ \o d, !.sum = @ \o d]

\* batchDownload, BatchReadBlobs.
BatchRead(t) ==
  /\ At(t, "download") /\ job[t].digest.size <= maxBatch
  /\ Has(job[t].digest.hash) /\ Passes(Len(Bytes(job[t].digest.hash)))
  /\ LET c == Bytes(job[t].digest.hash)
     IN \E d \in {c} \cup Damaged(c) :
          job' = [job EXCEPT ![t] = [Written(t, d) EXCEPT !.pc = "verify", !.broke = d # c]]
  /\ UNCHANGED <<remote, maxBatch, body, pool>>

\* byteStreamDownload, Read: the server holds on to the bytes from here on.
OpenStream(t) ==
  /\ At(t, "download") /\ job[t].digest.size > maxBatch
  /\ Has(job[t].digest.hash)
  /\ LET c == Bytes(job[t].digest.hash)
     IN \E d \in {c} \cup Damaged(c) :
          job' = [job EXCEPT ![t].pc = "receive", ![t].left = d, ![t].broke = d # c]
  /\ UNCHANGED <<remote, maxBatch, body, pool>>

\* The blob is not in CAS.
NotFound(t) ==
  /\ At(t, "download") /\ ~Has(job[t].digest.hash)
  /\ Fail(t, TRUE)

ReceiveChunk(t) ==
  /\ At(t, "receive") /\ job[t].left # <<>>
  /\ job' = [job EXCEPT ![t] = [Written(t, ChunkOf(job[t].left)) EXCEPT !.left = RestOf(@)]]
  /\ UNCHANGED <<remote, maxBatch, body, pool>>

ReceiveEOF(t) ==
  /\ At(t, "receive") /\ job[t].left = <<>>
  /\ job' = [job EXCEPT ![t].pc = "verify"]
  /\ UNCHANGED <<remote, maxBatch, body, pool>>

\* Mutant: only the hashes are compared.
Genuine_HashOnly(t) == job[t].sum = job[t].digest.hash

\* Hash and size are those of the digest.
Genuine(t) == job[t].sum = job[t].digest.hash /\ Len(job[t].tmp) = job[t].digest.size

Verify(t) ==
  /\ At(t, "verify") /\ Genuine(t)
  /\ job' = [job EXCEPT ![t].pc = "install"]
  /\ UNCHANGED <<remote, maxBatch, body, pool>>

\* Mutant: the file stays where it is.
VerifyFails_Leaves(t) ==
  /\ At(t, "verify") /\ ~Genuine(t)
  /\ job' = [job EXCEPT ![t] = Over(t, "failed")]
  /\ Release(t)
  /\ UNCHANGED <<remote, maxBatch, body>>

VerifyFails(t) ==
  /\ At(t, "verify") /\ ~Genuine(t)
  /\ Fail(t, FALSE)

-----------------------------------------------------------------------------
(* Failures and the environment *)

\* A call fails for good, before it had an effect, or within a stream.
CallFails(t) ==
  /\ \E step \in {"find", "batch", "stream", "download", "receive"} : At(t, step)
  /\ "rpc" \in Faults
  /\ Fail(t, TRUE)

\* The message is over the limit of the channel.
TooLarge(t) ==
  /\ \/ At(t, "batch") /\ ~Passes(Len(job[t].data))
     \/ /\ At(t, "download") /\ job[t].digest.size <= maxBatch
        /\ Has(job[t].digest.hash) /\ ~Passes(Len(Bytes(job[t].digest.hash)))
  /\ Fail(t, FALSE)

\* A read of the body file, or a write to a temporary file, its close or its stat fails.
FileFails(t) ==
  /\ \E step \in {"open", "stream", "download", "receive", "verify"} : At(t, step)
  /\ "io" \in Faults
  /\ Fail(t, TRUE)

CollectBlob ==
  /\ "gc" \in Faults
  /\ \E b \in blobs : blobs' = blobs \ {b}
  /\ dropped' = TRUE
  /\ UNCHANGED <<known, maxBatch, body, pool, job>>

Evict ==
  /\ "evict" \in Faults /\ body # NoFile
  /\ body' = NoFile
  /\ UNCHANGED <<remote, maxBatch, pool, job>>

TransferStep(t) ==
  \/ WriteBody(t) \/ RenameBody(t) \/ WriteMeta(t)
  \/ Find(t) \/ OpenFile(t) \/ OpenFails(t) \/ BatchUpdate(t) \/ BatchRefused(t)
  \/ SendChunk(t) \/ CloseStream(t) \/ StreamRefused(t)
  \/ BatchRead(t) \/ OpenStream(t) \/ NotFound(t) \/ ReceiveChunk(t) \/ ReceiveEOF(t)
  \/ Verify(t) \/ VerifyFails(t) \/ TooLarge(t)

\* What no fairness may be asked for.
TransferFault(t) ==
  WriteBodyFails(t) \/ RenameFails(t) \/ WriteMetaFails(t) \/ CallFails(t) \/ FileFails(t)

-----------------------------------------------------------------------------
(* Properties *)

\* The digest of a put is that of its body, whoever used the hasher before and
\* however that ended (SHA256Pool).
DigestsTrue ==
  \A t \in Thread : job[t].cmd = "put" =>
    job[t].digest \in {NoDigest, Digest(job[t].given)}

\* A put whose upload is reported done has the very bytes of its body in CAS under
\* their digest, unless the server has dropped blobs: although the file is read
\* under a name that others write to, and replies of the server are per blob.
UploadedIsThere ==
  \A t \in Thread : At(t, "uploaded") /\ ~dropped =>
    [hash |-> job[t].given, data |-> job[t].given] \in blobs

\* A get installs and serves exactly what its digest names, hash and size.
ServedExactly ==
  \A t \in Thread : At(t, "served") =>
    Digest(job[t].data) = job[t].digest

\* A request leaves no temporary file behind, except that nobody removes one that
\* Install could not rename.
NoStrayTemp ==
  \A t \in Thread : job[t].pc \in Ends /\ job[t].tmp # NoFile => job[t].stuck

\* A transfer does not fail on its own: something broke, the body was replaced or
\* removed, the blob is not there, its digest is wrong, or it is small enough for a
\* batch and too large for a message.
FailsForCause ==
  \A t \in Thread : At(t, "failed") =>
    \/ job[t].broke
    \/ job[t].digest # Digest(job[t].digest.hash)
    \/ MsgMax < job[t].digest.size /\ job[t].digest.size <= maxBatch

\* Every transfer ends: with a bounded number of them, there are moments again and
\* again when none is under way.
TransfersEnd == []<>(\A t \in Thread : job[t].pc \in Ends \cup {"new"})

=============================================================================
