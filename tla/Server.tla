------------------------------- MODULE Server -------------------------------
(***************************************************************************)
(* The request loop of gocache-rbe (internal/handler): one reader, a pool  *)
(* of workers behind a buffered channel, a response writer, single-flight  *)
(* lookups in the remote action cache, and the goroutines that copy stored *)
(* artifacts to the remote.  The disk cache and the remote appear by their *)
(* outcomes only.                                                          *)
(***************************************************************************)
EXTENDS Integers, Sequences, FiniteSets

CONSTANTS
  Req,       \* IDs of get, put and unknown requests
  CloseReq,  \* ID of the close request
  Key,       \* action IDs
  KeyOf,     \* KeyOf[r]: the action that request r is about
  Worker,    \* the workers
  QueueCap,  \* capacity of the channel of requests (2 for each worker)
  SemCap     \* capacity of RemoteSem (4 for each worker)

None == "none"

ASSUME ServerAssumption ==
  /\ CloseReq \notin Req
  /\ None \notin Req \cup Worker \cup {CloseReq}
  /\ KeyOf \in [Req -> Key]
  /\ QueueCap \in Nat /\ SemCap \in Nat
  /\ Worker = {} => QueueCap = 0

VARIABLES
  main,     \* where Run is
  cur,      \* the request that Run has read last
  cmd,      \* cmd[r]: the command of r, once it has been read
  queue,    \* the channel of requests
  closed,   \* close(requests) was called
  wpc,      \* wpc[w]: where worker w is
  wreq,     \* wreq[w]: the request it is handling
  flight,   \* flight[k]: the worker whose sfGroup.Do call runs for key k
  pop,      \* pop[r]: the goroutine that copies what r stored to the remote
  client,   \* h.Client: "none", "open" or "closed"
  out       \* the responses written to standard output, after the handshake

vars == <<main, cur, cmd, queue, closed, wpc, wreq, flight, pop, client, out>>

Command == {"get", "put", "other"}

TypeOK ==
  /\ main \in {"handshake", "read", "send", "close", "drain", "remoteWait", "answer", "exit"}
  /\ cur \in Req \cup {CloseReq, None}
  /\ cmd \in [Req -> Command \cup {None}]
  /\ queue \in Seq(Req) /\ Len(queue) <= QueueCap
  /\ closed \in BOOLEAN
  /\ wpc \in [Worker -> {"idle", "work", "refill", "sf", "remote", "wait", "write", "done"}]
  /\ wreq \in [Worker -> Req \cup {None}]
  /\ flight \in [Key -> Worker \cup {None}]
  /\ pop \in [Req -> {"none", "queued", "running", "done"}]
  /\ client \in {"none", "open", "closed"}
  /\ out \in Seq(Req \cup {CloseReq})

Init ==
  /\ main = "handshake"
  /\ cur = None
  /\ cmd = [r \in Req |-> None]
  /\ queue = <<>>
  /\ closed = FALSE
  /\ wpc = [w \in Worker |-> "idle"]
  /\ wreq = [w \in Worker |-> None]
  /\ flight = [k \in Key |-> None]
  /\ pop = [r \in Req |-> "none"]
  /\ client \in {"none", "open"}
  /\ out = <<>>

-----------------------------------------------------------------------------
(* Run *)

\* The handshake; without it Run returns at once.
Handshake ==
  /\ main = "handshake"
  /\ main' \in {"read", "exit"}
  /\ UNCHANGED <<cur, cmd, queue, closed, wpc, wreq, flight, pop, client, out>>

\* reader.Read returns a request to hand to the workers.
Read(r, c) ==
  /\ main = "read"
  /\ cmd[r] = None
  /\ cmd' = [cmd EXCEPT ![r] = c]
  /\ cur' = r
  /\ main' = "send"
  /\ UNCHANGED <<queue, closed, wpc, wreq, flight, pop, client, out>>

\* Mutant: one request too many fits into the channel.
HasRoom_OneMore == Len(queue) <= QueueCap

HasRoom == Len(queue) < QueueCap

\* requests <- req, which blocks while the channel is full.
Send ==
  /\ main = "send"
  /\ HasRoom
  /\ queue' = Append(queue, cur)
  /\ main' = "read"
  /\ UNCHANGED <<cur, cmd, closed, wpc, wreq, flight, pop, client, out>>

\* reader.Read returns the close request: close(requests).
ReadClose ==
  /\ main = "read"
  /\ cur' = CloseReq
  /\ closed' = TRUE
  /\ main' = "close"
  /\ UNCHANGED <<cmd, queue, wpc, wreq, flight, pop, client, out>>

\* reader.Read fails, at the end of the input or at a line it cannot decode: the
\* loop ends, close(requests).
ReadFails ==
  /\ main = "read"
  /\ closed' = TRUE
  /\ main' = "drain"
  /\ UNCHANGED <<cur, cmd, queue, wpc, wreq, flight, pop, client, out>>

\* Mutant: close(requests) without wg.Wait().
WorkersDone_Skipped == closed

\* wg.Wait() returns: every worker has left its loop.
WorkersDone == \A w \in Worker : wpc[w] = "done"

\* Run returns.  When its input ended without a close request, the populates that
\* are still running end with the process.
Return ==
  /\ main = "drain"
  /\ WorkersDone
  /\ main' = "exit"
  /\ UNCHANGED <<cur, cmd, queue, closed, wpc, wreq, flight, pop, client, out>>

BeginClose ==
  /\ main = "close"
  /\ WorkersDone
  /\ main' = "remoteWait"
  /\ UNCHANGED <<cur, cmd, queue, closed, wpc, wreq, flight, pop, client, out>>

\* Mutant: handleClose without RemoteWg.Wait().
PopulatesDone_Skipped == TRUE

\* handleClose: h.RemoteWg.Wait() returns.
PopulatesDone == \A r \in Req : pop[r] \in {"none", "done"}

\* handleClose: RemoteWg.Wait, UnpinAll, Trim, Client.Close.
HandleClose ==
  /\ main = "remoteWait"
  /\ PopulatesDone
  /\ client' = IF client = "open" THEN "closed" ELSE client
  /\ main' = "answer"
  /\ UNCHANGED <<cur, cmd, queue, closed, wpc, wreq, flight, pop, out>>

\* The response to the close request is written; what is left is to return.
AnswerClose ==
  /\ main = "answer"
  /\ out' = Append(out, cur)
  /\ main' = "drain"
  /\ UNCHANGED <<cur, cmd, queue, closed, wpc, wreq, flight, pop, client>>

-----------------------------------------------------------------------------
(* A worker *)

Goto(w, step) == wpc' = [wpc EXCEPT ![w] = step]

Alive == main # "exit"

Handles(w, c) == wpc[w] = "work" /\ cmd[wreq[w]] = c

KeyAt(w) == KeyOf[wreq[w]]

\* for req := range requests
Take(w) ==
  /\ Alive
  /\ wpc[w] = "idle"
  /\ queue # <<>>
  /\ wreq' = [wreq EXCEPT ![w] = Head(queue)]
  /\ queue' = Tail(queue)
  /\ Goto(w, "work")
  /\ UNCHANGED <<main, cur, cmd, closed, flight, pop, client, out>>

\* The channel is closed and empty: wg.Done().
Leave(w) ==
  /\ Alive
  /\ wpc[w] = "idle"
  /\ queue = <<>> /\ closed
  /\ Goto(w, "done")
  /\ UNCHANGED <<main, cur, cmd, queue, closed, wreq, flight, pop, client, out>>

\* HandleGet: Lookup hits, or finds a stub to refill, or nothing; without a client
\* everything but a hit is a miss.
Get(w) ==
  /\ Alive
  /\ Handles(w, "get")
  /\ \E step \in {"write"} \cup (IF client = "none" THEN {} ELSE {"refill", "sf"}) : Goto(w, step)
  /\ UNCHANGED <<main, cur, cmd, queue, closed, wreq, flight, pop, client, out>>

\* refillFromCAS returns a response, or nil and the action cache is asked.
Refill(w) ==
  /\ Alive
  /\ wpc[w] = "refill"
  /\ \E step \in {"write", "sf"} : Goto(w, step)
  /\ UNCHANGED <<main, cur, cmd, queue, closed, wreq, flight, pop, client, out>>

\* sfGroup.Do: the first caller for a key runs the function, the others wait.
Do(w) ==
  /\ Alive
  /\ wpc[w] = "sf"
  /\ LET k == KeyAt(w)
     IN /\ Goto(w, IF flight[k] = None THEN "remote" ELSE "wait")
        /\ flight' = [flight EXCEPT ![k] = IF @ = None THEN w ELSE @]
  /\ UNCHANGED <<main, cur, cmd, queue, closed, wreq, pop, client, out>>

\* Mutant: only the caller that ran the function gets its result.
Shares_No(w, k) == FALSE

\* Worker w waits for the sfGroup.Do call on key k.
Shares(w, k) == wpc[w] = "wait" /\ KeyAt(w) = k

\* remoteACLookup returns, with a hit or a miss: the call on this key is over and
\* everybody who waits for it has the result, to be sent under its own ID.
RemoteACLookup(w) ==
  /\ Alive
  /\ wpc[w] = "remote"
  /\ LET k == KeyAt(w)
     IN /\ flight' = [flight EXCEPT ![k] = None]
        /\ wpc' = [v \in Worker |-> IF v = w \/ Shares(v, k) THEN "write" ELSE wpc[v]]
  /\ UNCHANGED <<main, cur, cmd, queue, closed, wreq, pop, client, out>>

\* HandlePut: rejected, failed, or installed; then, with a client, RemoteWg.Add(1)
\* and a goroutine for the remote.
Put(w) ==
  /\ Alive
  /\ Handles(w, "put")
  /\ \E installed \in BOOLEAN :
       pop' = IF installed /\ client # "none" THEN [pop EXCEPT ![wreq[w]] = "queued"] ELSE pop
  /\ Goto(w, "write")
  /\ UNCHANGED <<main, cur, cmd, queue, closed, wreq, flight, client, out>>

\* Handle: an unknown command.
Unknown(w) ==
  /\ Alive
  /\ Handles(w, "other")
  /\ Goto(w, "write")
  /\ UNCHANGED <<main, cur, cmd, queue, closed, wreq, flight, pop, client, out>>

\* writer.Write(resp), under the writer's mutex.
Write(w) ==
  /\ Alive
  /\ wpc[w] = "write"
  /\ out' = Append(out, wreq[w])
  /\ wreq' = [wreq EXCEPT ![w] = None]
  /\ Goto(w, "idle")
  /\ UNCHANGED <<main, cur, cmd, queue, closed, flight, pop, client>>

-----------------------------------------------------------------------------
(* The goroutine of a put *)

\* remoteSem.Acquire
Acquire(r) ==
  /\ Alive
  /\ pop[r] = "queued"
  /\ Cardinality({q \in Req : pop[q] = "running"}) < SemCap
  /\ pop' = [pop EXCEPT ![r] = "running"]
  /\ UNCHANGED <<main, cur, cmd, queue, closed, wpc, wreq, flight, client, out>>

\* remotePopulate returns, with or without an error: Release, RemoteWg.Done().
Populated(r) ==
  /\ Alive
  /\ pop[r] = "running"
  /\ pop' = [pop EXCEPT ![r] = "done"]
  /\ UNCHANGED <<main, cur, cmd, queue, closed, wpc, wreq, flight, client, out>>

-----------------------------------------------------------------------------

WorkerStep(w) ==
  Take(w) \/ Leave(w) \/ Get(w) \/ Refill(w) \/ Do(w) \/ RemoteACLookup(w) \/ Put(w) \/ Unknown(w)
    \/ Write(w)

PopulateStep(r) == Acquire(r) \/ Populated(r)

MainStep == Send \/ Return \/ BeginClose \/ HandleClose \/ AnswerClose

Next ==
  \/ Handshake \/ ReadClose \/ ReadFails \/ MainStep
  \/ \E r \in Req, c \in Command : Read(r, c)
  \/ \E w \in Worker : WorkerStep(w)
  \/ \E r \in Req : PopulateStep(r)

Spec == Init /\ [][Next]_vars

\* Go schedules every goroutine that can run, and calls to the disk and to the
\* remote return (the remote ones have a deadline).  Input need not arrive.
Fairness ==
  /\ WF_vars(MainStep)
  /\ \A w \in Worker : WF_vars(WorkerStep(w))
  /\ \A r \in Req : WF_vars(PopulateStep(r))

FairSpec == Spec /\ Fairness

-----------------------------------------------------------------------------
(* Properties *)

Asked == {r \in Req : cmd[r] # None} \cup ({cur} \cap {CloseReq})

\* Run with its workers implements the Service: each request that was read is
\* answered once, the close request last, and Run returns only when nothing is
\* left unanswered, whatever ends its input.
Promise == INSTANCE Service WITH asked <- Asked, answers <- out, ended <- main = "exit"

ServiceSpec == Promise!Spec

\* After Client.Close no worker and no populate uses the connection: handleClose
\* runs when the workers are gone and has waited for the populates, none of which
\* is started any more.
NoUseAfterClose ==
  client = "closed" =>
    /\ \A w \in Worker : wpc[w] \notin {"refill", "remote", "wait"}
    /\ \A r \in Req : pop[r] \notin {"queued", "running"}

\* A waiter of a single-flight lookup has somebody to wait for.
WaitersHaveLeader ==
  \A w \in Worker : wpc[w] = "wait" =>
    \E v \in Worker : flight[KeyAt(w)] = v /\ wpc[v] = "remote" /\ KeyAt(v) = KeyAt(w)

\* Every request that was read is answered, and the input ends the program.
AllAnswered ==
  /\ \A r \in Req : cmd[r] # None ~> r \in {out[i] : i \in DOMAIN out}
  /\ closed ~> main = "exit"

=============================================================================
