---------------------------- MODULE ServerProofs ----------------------------
(***************************************************************************)
(* Proofs about Server, for any requests, workers and capacities: its      *)
(* types, that the connection is closed under nobody, that waiters have a  *)
(* leader, and that it implements Service.                                 *)
(***************************************************************************)
EXTENDS Server, TLAPS

Busy(w) == wpc[w] \notin {"idle", "done"}

\* Where a request is.
InQueue(r) == \E i \in DOMAIN queue : queue[i] = r
IsHeld(r)  == \E w \in Worker : Busy(w) /\ wreq[w] = r
IsSent(r)  == main = "send" /\ cur = r
IsOut(r)   == \E i \in DOMAIN out : out[i] = r

\* Requests that are worked on or sent are requests for the workers, each of them
\* in one place only.
Places ==
  /\ main = "send" => cur \in Req
  /\ \A w \in Worker : Busy(w) => wreq[w] \in Req
  /\ \A v, w \in Worker : Busy(v) /\ Busy(w) /\ wreq[v] = wreq[w] => v = w
  /\ \A i, j \in DOMAIN queue : queue[i] = queue[j] => i = j
  /\ \A r \in Req :
       /\ cmd[r] # None <=> InQueue(r) \/ IsHeld(r) \/ IsSent(r) \/ IsOut(r)
       /\ ~(InQueue(r) /\ IsHeld(r)) /\ ~(InQueue(r) /\ IsSent(r)) /\ ~(InQueue(r) /\ IsOut(r))
       /\ ~(IsHeld(r) /\ IsSent(r)) /\ ~(IsHeld(r) /\ IsOut(r)) /\ ~(IsSent(r) /\ IsOut(r))

\* How far the end of the session has come.
Closing ==
  /\ main = "handshake" => cur = None /\ out = <<>> /\ \A r \in Req : cmd[r] = None
  /\ main \in {"handshake", "read", "send"} => ~closed
  /\ main \in {"close", "drain", "remoteWait", "answer"} => closed
  /\ \A w \in Worker : wpc[w] = "done" => closed /\ queue = <<>>
  /\ main \in {"remoteWait", "answer"} => WorkersDone
  /\ main = "answer" => PopulatesDone
  /\ client = "closed" => WorkersDone /\ PopulatesDone
  /\ main \in {"close", "remoteWait", "answer"} => cur = CloseReq
  /\ main \in {"handshake", "read", "send"} => cur # CloseReq
  /\ IsOut(CloseReq) <=> cur = CloseReq /\ main \in {"drain", "exit"}

\* A call of sfGroup.Do that is registered runs, for the key it is registered for.
Flights ==
  /\ \A k \in Key : flight[k] # None =>
       wpc[flight[k]] = "remote" /\ KeyAt(flight[k]) = k
  /\ \A w \in Worker : wpc[w] = "wait" => flight[KeyAt(w)] # None

ServerInv == TypeOK /\ Places /\ Closing /\ Flights

\* The initial states satisfy the invariant.
LEMMA ServerInit == Init => ServerInv
<1> SUFFICES ASSUME Init PROVE ServerInv
  OBVIOUS
<1> USE ServerAssumption DEF Init
<1>1. TypeOK
  <2>1. closed \in BOOLEAN
    BY Zenon
  <2>2. queue \in Seq(Req) /\ out \in Seq(Req \cup {CloseReq}) /\ Len(queue) <= QueueCap
    OBVIOUS
  <2> QED BY <2>1, <2>2 DEF TypeOK, Command
<1>2. Places
  BY DEF Places, Busy, InQueue, IsHeld, IsSent, IsOut
<1>3. Closing
  BY DEF Closing, IsOut
<1>4. Flights
  BY DEF Flights
<1> QED BY <1>1, <1>2, <1>3, <1>4 DEF ServerInv

\* What Append and Tail do to the elements of a sequence without duplicates.
LEMMA AppendElements ==
  ASSUME NEW S, NEW s \in Seq(S), NEW e \in S
  PROVE  \A r : (\E i \in DOMAIN Append(s, e) : Append(s, e)[i] = r)
                   <=> (\E i \in DOMAIN s : s[i] = r) \/ r = e
<1>1. /\ DOMAIN Append(s, e) = 1..(Len(s) + 1) /\ DOMAIN s = 1..Len(s) /\ Len(s) \in Nat
      /\ Append(s, e)[Len(s) + 1] = e
      /\ \A i \in 1..Len(s) : Append(s, e)[i] = s[i]
  OBVIOUS
<1> QED BY <1>1

LEMMA TailElements ==
  ASSUME NEW S, NEW s \in Seq(S), s # <<>>,
         \A i, j \in DOMAIN s : s[i] = s[j] => i = j
  PROVE  /\ \A r : (\E i \in DOMAIN Tail(s) : Tail(s)[i] = r)
                      <=> (\E i \in DOMAIN s : s[i] = r) /\ r # Head(s)
         /\ \E i \in DOMAIN s : s[i] = Head(s)
         /\ \A i, j \in DOMAIN Tail(s) : Tail(s)[i] = Tail(s)[j] => i = j
<1>1. /\ DOMAIN Tail(s) = 1..(Len(s) - 1) /\ DOMAIN s = 1..Len(s)
      /\ Len(s) \in Nat \ {0} /\ Head(s) = s[1]
      /\ \A i \in 1..(Len(s) - 1) : Tail(s)[i] = s[i + 1]
  OBVIOUS
<1>2. \A i \in 1..(Len(s) - 1) : i + 1 \in DOMAIN s /\ i + 1 # 1
  BY <1>1
<1>3. \A i \in DOMAIN s : i # 1 => i - 1 \in 1..(Len(s) - 1) /\ (i - 1) + 1 = i
  BY <1>1
<1>4. 1 \in DOMAIN s
  BY <1>1
<1>5. ASSUME NEW r, NEW i \in DOMAIN Tail(s), Tail(s)[i] = r
      PROVE  (\E j \in DOMAIN s : s[j] = r) /\ r # Head(s)
  BY <1>1, <1>2, <1>4, <1>5
<1>6. ASSUME NEW r, NEW i \in DOMAIN s, s[i] = r, r # Head(s)
      PROVE  \E j \in DOMAIN Tail(s) : Tail(s)[j] = r
  <2>1. i # 1
    BY <1>1, <1>6
  <2> QED BY <1>1, <1>3, <1>6, <2>1
<1>7. ASSUME NEW i \in DOMAIN Tail(s), NEW j \in DOMAIN Tail(s), Tail(s)[i] = Tail(s)[j] PROVE i = j
  <2>1. i + 1 = j + 1
    BY <1>1, <1>2, <1>7
  <2> QED BY <1>1, <2>1
<1> QED BY <1>1, <1>4, <1>5, <1>6, <1>7

\* Every step keeps the variables within their types.
LEMMA ServerTypeStep == ASSUME ServerInv, [Next]_vars PROVE TypeOK'
<1> USE ServerAssumption DEF ServerInv
<1>1. CASE Handshake \/ Return \/ BeginClose
  BY <1>1 DEF Handshake, Return, BeginClose, TypeOK
<1>2. CASE ReadClose \/ ReadFails
  <2>1. closed' \in BOOLEAN
    BY <1>2, Zenon DEF ReadClose, ReadFails
  <2> QED BY <1>2, <2>1 DEF ReadClose, ReadFails, TypeOK
<1>3. CASE Send
  <2>1. queue' \in Seq(Req) /\ Len(queue') <= QueueCap
    BY <1>3 DEF Send, HasRoom, TypeOK, Places
  <2> QED BY <1>3, <2>1 DEF Send, TypeOK
<1>4. CASE HandleClose
  BY <1>4 DEF HandleClose, TypeOK
<1>5. CASE AnswerClose
  <2>1. out' \in Seq(Req \cup {CloseReq})
    BY <1>5 DEF AnswerClose, TypeOK, Closing
  <2> QED BY <1>5, <2>1 DEF AnswerClose, TypeOK
<1>6. ASSUME NEW r \in Req, NEW c \in Command, Read(r, c) PROVE TypeOK'
  BY <1>6 DEF Read, TypeOK
<1>7. ASSUME NEW w \in Worker, WorkerStep(w) PROVE TypeOK'
  <2>1. CASE Take(w)
    <3>1. Head(queue) \in Req /\ Tail(queue) \in Seq(Req) /\ Len(Tail(queue)) <= QueueCap
      BY <2>1 DEF Take, TypeOK
    <3> QED BY <2>1, <3>1 DEF Take, Goto, TypeOK
  <2>2. CASE Leave(w) \/ Get(w) \/ Refill(w) \/ Unknown(w)
    BY <2>2, ZenonT(30) DEF Leave, Get, Refill, Unknown, Goto, TypeOK
  <2>3. CASE Do(w)
    BY <2>3 DEF Do, Goto, TypeOK
  <2>4. CASE RemoteACLookup(w)
    BY <2>4 DEF RemoteACLookup, TypeOK
  <2>5. CASE Put(w)
    <3>1. pop' \in [Req -> {"none", "queued", "running", "done"}]
      BY <2>5 DEF Put, TypeOK
    <3> QED BY <2>5, <3>1 DEF Put, Goto, TypeOK
  <2>6. CASE Write(w)
    <3>1. out' \in Seq(Req \cup {CloseReq})
      BY <2>6 DEF Write, TypeOK, Places, Busy
    <3> QED BY <2>6, <3>1 DEF Write, Goto, TypeOK
  <2> QED BY <1>7, <2>1, <2>2, <2>3, <2>4, <2>5, <2>6 DEF WorkerStep
<1>8. ASSUME NEW r \in Req, PopulateStep(r) PROVE TypeOK'
  BY <1>8 DEF PopulateStep, Acquire, Populated, TypeOK
<1>9. CASE UNCHANGED vars
  BY <1>9 DEF vars, TypeOK
<1> QED BY <1>1, <1>2, <1>3, <1>4, <1>5, <1>6, <1>7, <1>8, <1>9 DEF Next, MainStep

\* Steps that move no request keep every request in its place.
LEMMA NothingMoves ==
  ASSUME ServerInv, UNCHANGED <<cmd, queue, wreq, out>>,
         \A w \in Worker : Busy(w)' <=> Busy(w),
         main' # "send", main # "send"
  PROVE  Places'
BY DEF ServerInv, Places, InQueue, IsHeld, IsSent, IsOut

\* The same for steps that leave Run alone.
LEMMA NothingMovesInWorkers ==
  ASSUME ServerInv, UNCHANGED <<cmd, queue, wreq, out, main, cur>>,
         \A w \in Worker : Busy(w)' <=> Busy(w)
  PROVE  Places'
BY DEF ServerInv, Places, InQueue, IsHeld, IsSent, IsOut

\* Every step keeps each request in one place.
LEMMA PlacesStep == ASSUME ServerInv, [Next]_vars PROVE Places'
<1> USE ServerAssumption
<1>1. CASE Handshake \/ Return \/ BeginClose \/ ReadClose \/ ReadFails \/ HandleClose
  BY <1>1, NothingMoves DEF Handshake, Return, BeginClose, ReadClose, ReadFails, HandleClose, Busy
<1>2. CASE Send
  <2>1. \A r : InQueue(r)' <=> InQueue(r) \/ r = cur
    <3>1. queue \in Seq(Req) /\ cur \in Req /\ queue' = Append(queue, cur)
      BY <1>2 DEF Send, ServerInv, TypeOK, Places
    <3> QED BY <3>1, AppendElements DEF InQueue
  <2>2. \A r \in Req : /\ IsHeld(r)' <=> IsHeld(r)
                       /\ IsOut(r)' <=> IsOut(r)
                       /\ ~IsSent(r)'
                       /\ IsSent(r) <=> r = cur
    BY <1>2 DEF Send, IsHeld, IsOut, IsSent, Busy
  <2>3. \A i, j \in DOMAIN queue' : queue'[i] = queue'[j] => i = j
    <3>1. /\ DOMAIN queue' = 1..(Len(queue) + 1) /\ DOMAIN queue = 1..Len(queue) /\ Len(queue) \in Nat
          /\ queue'[Len(queue) + 1] = cur
          /\ \A i \in 1..Len(queue) : queue'[i] = queue[i]
      BY <1>2 DEF Send, ServerInv, TypeOK, Places
    <3>2. \A i \in 1..Len(queue) : queue[i] # cur
      BY <1>2, <3>1, <2>2 DEF Send, ServerInv, Places, InQueue
    <3> QED BY <3>1, <3>2 DEF ServerInv, Places
  <2> QED BY <1>2, <2>1, <2>2, <2>3 DEF Send, ServerInv, Places, Busy
<1>3. CASE AnswerClose
  <2>1. \A r : IsOut(r)' <=> IsOut(r) \/ r = CloseReq
    <3>1. out \in Seq(Req \cup {CloseReq}) /\ CloseReq \in Req \cup {CloseReq} /\ out' = Append(out, CloseReq)
      BY <1>3 DEF AnswerClose, ServerInv, TypeOK, Closing
    <3> QED BY <3>1, AppendElements DEF IsOut
  <2>2. \A r \in Req : /\ IsHeld(r)' <=> IsHeld(r)
                       /\ InQueue(r)' <=> InQueue(r)
                       /\ IsSent(r)' <=> IsSent(r)
    BY <1>3 DEF AnswerClose, IsHeld, InQueue, IsSent, Busy
  <2> QED BY <1>3, <2>1, <2>2 DEF AnswerClose, ServerInv, Places, Busy
<1>4. ASSUME NEW q \in Req, NEW c \in Command, Read(q, c) PROVE Places'
  <2>1. \A r \in Req : /\ IsHeld(r)' <=> IsHeld(r)
                       /\ InQueue(r)' <=> InQueue(r)
                       /\ IsOut(r)' <=> IsOut(r)
                       /\ ~IsSent(r)
                       /\ IsSent(r)' <=> r = q
    BY <1>4 DEF Read, IsHeld, InQueue, IsOut, IsSent, Busy
  <2>2. cmd[q] = None /\ cmd'[q] # None /\ \A r \in Req \ {q} : cmd'[r] = cmd[r]
    BY <1>4 DEF Read, Command, None, ServerInv, TypeOK
  <2>3. ~InQueue(q) /\ ~IsHeld(q) /\ ~IsOut(q)
    BY <2>2 DEF ServerInv, Places
  <2> QED BY <1>4, <2>1, <2>2, <2>3 DEF Read, ServerInv, Places, Busy
<1>5. ASSUME NEW w \in Worker, WorkerStep(w) PROVE Places'
  <2>1. CASE Take(w)
    <3> DEFINE q == Head(queue)
    <3>1. /\ \A r : InQueue(r)' <=> InQueue(r) /\ r # q
          /\ InQueue(q)
          /\ \A i, j \in DOMAIN queue' : queue'[i] = queue'[j] => i = j
      <4>1. /\ queue \in Seq(Req) /\ queue # <<>> /\ queue' = Tail(queue)
            /\ \A i, j \in DOMAIN queue : queue[i] = queue[j] => i = j
        BY <2>1 DEF Take, ServerInv, TypeOK, Places
      <4> QED BY <4>1, TailElements, ZenonT(30) DEF InQueue
    <3>2. /\ q \in Req
          /\ ~Busy(w) /\ Busy(w)' /\ wreq'[w] = q
          /\ \A v \in Worker \ {w} : (Busy(v)' <=> Busy(v)) /\ wreq'[v] = wreq[v]
      BY <2>1 DEF Take, Goto, Busy, ServerInv, TypeOK
    <3> HIDE DEF q
    <3>3. \A r \in Req : IsHeld(r)' <=> IsHeld(r) \/ r = q
      BY <3>2 DEF IsHeld
    <3>4. \A r \in Req : (IsOut(r)' <=> IsOut(r)) /\ (IsSent(r)' <=> IsSent(r))
      BY <2>1 DEF Take, IsOut, IsSent
    <3>5. ~IsHeld(q) /\ ~IsOut(q) /\ ~IsSent(q)
      BY <3>1, <3>2 DEF ServerInv, Places
    <3>6. \A u, v \in Worker : Busy(u)' /\ Busy(v)' /\ wreq'[u] = wreq'[v] => u = v
      BY <3>2, <3>5 DEF ServerInv, Places, IsHeld
    <3>7. UNCHANGED <<cmd, main, cur>>
      BY <2>1 DEF Take
    <3>8. \A v \in Worker : Busy(v)' => wreq'[v] \in Req
      BY <3>2 DEF ServerInv, Places
    <3>9. main' = "send" => cur' \in Req
      BY <3>7 DEF ServerInv, Places
    <3>10. \A r \in Req :
             /\ cmd'[r] # None <=> InQueue(r)' \/ IsHeld(r)' \/ IsSent(r)' \/ IsOut(r)'
             /\ ~(InQueue(r)' /\ IsHeld(r)') /\ ~(InQueue(r)' /\ IsSent(r)') /\ ~(InQueue(r)' /\ IsOut(r)')
             /\ ~(IsHeld(r)' /\ IsSent(r)') /\ ~(IsHeld(r)' /\ IsOut(r)') /\ ~(IsSent(r)' /\ IsOut(r)')
      BY <3>1, <3>3, <3>4, <3>5, <3>7 DEF ServerInv, Places
    <3> QED BY <3>1, <3>6, <3>8, <3>9, <3>10 DEF Places
  <2>2. CASE Leave(w) \/ Get(w) \/ Refill(w) \/ Unknown(w) \/ Put(w) \/ Do(w)
    BY <2>2, NothingMovesInWorkers
    DEF Leave, Get, Refill, Unknown, Put, Do, Goto, Handles, Busy, ServerInv, TypeOK
  <2>3. CASE RemoteACLookup(w)
    BY <2>3, NothingMovesInWorkers DEF RemoteACLookup, Shares, Busy, ServerInv, TypeOK
  <2>4. CASE Write(w)
    <3> DEFINE q == wreq[w]
    <3>1. /\ q \in Req
          /\ Busy(w) /\ ~Busy(w)'
          /\ \A v \in Worker \ {w} : (Busy(v)' <=> Busy(v)) /\ wreq'[v] = wreq[v]
      BY <2>4 DEF Write, Goto, Busy, ServerInv, TypeOK, Places
    <3>2. \A r : IsOut(r)' <=> IsOut(r) \/ r = q
      <4>1. out \in Seq(Req \cup {CloseReq}) /\ q \in Req \cup {CloseReq} /\ out' = Append(out, q)
        BY <2>4, <3>1 DEF Write, ServerInv, TypeOK
      <4> QED BY <4>1, AppendElements DEF IsOut
    <3>3. \A r \in Req : IsHeld(r)' <=> IsHeld(r) /\ r # q
      BY <3>1 DEF IsHeld, ServerInv, Places
    <3>4. \A r \in Req : (InQueue(r)' <=> InQueue(r)) /\ (IsSent(r)' <=> IsSent(r))
      BY <2>4 DEF Write, InQueue, IsSent
    <3>5. IsHeld(q)
      BY <3>1 DEF IsHeld
    <3>6. UNCHANGED <<cmd, main, cur, queue>>
      BY <2>4 DEF Write
    <3> HIDE DEF q
    <3>7. /\ \A v \in Worker : Busy(v)' => wreq'[v] \in Req
          /\ \A u, v \in Worker : Busy(u)' /\ Busy(v)' /\ wreq'[u] = wreq'[v] => u = v
      BY <3>1 DEF ServerInv, Places
    <3>8. \A r \in Req :
             /\ cmd'[r] # None <=> InQueue(r)' \/ IsHeld(r)' \/ IsSent(r)' \/ IsOut(r)'
             /\ ~(InQueue(r)' /\ IsHeld(r)') /\ ~(InQueue(r)' /\ IsSent(r)') /\ ~(InQueue(r)' /\ IsOut(r)')
             /\ ~(IsHeld(r)' /\ IsSent(r)') /\ ~(IsHeld(r)' /\ IsOut(r)') /\ ~(IsSent(r)' /\ IsOut(r)')
      BY <3>1, <3>2, <3>3, <3>4, <3>5, <3>6 DEF ServerInv, Places
    <3> QED BY <3>6, <3>7, <3>8 DEF ServerInv, Places
  <2> QED BY <1>5, <2>1, <2>2, <2>3, <2>4 DEF WorkerStep
<1>6. ASSUME NEW r \in Req, PopulateStep(r) PROVE Places'
  BY <1>6, NothingMovesInWorkers DEF PopulateStep, Acquire, Populated, Busy
<1>7. CASE UNCHANGED vars
  BY <1>7, NothingMovesInWorkers DEF vars, Busy
<1> QED BY <1>1, <1>2, <1>3, <1>4, <1>5, <1>6, <1>7 DEF Next, MainStep

\* Every step keeps to the order of the end of the session.
LEMMA ClosingStep == ASSUME ServerInv, [Next]_vars PROVE Closing'
<1> USE ServerAssumption
<1> USE DEF WorkersDone, PopulatesDone, IsOut
<1>1. CASE Handshake \/ Return \/ BeginClose \/ ReadClose \/ ReadFails
  BY <1>1 DEF Handshake, Return, BeginClose, ReadClose, ReadFails, ServerInv, Closing, TypeOK
<1>2. CASE Send
  BY <1>2 DEF Send, ServerInv, Closing, TypeOK
<1>3. CASE HandleClose
  BY <1>3 DEF HandleClose, ServerInv, Closing, TypeOK
<1>4. CASE AnswerClose
  <2>1. IsOut(CloseReq)'
    <3>1. out \in Seq(Req \cup {CloseReq}) /\ CloseReq \in Req \cup {CloseReq} /\ out' = Append(out, CloseReq)
      BY <1>4 DEF AnswerClose, ServerInv, TypeOK, Closing
    <3> QED BY <3>1, AppendElements
  <2> QED BY <1>4, <2>1 DEF AnswerClose, ServerInv, Closing
<1>5. ASSUME NEW q \in Req, NEW c \in Command, Read(q, c) PROVE Closing'
  BY <1>5 DEF Read, ServerInv, Closing
<1>6. ASSUME NEW w \in Worker, WorkerStep(w) PROVE Closing'
  <2>1. ~WorkersDone /\ Alive /\ UNCHANGED <<main, cur, closed, client, cmd>>
    BY <1>6 DEF WorkerStep, Take, Leave, Get, Refill, Do, RemoteACLookup, Put, Unknown, Write, Handles
  <2>2. client # "closed" /\ main \notin {"remoteWait", "answer"}
    BY <2>1 DEF ServerInv, Closing
  <2>3. main # "handshake" \/ out' = out
    <3>1. CASE Write(w)
      BY <3>1 DEF Write, ServerInv, Closing, Places, Busy, IsHeld
    <3>2. CASE ~Write(w)
      BY <1>6, <3>2 DEF WorkerStep, Take, Leave, Get, Refill, Do, RemoteACLookup, Put, Unknown
    <3> QED BY <3>1, <3>2
  <2>4. IsOut(CloseReq)' <=> IsOut(CloseReq)
    <3>1. CASE Write(w)
      <4>1. /\ out \in Seq(Req \cup {CloseReq}) /\ out' = Append(out, wreq[w])
            /\ wreq[w] \in Req \cup {CloseReq} /\ wreq[w] # CloseReq
        BY <3>1 DEF Write, ServerInv, TypeOK, Places, Busy
      <4> QED BY <4>1, AppendElements
    <3>2. CASE ~Write(w)
      BY <1>6, <3>2 DEF WorkerStep, Take, Leave, Get, Refill, Do, RemoteACLookup, Put, Unknown
    <3> QED BY <3>1, <3>2
  <2>5. \A v \in Worker : wpc'[v] = "done" => closed /\ queue' = <<>>
    <3>1. CASE Take(w)
      BY <3>1 DEF Take, Goto, ServerInv, Closing, TypeOK
    <3>2. CASE Leave(w)
      BY <3>2 DEF Leave
    <3>3. CASE ~Take(w) /\ ~Leave(w)
      BY <1>6, <3>3
      DEF WorkerStep, Get, Refill, Do, RemoteACLookup, Put, Unknown, Write, Goto, ServerInv, Closing, TypeOK
    <3> QED BY <3>1, <3>2, <3>3
  <2> QED BY <2>1, <2>2, <2>3, <2>4, <2>5 DEF ServerInv, Closing
<1>7. ASSUME NEW r \in Req, PopulateStep(r) PROVE Closing'
  BY <1>7 DEF PopulateStep, Acquire, Populated, ServerInv, Closing, TypeOK
<1>8. CASE UNCHANGED vars
  BY <1>8 DEF vars, ServerInv, Closing
<1> QED BY <1>1, <1>2, <1>3, <1>4, <1>5, <1>6, <1>7, <1>8 DEF Next, MainStep

\* Every step keeps the calls of sfGroup.Do registered for as long as they run.
LEMMA FlightsStep == ASSUME ServerInv, [Next]_vars PROVE Flights'
<1> USE ServerAssumption DEF KeyAt
<1>1. CASE UNCHANGED <<wpc, wreq, flight>>
  BY <1>1 DEF ServerInv, Flights
<1>2. ASSUME NEW w \in Worker, WorkerStep(w) PROVE Flights'
  <2>1. CASE Take(w) \/ Write(w) \/ Leave(w)
    BY <2>1, SMTT(30) DEF Take, Write, Leave, Goto, ServerInv, TypeOK, Flights
  <2>2. CASE Get(w) \/ Refill(w) \/ Put(w) \/ Unknown(w)
    BY <2>2 DEF Get, Refill, Put, Unknown, Handles, Goto, ServerInv, TypeOK, Flights
  <2>3. CASE Do(w)
    <3>1. wreq[w] \in Req /\ KeyAt(w) \in Key
      BY <2>3 DEF Do, ServerInv, Places, Busy
    <3> QED BY <2>3, <3>1 DEF Do, Goto, ServerInv, TypeOK, Flights
  <2>4. CASE RemoteACLookup(w)
    <3>1. wreq[w] \in Req /\ KeyAt(w) \in Key
      BY <2>4 DEF RemoteACLookup, ServerInv, Places, Busy
    <3>2. \A v \in Worker : wpc[v] = "wait" => KeyAt(v) \in Key
      BY DEF ServerInv, Places, Busy
    <3> QED BY <2>4, <3>1, <3>2 DEF RemoteACLookup, Shares, ServerInv, TypeOK, Flights
  <2> QED BY <1>2, <2>1, <2>2, <2>3, <2>4 DEF WorkerStep
<1> QED BY <1>1, <1>2
    DEF Next, MainStep, Handshake, Return, BeginClose, ReadClose, ReadFails, Send, HandleClose,
        AnswerClose, Read, PopulateStep, Acquire, Populated, vars

\* The invariant holds in every reachable state: requests are in one place at a
\* time, the session ends in order, and registered lookups run.
THEOREM ServerInvariant == Spec => []ServerInv
<1>1. ServerInv /\ [Next]_vars => ServerInv'
  BY ServerTypeStep, PlacesStep, ClosingStep, FlightsStep DEF ServerInv
<1> QED BY <1>1, ServerInit, PTL DEF Spec

\* The request loop stays within its types; in particular its channel never holds
\* more requests than it has room for.
THEOREM ServerTypes == Spec => []TypeOK
<1>1. ServerInv => TypeOK
  BY DEF ServerInv
<1> QED BY <1>1, ServerInvariant, PTL

\* No worker and no populate of a put uses the connection once handleClose has
\* closed it.
THEOREM ConnectionOutlivesItsUsers == Spec => []NoUseAfterClose
<1>1. ServerInv => NoUseAfterClose
  BY DEF ServerInv, Closing, WorkersDone, PopulatesDone, NoUseAfterClose
<1> QED BY <1>1, ServerInvariant, PTL

\* A get that waits for the lookup of another get waits for one that runs.
THEOREM WaitersAreServed == Spec => []WaitersHaveLeader
<1>1. ServerInv => WaitersHaveLeader
  BY ServerAssumption DEF ServerInv, TypeOK, Places, Busy, Flights, KeyAt, WaitersHaveLeader
<1> QED BY <1>1, ServerInvariant, PTL

\* What was asked and what was answered, by the place of each request.
LEMMA AskedAnswered ==
  ASSUME ServerInv
  PROVE  /\ Asked \subseteq Req \cup {CloseReq} /\ Promise!answered \subseteq Req \cup {CloseReq}
         /\ \A r \in Req : r \in Asked <=> cmd[r] # None
         /\ CloseReq \in Asked <=> cur = CloseReq
         /\ \A r : r \in Promise!answered <=> IsOut(r)
<1>1. \A i \in DOMAIN out : out[i] \in Req \cup {CloseReq}
  BY DEF ServerInv, TypeOK
<1> QED BY <1>1, ServerAssumption DEF Asked, Promise!answered, IsOut

\* When the workers are gone and nothing is being sent, the requests that were
\* read are those that were answered.
LEMMA WorkersLeaveNothing ==
  ASSUME ServerInv, WorkersDone, main # "send"
  PROVE  \A r \in Req : cmd[r] # None <=> IsOut(r)
<1>1. queue = <<>>
  <2>1. CASE Worker = {}
    BY <2>1, ServerAssumption DEF ServerInv, TypeOK
  <2>2. CASE Worker # {}
    BY <2>2 DEF ServerInv, Closing, WorkersDone
  <2> QED BY <2>1, <2>2
<1>2. \A r \in Req : ~InQueue(r) /\ ~IsHeld(r) /\ ~IsSent(r)
  BY <1>1 DEF InQueue, IsHeld, IsSent, Busy, WorkersDone
<1> QED BY <1>2 DEF ServerInv, Places

\* Every step of the server is a step of the Service or changes nothing in it.
LEMMA ServiceStep ==
  ASSUME ServerInv, [Next]_vars
  PROVE  [Promise!Next]_<<Asked, out, main = "exit">>
<1> DEFINE Stutter == UNCHANGED <<Asked, out, main = "exit">>
<1> USE ServerAssumption
<1>1. ASSUME main # "exit", main' # "exit", UNCHANGED <<cmd, out>>,
             cur' = CloseReq <=> cur = CloseReq
      PROVE  Stutter
  <2>1. Asked' = Asked
    BY <1>1 DEF Asked
  <2>2. (main = "exit")' = (main = "exit")
    BY <1>1
  <2> QED BY <1>1, <2>1, <2>2
<1>2. ASSUME main # "exit", main' = "exit", UNCHANGED <<cmd, out, cur>>, Asked = Promise!answered
      PROVE  Promise!End
  BY <1>2, Zenon DEF Promise!End, Asked
<1>3. CASE Handshake
  <2>1. Asked = {} /\ Promise!answered = {}
    BY <1>3 DEF Handshake, ServerInv, Closing, Asked, Promise!answered
  <2> QED BY <1>3, <2>1, <1>1, <1>2 DEF Handshake, Promise!Next
<1>4. CASE Return
  <2>1. Asked = Promise!answered
    BY <1>4, AskedAnswered, WorkersLeaveNothing DEF Return, ServerInv, Closing
  <2> QED BY <1>4, <2>1, <1>2 DEF Return, Promise!Next
<1>5. CASE Send \/ ReadFails \/ BeginClose \/ HandleClose
  BY <1>5, <1>1 DEF Send, ReadFails, BeginClose, HandleClose
<1>6. CASE ReadClose
  <2>1. Promise!Ask(CloseReq)
    <3>1. CloseReq \notin Asked /\ Asked' = Asked \cup {CloseReq}
      BY <1>6 DEF ReadClose, ServerInv, Closing, Asked
    <3>2. main # "exit" /\ main' # "exit" /\ out' = out
      BY <1>6 DEF ReadClose
    <3> QED BY <3>1, <3>2, Zenon DEF Promise!Ask
  <2> QED BY <2>1 DEF Promise!Next
<1>7. ASSUME NEW q \in Req, NEW c \in Command, Read(q, c) PROVE Promise!Next
  <2>1. Promise!Ask(q)
    <3>1. CloseReq \notin Asked /\ q \notin Asked /\ Asked' = Asked \cup {q}
      BY <1>7 DEF Read, ServerInv, TypeOK, Closing, Asked, Command, None
    <3>2. main # "exit" /\ main' # "exit" /\ out' = out
      BY <1>7 DEF Read
    <3> QED BY <3>1, <3>2, Zenon DEF Promise!Ask
  <2> QED BY <2>1 DEF Promise!Next
<1>8. CASE AnswerClose
  <2>1. Promise!Answer(CloseReq)
    <3>1. CloseReq \in Asked \ Promise!answered
      BY <1>8, AskedAnswered DEF AnswerClose, ServerInv, Closing
    <3>2. Asked \ Promise!answered = {CloseReq}
      BY <1>8, <3>1, AskedAnswered, WorkersLeaveNothing DEF AnswerClose, ServerInv, Closing
    <3>3. main # "exit" /\ main' # "exit" /\ out' = Append(out, CloseReq) /\ Asked' = Asked
      BY <1>8 DEF AnswerClose, ServerInv, Closing, Asked
    <3> QED BY <3>1, <3>2, <3>3, Zenon DEF Promise!Answer
  <2> QED BY <2>1 DEF Promise!Next
<1>9. ASSUME NEW w \in Worker, WorkerStep(w) PROVE Promise!Next \/ Stutter
  <2>1. CASE Write(w)
    <3>1. wreq[w] \in Req /\ IsHeld(wreq[w])
      BY <2>1 DEF Write, ServerInv, Places, Busy, IsHeld
    <3>2. cmd[wreq[w]] # None /\ ~IsOut(wreq[w])
      BY <3>1 DEF ServerInv, Places
    <3>3. wreq[w] \in Asked \ Promise!answered /\ wreq[w] # CloseReq
      BY <3>1, <3>2, AskedAnswered
    <3>4. main # "exit" /\ main' = main /\ out' = Append(out, wreq[w]) /\ Asked' = Asked
      BY <2>1 DEF Write, Alive, Asked
    <3>5. Promise!Answer(wreq[w])
      BY <3>3, <3>4, Zenon DEF Promise!Answer
    <3> QED BY <3>1, <3>5 DEF Promise!Next
  <2>2. CASE ~Write(w)
    BY <1>9, <2>2, <1>1
    DEF WorkerStep, Take, Leave, Get, Refill, Do, RemoteACLookup, Put, Unknown, Alive
  <2> QED BY <2>1, <2>2
<1>10. ASSUME NEW r \in Req, PopulateStep(r) PROVE Stutter
  BY <1>10, <1>1 DEF PopulateStep, Acquire, Populated, Alive
<1>11. CASE UNCHANGED vars
  <2>1. Asked' = Asked /\ out' = out /\ main' = main
    BY <1>11 DEF vars, Asked
  <2> QED BY <2>1
<1> QED BY <1>3, <1>4, <1>5, <1>6, <1>7, <1>8, <1>9, <1>10, <1>11 DEF Next, MainStep

\* Run with its workers implements the Service: every request that was read is
\* answered once, the close request after all the others, and Run returns only
\* when nothing is left unanswered.
THEOREM ServerImplementsService == Spec => ServiceSpec
<1>1. Init => Promise!Init
  <2> SUFFICES ASSUME Init PROVE Promise!Init
    OBVIOUS
  <2>1. (main = "exit") = FALSE
    BY DEF Init
  <2>2. Asked = {}
    BY ServerAssumption DEF Init, Asked
  <2> QED BY <2>1, <2>2 DEF Init, Promise!Init
<1>2. ServerInv /\ [Next]_vars => [Promise!Next]_<<Asked, out, main = "exit">>
  BY ServiceStep
<1> QED BY <1>1, <1>2, ServerInvariant, PTL DEF Spec, ServiceSpec, Promise!Spec

=============================================================================
