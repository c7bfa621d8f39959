------------------------------ MODULE Protocol ------------------------------
(***************************************************************************)
(* Standard input.  cmd/go, external, writes requests as lines; a put with *)
(* a body is two of them.  Reader.Read takes them off again, line by line. *)
(***************************************************************************)
EXTENDS Integers, Sequences

CONSTANTS
  Body,      \* artifacts: sequences of bytes
  LineMax,      \* what the scanner's buffer can grow to, 64 MiB in the code
  MaxRequests   \* bound: requests per session

\* A request that was not sent the way the protocol wants it.
Garbled == [cmd |-> "garbled", body |-> <<>>]

ASSUME ProtocolAssumption ==
  /\ Body \subseteq Seq(Nat)
  /\ LineMax \in Nat /\ MaxRequests \in Nat

VARIABLES
  lines,    \* the lines on standard input that the scanner has not taken yet
  closed,   \* nothing more will be written
  await,    \* BodySize of the put whose body line is next, 0 if none is
  session,  \* "open", or why Run left its loop: "eof", "error" or "toolong"
  asked,    \* history: the requests, as they were meant
  read      \* the requests that Read has returned

input == <<lines, closed, await, session, asked, read>>

Request == [cmd : {"get", "put"}, body : Body \cup {<<>>}]

RequestLine(c, n) == [kind |-> "request", cmd |-> c, size |-> n]
BodyLine(b) == [kind |-> "body", data |-> b]
Blank == [kind |-> "blank"]
Cut == [kind |-> "cut"]         \* the writer died within a line

ProtocolTypeOK ==
  /\ closed \in BOOLEAN
  /\ await \in Nat
  /\ session \in {"open", "eof", "error", "toolong"}
  /\ asked \in Seq(Request \cup {Garbled})
  /\ read \in Seq(Request)

ProtocolInit ==
  /\ lines = <<>> /\ closed = FALSE
  /\ await = 0 /\ session = "open"
  /\ asked = <<>> /\ read = <<>>

-----------------------------------------------------------------------------
(* External: cmd/go *)

Padding(blank) == IF blank THEN <<Blank>> ELSE <<>>

MayAsk == ~closed /\ Len(asked) < MaxRequests

AskGet(blank) ==
  /\ MayAsk
  /\ lines' = lines \o Padding(blank) \o <<RequestLine("get", 0)>>
  /\ asked' = Append(asked, [cmd |-> "get", body |-> <<>>])
  /\ UNCHANGED <<closed, await, session, read>>

\* Sizes that a put may declare for body b: the right one, one less and one more.
Declarable(b) == {n \in (Len(b) - 1)..(Len(b) + 1) : n >= 0}

\* A put.  One that declares no bytes has no body line, and means an empty body.
AskPut(b, size, blank) ==
  /\ MayAsk
  /\ size = 0 => b = <<>>
  /\ lines' = lines \o Padding(blank) \o <<RequestLine("put", size)>>
                    \o (IF size > 0 THEN Padding(blank) \o <<BodyLine(b)>> ELSE <<>>)
  /\ asked' = Append(asked, IF size = Len(b) THEN [cmd |-> "put", body |-> b] ELSE Garbled)
  /\ UNCHANGED <<closed, await, session, read>>

\* A body line that no request announced, as after a put that wrongly declares no
\* bytes.
StrayBody(b) ==
  /\ MayAsk
  /\ lines' = lines \o <<BodyLine(b)>>
  /\ asked' = Append(asked, Garbled)
  /\ UNCHANGED <<closed, await, session, read>>

\* The input ends: properly, within a line, or between a put and its body.
CloseInput(tail) ==
  /\ ~closed /\ (tail # <<>> => MayAsk)
  /\ closed' = TRUE
  /\ lines' = lines \o tail
  /\ asked' = IF tail = <<>> THEN asked ELSE Append(asked, Garbled)
  /\ UNCHANGED <<await, session, read>>

Tails == {<<>>, <<Cut>>, <<RequestLine("put", 1)>>}

-----------------------------------------------------------------------------
(* Reader.Read, as Run calls it until it returns an error *)

\* A body of n bytes as a JSON string: base64 in quotes.
BodyLineLength(n) == 4 * ((n + 2) \div 3) + 2

\* The scanner finds the end of a line only if line and newline fit into its buffer.
Fits(line) == line.kind = "body" => BodyLineLength(Len(line.data)) + 1 <= LineMax

\* The scanner has the next line.
Scanned(line) ==
  /\ session = "open"
  /\ lines # <<>>
  /\ line = Head(lines)

\* scanNonEmpty.
SkipBlank ==
  /\ Scanned(Blank)
  /\ lines' = Tail(lines)
  /\ UNCHANGED <<closed, await, session, asked, read>>

\* Read goes on to a body line.
HasBody(line) == line.cmd = "put" /\ line.size > 0

\* The request line: Read returns, or goes on to the body line.
ReadRequest(line) ==
  /\ await = 0 /\ Scanned(line) /\ line.kind = "request"
  /\ lines' = Tail(lines)
  /\ IF HasBody(line)
     THEN await' = line.size /\ UNCHANGED read
     ELSE read' = Append(read, [cmd |-> line.cmd, body |-> <<>>]) /\ UNCHANGED await
  /\ UNCHANGED <<closed, session, asked>>

\* Mutant: the declared size is not compared.
BodyGood_AnySize(line) == line.kind = "body" /\ Fits(line)

\* Mutant: a line that just fits is refused.
BodyGood_Strict(line) ==
  line.kind = "body" /\ BodyLineLength(Len(line.data)) + 1 < LineMax /\ Len(line.data) = await

\* The body line fits, decodes and has the declared size.
BodyGood(line) == line.kind = "body" /\ Fits(line) /\ Len(line.data) = await

ReadBody(line) ==
  /\ await > 0 /\ Scanned(line) /\ BodyGood(line)
  /\ lines' = Tail(lines)
  /\ await' = 0
  /\ read' = Append(read, [cmd |-> "put", body |-> line.data])
  /\ UNCHANGED <<closed, session, asked>>

\* Mutant: the loop goes on with the next line after one that Read rejects.
ReadRejects_GoesOn(line) ==
  /\ Scanned(line) /\ line # Blank
  /\ IF await > 0 THEN ~BodyGood(line) ELSE line.kind # "request"
  /\ lines' = Tail(lines) /\ await' = 0
  /\ UNCHANGED <<closed, session, asked, read>>

\* A line that is too long, does not decode or has the wrong size: Read returns an
\* error, and the loop of Run ends.
ReadRejects(line) ==
  /\ Scanned(line) /\ line # Blank
  /\ IF await > 0 THEN ~BodyGood(line) ELSE line.kind # "request"
  /\ session' = IF Fits(line) THEN "error" ELSE "toolong"
  /\ UNCHANGED <<lines, closed, await, asked, read>>

\* End of the input, within a put an error.
ReadEOF ==
  /\ session = "open" /\ closed /\ lines = <<>>
  /\ session' = IF await > 0 THEN "error" ELSE "eof"
  /\ UNCHANGED <<lines, closed, await, asked, read>>

-----------------------------------------------------------------------------

ClientStep ==
  \/ \E blank \in BOOLEAN :
       AskGet(blank) \/ \E b \in Body : \E n \in Declarable(b) : AskPut(b, n, blank)
  \/ \E b \in Body : StrayBody(b)
  \/ \E tail \in Tails : CloseInput(tail)

ReaderStep ==
  \/ SkipBlank \/ ReadEOF
  \/ /\ lines # <<>>
     /\ \/ ReadRequest(Head(lines)) \/ ReadBody(Head(lines)) \/ ReadRejects(Head(lines))

-----------------------------------------------------------------------------
(* Properties *)

\* What Read returns are the first of the requests that cmd/go meant, each put with
\* its own body: nothing is skipped, invented or taken for something else, whatever
\* blank lines, declared sizes that are too small or too large, body lines that no
\* request announced and cut lines come in between.  A put that declares no bytes is
\* an empty put, also if a body line follows: Read looks for one only after a
\* positive size, and rejects that line as the next request.
ReadAsAsked == Len(read) <= Len(asked) /\ read = SubSeq(asked, 1, Len(read))

\* The reader can take request r.
Legible(r) == r # Garbled /\ (r.cmd = "put" /\ r.body # <<>> => Fits(BodyLine(r.body)))

\* The requests that are legible and have only legible ones before them are read in
\* the end: with a bounded number of them, the reader catches up again and again.
AllRead ==
  []<>(\A n \in DOMAIN asked : (\A i \in 1..n : Legible(asked[i])) => Len(read) >= n)

=============================================================================
