--------------------------- MODULE ProtocolProofs ---------------------------
(***************************************************************************)
(* Proofs about the reader of DataPath, for any bodies, any limit on lines *)
(* and any number of requests.                                             *)
(***************************************************************************)
EXTENDS DataPath, SequenceTheorems, TLAPS

Line == [kind : {"request"}, cmd : {"get", "put"}, size : Nat]
          \cup [kind : {"body"}, data : Seq(Nat)] \cup {Blank, Cut}

\* The line is the last one of a request that was written in full.
Final(line) == line.kind = "body" \/ (line.kind = "request" /\ ~HasBody(line))

\* The line may belong to request r, with a declared size of n bytes.
Says(line, r, n) ==
  /\ line.kind = "request" /\ HasBody(line) => line.size = n
  /\ line.kind = "request" /\ ~HasBody(line) => r = [cmd |-> line.cmd, body |-> <<>>]
  /\ line.kind = "body" /\ Len(line.data) = n => r = [cmd |-> "put", body |-> line.data]

\* The lines that are left, line i a part of request own[i] with a declared size of
\* size[own[i]], are those of the requests that are left, in order.
Owned(own, size) ==
  /\ own \in [1..Len(lines) -> Nat] /\ size \in [Nat -> Nat]
  /\ lines # <<>> => own[1] = Len(read) + 1 /\ own[Len(lines)] = Len(asked)
  /\ \A i \in 1..Len(lines) :
       own[i] \in 1..Len(asked) /\ Says(lines[i], asked[own[i]], size[own[i]])
  /\ \A i \in 1..(Len(lines) - 1) :
       own[i + 1] = IF Final(lines[i]) THEN own[i] + 1 ELSE own[i]
  /\ await > 0 => await = size[Len(read) + 1]

\* While the input is open every request on it has been written in full.
Whole ==
  ~closed => IF lines = <<>> THEN Len(read) = Len(asked) /\ await = 0
             ELSE Final(lines[Len(lines)])

InputInv == Whole /\ \E own, size : Owned(own, size)

ReaderInv ==
  /\ ProtocolTypeOK /\ lines \in Seq(Line)
  /\ Len(read) <= Len(asked) /\ \A i \in 1..Len(read) : read[i] = asked[i]
  /\ session = "open" => InputInv

-----------------------------------------------------------------------------

\* Only the empty sequence has length 0.
LEMMA NilLen ==
  ASSUME NEW S, NEW s \in Seq(S)
  PROVE  Len(s) \in Nat /\ (s = <<>> <=> Len(s) = 0)
BY EmptySeq

\* A line is taken off the input, and counted if it is the last one of its request.
LEMMA TakeLine ==
  ASSUME ReaderInv, InputInv, lines # <<>>, UNCHANGED <<closed, asked>>,
         lines' \in Seq(Line), Len(lines') = Len(lines) - 1,
         \A i \in 1..(Len(lines) - 1) : lines'[i] = lines[i + 1],
         Len(read') = IF Final(lines[1]) THEN Len(read) + 1 ELSE Len(read),
         await' \in Nat,
         ~Final(lines[1]) => \/ await' = await
                             \/ lines[1].kind = "request" /\ await' = lines[1].size,
         Final(lines[1]) => await' = 0
  PROVE  InputInv'
<1>1. /\ lines \in Seq(Line) /\ Len(lines) \in Nat \ {0}
      /\ Len(read) \in Nat /\ Len(asked) \in Nat /\ await \in Nat
  BY NilLen DEF ReaderInv, ProtocolTypeOK
<1>2. asked' = asked /\ closed' = closed
  OBVIOUS
<1>3. lines' = <<>> <=> Len(lines) = 1
  BY <1>1, NilLen
<1>4. PICK own, size : Owned(own, size)
  BY DEF InputInv
<1>5. Whole'
  <2> SUFFICES ASSUME ~closed
               PROVE  IF lines' = <<>> THEN Len(read') = Len(asked) /\ await' = 0
                      ELSE Final(lines'[Len(lines')])
    BY DEF Whole
  <2>1. Final(lines[Len(lines)])
    BY DEF InputInv, Whole
  <2>2. CASE Len(lines) = 1
    <3>1. Len(read) + 1 = Len(asked)
      BY <1>4, <2>2 DEF Owned
    <3> QED BY <1>1, <1>3, <2>1, <2>2, <3>1
  <2>3. CASE Len(lines) # 1
    <3>1. lines' # <<>> /\ lines'[Len(lines')] = lines[Len(lines)]
      BY <1>1, <1>3, <2>3
    <3> QED BY <2>1, <3>1
  <2> QED BY <2>2, <2>3
<1>6. \E own1, size1 : Owned(own1, size1)'
  <2>1. PICK own1 : own1 = [i \in 1..(Len(lines) - 1) |-> own[i + 1]]
    OBVIOUS
  <2> DEFINE n == Len(lines)
  <2>a. /\ own \in [1..n -> Nat] /\ size \in [Nat -> Nat]
        /\ own[1] = Len(read) + 1 /\ own[n] = Len(asked)
    BY <1>4 DEF Owned
  <2>b. \A i \in 1..n : own[i] \in 1..Len(asked) /\ Says(lines[i], asked[own[i]], size[own[i]])
    BY <1>4 DEF Owned
  <2>c. \A i \in 1..(n - 1) : own[i + 1] = IF Final(lines[i]) THEN own[i] + 1 ELSE own[i]
    BY <1>4 DEF Owned
  <2>d. n \in Nat \ {0} /\ Len(lines') = n - 1 /\ \A i \in 1..(n - 1) : lines'[i] = lines[i + 1]
    BY <1>1
  <2>e. \A i \in 1..(n - 1) : i + 1 \in 1..n /\ own1[i] = own[i + 1]
    BY <2>1, <2>d
  <2>2. own1 \in [1..Len(lines') -> Nat]
    BY <2>1, <2>a, <2>d, <2>e
  <2>3. ASSUME lines' # <<>> PROVE own1[1] = Len(read') + 1 /\ own1[Len(lines')] = Len(asked')
    <3>1. n > 1
      BY <1>3, <2>3, <2>d
    <3>2. 1 \in 1..(n - 1) /\ n - 1 \in 1..(n - 1) /\ n - 1 + 1 = n /\ 1 + 1 = 2
      BY <3>1, <2>d
    <3>3. own1[1] = own[2] /\ own1[n - 1] = own[n]
      BY <2>e, <3>2
    <3>4. own[2] = IF Final(lines[1]) THEN own[1] + 1 ELSE own[1]
      BY <2>c, <3>2
    <3> QED BY <1>1, <1>2, <2>a, <2>d, <3>3, <3>4
  <2>4. ASSUME NEW i \in 1..Len(lines')
        PROVE  own1[i] \in 1..Len(asked') /\ Says(lines'[i], asked'[own1[i]], size[own1[i]])
    BY <1>2, <2>b, <2>d, <2>e
  <2>5. ASSUME NEW i \in 1..(Len(lines') - 1)
        PROVE  own1[i + 1] = IF Final(lines'[i]) THEN own1[i] + 1 ELSE own1[i]
    <3>1. i \in 1..(n - 1) /\ i + 1 \in 1..(n - 1)
      BY <2>d
    <3>2. own[i + 1 + 1] = IF Final(lines[i + 1]) THEN own[i + 1] + 1 ELSE own[i + 1]
      BY <2>c, <3>1
    <3> QED BY <2>d, <2>e, <3>1, <3>2
  <2>6. ASSUME await' > 0 PROVE await' = size[Len(read') + 1]
    <3>1. ~Final(lines[1]) /\ Len(read') = Len(read)
      BY <2>6
    <3>2. CASE await' = await
      BY <1>4, <2>6, <3>1, <3>2 DEF Owned
    <3>3. CASE lines[1].kind = "request" /\ await' = lines[1].size
      <4>1. Says(lines[1], asked[own[1]], size[own[1]])
        BY <2>b, <2>d
      <4> QED BY <2>a, <3>1, <3>3, <4>1 DEF Says, Final
    <3> QED BY <3>1, <3>2, <3>3
  <2>7. Owned(own1, size)'
    BY <2>2, <2>3, <2>4, <2>5, <2>6, <2>a DEF Owned
  <2> QED BY <2>7
<1> QED BY <1>5, <1>6 DEF InputInv

\* The lines of a further request, in full or for the last time, go to the end of the
\* input.
LEMMA WriteLines ==
  ASSUME ReaderInv, InputInv, ~closed, UNCHANGED <<await, read>>,
         NEW new \in Seq(Line), new # <<>>, NEW n \in Nat, NEW r \in Request \cup {Garbled},
         lines' \in Seq(Line), Len(lines') = Len(lines) + Len(new),
         \A i \in 1..Len(lines) : lines'[i] = lines[i],
         \A i \in 1..Len(new) : lines'[Len(lines) + i] = new[i],
         Len(asked') = Len(asked) + 1, asked'[Len(asked) + 1] = r,
         \A i \in 1..Len(asked) : asked'[i] = asked[i],
         \A i \in 1..Len(new) : Says(new[i], r, n),
         \A i \in 1..(Len(new) - 1) : ~Final(new[i]),
         closed' \/ Final(new[Len(new)])
  PROVE  InputInv'
<1> DEFINE m == Len(lines)
           k == Len(new)
           a == Len(asked)
<1>1. m \in Nat /\ k \in Nat \ {0} /\ a \in Nat /\ await \in Nat /\ Len(read) \in Nat
  BY NilLen DEF ReaderInv, ProtocolTypeOK
<1>2. lines = <<>> <=> m = 0
  BY NilLen DEF ReaderInv
<1>3. lines' # <<>> /\ Len(lines') = m + k /\ lines'[m + k] = new[k]
  BY <1>1, NilLen
<1>4. read' = read /\ await' = await
  OBVIOUS
<1>5. Whole'
  BY <1>3 DEF Whole
<1>6. \E own1, size1 : Owned(own1, size1)'
  <2>1. PICK own, size : Owned(own, size)
    BY DEF InputInv
  <2>2. PICK own1 : own1 = [i \in 1..(m + k) |-> IF i <= m THEN own[i] ELSE a + 1]
    OBVIOUS
  <2>3. PICK size1 : size1 = [size EXCEPT ![a + 1] = n]
    OBVIOUS
  <2>4. /\ own \in [1..m -> Nat] /\ size \in [Nat -> Nat]
        /\ m # 0 => own[1] = Len(read) + 1 /\ own[m] = a
    BY <1>2, <2>1 DEF Owned
  <2>5. \A i \in 1..m : own[i] \in 1..a /\ Says(lines[i], asked[own[i]], size[own[i]])
    BY <2>1 DEF Owned
  <2>6. \A i \in 1..(m - 1) : own[i + 1] = IF Final(lines[i]) THEN own[i] + 1 ELSE own[i]
    BY <2>1 DEF Owned
  <2>7. IF m = 0 THEN Len(read) = a /\ await = 0 ELSE Final(lines[m])
    BY <1>2 DEF InputInv, Whole
  <2>8. /\ \A i \in 1..m : own1[i] = own[i]
        /\ \A i \in (m + 1)..(m + k) : own1[i] = a + 1
        /\ own1 \in [1..(m + k) -> Nat]
    <3>1. \A i \in 1..m : i \in 1..(m + k) /\ i <= m
      BY <1>1
    <3>2. \A i \in (m + 1)..(m + k) : i \in 1..(m + k) /\ ~(i <= m)
      BY <1>1
    <3>3. \A i \in 1..(m + k) : (IF i <= m THEN own[i] ELSE a + 1) \in Nat
      <4> SUFFICES ASSUME NEW i \in 1..(m + k) PROVE (IF i <= m THEN own[i] ELSE a + 1) \in Nat
        OBVIOUS
      <4>1. i <= m => i \in 1..m
        BY <1>1
      <4>2. i <= m => own[i] \in Nat
        BY <2>4, <4>1
      <4>3. a + 1 \in Nat
        BY <1>1
      <4> QED BY <4>2, <4>3
    <3>4. own1 \in [1..(m + k) -> Nat]
      BY <2>2, <3>3
    <3> QED BY <2>2, <3>1, <3>2, <3>4
  <2>9. /\ size1 \in [Nat -> Nat] /\ size1[a + 1] = n
        /\ \A i \in 1..a : size1[i] = size[i]
    <3>1. a + 1 \in Nat /\ n \in Nat /\ \A i \in 1..a : i \in Nat /\ i # a + 1
      BY <1>1
    <3> QED BY <2>3, <2>4, <3>1
  <2>10. own1[1] = Len(read) + 1 /\ own1[m + k] = a + 1
    <3>1. m + k \in (m + 1)..(m + k) /\ (m = 0 => 1 \in (m + 1)..(m + k)) /\ (m # 0 => 1 \in 1..m)
      BY <1>1
    <3>2. CASE m = 0
      BY <2>7, <2>8, <3>1, <3>2
    <3>3. CASE m # 0
      BY <2>4, <2>8, <3>1, <3>3
    <3> QED BY <3>2, <3>3
  <2>11. ASSUME NEW i \in 1..(m + k)
         PROVE  own1[i] \in 1..(a + 1) /\ Says(lines'[i], asked'[own1[i]], size1[own1[i]])
    <3>1. CASE i <= m
      <4>1. i \in 1..m /\ own1[i] = own[i] /\ own[i] \in 1..a /\ lines'[i] = lines[i]
        BY <1>1, <2>5, <2>8, <3>1
      <4>2. asked'[own[i]] = asked[own[i]] /\ size1[own[i]] = size[own[i]]
        BY <2>9, <4>1
      <4>3. own1[i] \in 1..(a + 1)
        BY <1>1, <4>1
      <4> QED BY <2>5, <4>1, <4>2, <4>3
    <3>2. CASE ~(i <= m)
      <4>1. i - m \in 1..k /\ m + (i - m) = i /\ own1[i] = a + 1
        BY <1>1, <2>8, <3>2
      <4>2. lines'[i] = new[i - m]
        BY <4>1
      <4>3. Says(new[i - m], r, n) /\ asked'[own1[i]] = r /\ size1[own1[i]] = n
        BY <2>9, <4>1
      <4>4. own1[i] \in 1..(a + 1)
        BY <1>1, <4>1
      <4> QED BY <4>2, <4>3, <4>4
    <3> QED BY <3>1, <3>2
  <2>12. ASSUME NEW i \in 1..(m + k - 1)
         PROVE  own1[i + 1] = IF Final(lines'[i]) THEN own1[i] + 1 ELSE own1[i]
    <3>1. CASE i < m
      <4>1. i \in 1..(m - 1) /\ own1[i] = own[i] /\ own1[i + 1] = own[i + 1] /\ lines'[i] = lines[i]
        BY <1>1, <2>8, <3>1
      <4> QED BY <2>6, <4>1
    <3>2. CASE i = m
      <4>1. own1[i] = a /\ own1[i + 1] = a + 1 /\ lines'[i] = lines[i] /\ Final(lines[i])
        <5>1. m # 0 /\ m \in 1..m /\ m + 1 \in (m + 1)..(m + k)
          BY <1>1, <3>2
        <5> QED BY <2>4, <2>7, <2>8, <3>2, <5>1
      <4> QED BY <4>1
    <3>3. CASE i > m
      <4>1. i - m \in 1..(k - 1) /\ m + (i - m) = i /\ own1[i] = a + 1 /\ own1[i + 1] = a + 1
        <5>1. /\ i - m \in 1..(k - 1) /\ m + (i - m) = i
              /\ i \in (m + 1)..(m + k) /\ i + 1 \in (m + 1)..(m + k)
          BY <1>1, <3>3
        <5> QED BY <2>8, <5>1
      <4>2. lines'[i] = new[i - m] /\ ~Final(new[i - m])
        <5>1. i - m \in 1..k
          BY <1>1, <4>1
        <5>2. lines'[m + (i - m)] = new[i - m]
          BY <5>1
        <5> QED BY <4>1, <5>2
      <4> QED BY <4>1, <4>2
    <3> QED BY <1>1, <3>1, <3>2, <3>3
  <2>13. ASSUME await > 0 PROVE await = size1[Len(read) + 1]
    <3>1. Len(read) + 1 \in 1..a
      <4>1. m # 0 /\ 1 \in 1..m
        BY <1>1, <2>7, <2>13
      <4> QED BY <2>4, <2>5, <4>1
    <3> QED BY <2>1, <2>9, <2>13, <3>1 DEF Owned
  <2>14. Owned(own1, size1)'
    <3>1. Len(asked') = a + 1 /\ Len(lines') = m + k /\ read' = read /\ await' = await
      BY <1>3, <1>4
    <3>2. /\ own1 \in [1..Len(lines') -> Nat] /\ size1 \in [Nat -> Nat]
          /\ own1[1] = Len(read') + 1 /\ own1[Len(lines')] = Len(asked')
      BY <2>8, <2>9, <2>10, <3>1
    <3>3. \A i \in 1..Len(lines') :
            own1[i] \in 1..Len(asked') /\ Says(lines'[i], asked'[own1[i]], size1[own1[i]])
      BY <2>11, <3>1
    <3>4. \A i \in 1..(Len(lines') - 1) :
            own1[i + 1] = IF Final(lines'[i]) THEN own1[i] + 1 ELSE own1[i]
      BY <2>12, <3>1
    <3>5. await' > 0 => await' = size1[Len(read') + 1]
      BY <2>13, <3>1
    <3> HIDE DEF m, k, a
    <3> QED BY <3>2, <3>3, <3>4, <3>5, Zenon DEF Owned
  <2> QED BY <2>14
<1> QED BY <1>5, <1>6 DEF InputInv

-----------------------------------------------------------------------------
(* The steps of the protocol *)

\* The reader starts with an empty input.
LEMMA ReaderInit == ProtocolInit => ReaderInv
<1> SUFFICES ASSUME ProtocolInit PROVE ReaderInv
  OBVIOUS
<1>1. /\ lines = <<>> /\ asked = <<>> /\ read = <<>> /\ await = 0 /\ session = "open"
      /\ Len(lines) = 0 /\ Len(asked) = 0 /\ Len(read) = 0
  BY DEF ProtocolInit
<1>2. ProtocolTypeOK /\ lines \in Seq(Line)
  <2>1. closed \in BOOLEAN
    BY Zenon DEF ProtocolInit
  <2> QED BY <1>1, <2>1 DEF ProtocolTypeOK
<1>3. PICK own, size : own = [i \in 1..0 |-> 0] /\ size = [i \in Nat |-> 0]
  OBVIOUS
<1>4. Owned(own, size)
  <2>1. own \in [1..0 -> Nat] /\ size \in [Nat -> Nat] /\ 1..0 = {} /\ 1..(0 - 1) = {}
    BY <1>3
  <2> QED BY <1>1, <2>1 DEF Owned
<1>5. Whole
  BY <1>1 DEF Whole
<1> QED BY <1>1, <1>2, <1>4, <1>5 DEF ReaderInv, InputInv

\* The fields of a line, by its kind.
LEMMA LineFacts ==
  ASSUME NEW line \in Line
  PROVE  /\ line.kind = "request" => line.cmd \in {"get", "put"} /\ line.size \in Nat
         /\ line.kind = "body" => line.data \in Seq(Nat)
         /\ ~Final(Blank) /\ ~Final(Cut)
BY DEF Line, Blank, Cut, Final

\* Read returns what was asked for next.
LEMMA ReadNext ==
  ASSUME ReaderInv, Len(read) + 1 <= Len(asked), asked[Len(read) + 1] # Garbled,
         read' = Append(read, asked[Len(read) + 1]), asked' = asked
  PROVE  /\ read' \in Seq(Request) /\ Len(read') = Len(read) + 1
         /\ Len(read') <= Len(asked') /\ \A i \in 1..Len(read') : read'[i] = asked'[i]
<1>1. /\ asked \in Seq(Request \cup {Garbled}) /\ read \in Seq(Request)
      /\ Len(read) \in Nat /\ Len(asked) \in Nat
  BY NilLen DEF ReaderInv, ProtocolTypeOK
<1>2. asked[Len(read) + 1] \in Request
  <2>1. Len(read) + 1 \in 1..Len(asked)
    BY <1>1
  <2>2. asked[Len(read) + 1] \in Request \cup {Garbled}
    BY <1>1, <2>1, ElementOfSeq
  <2> QED BY <2>2
<1>3. /\ read' \in Seq(Request) /\ Len(read') = Len(read) + 1
      /\ \A i \in 1..Len(read) : read'[i] = read[i]
      /\ read'[Len(read) + 1] = asked[Len(read) + 1]
  BY <1>1, <1>2, AppendProperties
<1>4. ASSUME NEW i \in 1..(Len(read) + 1) PROVE read'[i] = asked[i]
  <2>1. i \in 1..Len(read) \/ i = Len(read) + 1
    BY <1>1
  <2> QED BY <1>3, <2>1 DEF ReaderInv
<1> QED BY <1>3, <1>4

\* A further request, or what there is of it, on the input.
LEMMA AskStep ==
  ASSUME ReaderInv, ~closed, closed' \in BOOLEAN, UNCHANGED <<await, session, read>>,
         NEW new \in Seq(Line), new # <<>>, NEW n \in Nat, NEW r \in Request \cup {Garbled},
         lines' = lines \o new, asked' = Append(asked, r),
         \A i \in 1..Len(new) : Says(new[i], r, n),
         \A i \in 1..(Len(new) - 1) : ~Final(new[i]),
         closed' \/ Final(new[Len(new)])
  PROVE  ReaderInv'
<1>1. /\ lines \in Seq(Line) /\ asked \in Seq(Request \cup {Garbled})
      /\ Len(lines) \in Nat /\ Len(new) \in Nat /\ Len(asked) \in Nat /\ Len(read) \in Nat
  BY NilLen DEF ReaderInv, ProtocolTypeOK
<1>2. /\ lines' \in Seq(Line) /\ Len(lines') = Len(lines) + Len(new)
      /\ \A i \in 1..(Len(lines) + Len(new)) :
           lines'[i] = IF i <= Len(lines) THEN lines[i] ELSE new[i - Len(lines)]
  BY <1>1, ConcatProperties
<1>3. \A i \in 1..Len(lines) : lines'[i] = lines[i]
  <2> SUFFICES ASSUME NEW i \in 1..Len(lines) PROVE lines'[i] = lines[i]
    OBVIOUS
  <2>1. i \in 1..(Len(lines) + Len(new)) /\ i <= Len(lines)
    BY <1>1
  <2> QED BY <1>2, <2>1
<1>4. \A i \in 1..Len(new) : lines'[Len(lines) + i] = new[i]
  <2> SUFFICES ASSUME NEW i \in 1..Len(new) PROVE lines'[Len(lines) + i] = new[i]
    OBVIOUS
  <2>1. /\ Len(lines) + i \in 1..(Len(lines) + Len(new)) /\ ~(Len(lines) + i <= Len(lines))
        /\ Len(lines) + i - Len(lines) = i
    BY <1>1
  <2> QED BY <1>2, <2>1
<1>5. /\ asked' \in Seq(Request \cup {Garbled}) /\ Len(asked') = Len(asked) + 1
      /\ asked'[Len(asked) + 1] = r /\ \A i \in 1..Len(asked) : asked'[i] = asked[i]
  BY <1>1, AppendProperties
<1>6. ASSUME InputInv PROVE InputInv'
  BY <1>2, <1>3, <1>4, <1>5, <1>6, WriteLines
<1>7. ProtocolTypeOK'
  BY <1>5 DEF ReaderInv, ProtocolTypeOK
<1>8. Len(read') <= Len(asked') /\ \A i \in 1..Len(read') : read'[i] = asked'[i]
  <2>1. Len(read) <= Len(asked) /\ \A i \in 1..Len(read) : read[i] = asked[i] /\ i \in 1..Len(asked)
    BY <1>1 DEF ReaderInv
  <2> QED BY <1>1, <1>5, <2>1
<1> QED BY <1>2, <1>6, <1>7, <1>8 DEF ReaderInv

\* A line with a blank line before it, or without.
LEMMA Padded ==
  ASSUME NEW blank \in BOOLEAN, NEW line \in Line, NEW new, new = Padding(blank) \o <<line>>
  PROVE  /\ Padding(blank) \in Seq(Line) /\ <<line>> \in Seq(Line) /\ new \in Seq(Line)
         /\ new # <<>> /\ Len(new) \in {1, 2} /\ new[Len(new)] = line
         /\ \A i \in 1..(Len(new) - 1) : new[i] = Blank
<1>1. Blank \in Line /\ <<Blank>> \in Seq(Line) /\ <<line>> \in Seq(Line) /\ <<>> \in Seq(Line)
  BY DEF Line
<1>2. CASE blank
  <2>1. new = <<Blank>> \o <<line>> /\ Padding(blank) = <<Blank>>
    BY <1>2 DEF Padding
  <2>2. new \in Seq(Line) /\ Len(new) = 2 /\ new[1] = Blank /\ new[2] = line
    BY <1>1, <2>1
  <2> QED BY <1>1, <2>1, <2>2
<1>3. CASE ~blank
  <2>1. new = <<>> \o <<line>> /\ Padding(blank) = <<>>
    BY <1>3 DEF Padding
  <2>2. new = <<line>>
    BY <1>1, <2>1, ConcatEmptySeq
  <2> QED BY <1>1, <2>1, <2>2
<1> QED BY <1>2, <1>3

\* cmd/go asks for something.
LEMMA GetAsked ==
  ASSUME ReaderInv, NEW blank \in BOOLEAN, AskGet(blank)
  PROVE  ReaderInv'
<1> DEFINE line == RequestLine("get", 0)
           r == [cmd |-> "get", body |-> <<>>]
<1>1. PICK new : new = Padding(blank) \o <<line>>
  OBVIOUS
<1>2. line \in Line /\ line.kind = "request" /\ line.cmd = "get"
  BY DEF Line, RequestLine
<1>3. /\ Padding(blank) \in Seq(Line) /\ <<line>> \in Seq(Line) /\ new \in Seq(Line)
      /\ new # <<>> /\ Len(new) \in {1, 2} /\ new[Len(new)] = line
      /\ \A i \in 1..(Len(new) - 1) : new[i] = Blank
  BY <1>1, <1>2, Padded
<1>4. lines' = lines \o new
  BY <1>1, <1>3, ConcatAssociative, SMTT(30) DEF AskGet, ReaderInv
<1>5. r \in Request /\ asked' = Append(asked, r)
  BY DEF AskGet, Request
<1>6. new # <<>>
  BY <1>3
<1>7. Final(line) /\ Says(line, r, 0) /\ ~Final(Blank) /\ Says(Blank, r, 0)
  BY <1>2 DEF Final, Says, HasBody, Blank
<1>8. \A i \in 1..Len(new) : Says(new[i], r, 0)
  <2> SUFFICES ASSUME NEW i \in 1..Len(new) PROVE Says(new[i], r, 0)
    OBVIOUS
  <2>1. i = Len(new) \/ i \in 1..(Len(new) - 1)
    BY <1>3
  <2> QED BY <1>3, <1>7, <2>1
<1>9. ~closed /\ UNCHANGED <<closed, await, session, read>>
  BY DEF AskGet, MayAsk
<1>10. closed' \in BOOLEAN
  BY <1>9, Zenon DEF ReaderInv, ProtocolTypeOK
<1> HIDE DEF line, r
<1> QED BY <1>3, <1>4, <1>5, <1>6, <1>7, <1>8, <1>9, <1>10, AskStep

\* cmd/go puts something, with the right or with a wrong size.
LEMMA PutAsked ==
  ASSUME ReaderInv, NEW blank \in BOOLEAN, NEW b \in Body, NEW n \in Declarable(b),
         AskPut(b, n, blank)
  PROVE  ReaderInv'
<1> DEFINE line == RequestLine("put", n)
           last == BodyLine(b)
           r == IF n = Len(b) THEN [cmd |-> "put", body |-> b] ELSE Garbled
<1>1. b \in Seq(Nat) /\ Len(b) \in Nat /\ n \in Nat
  BY ProtocolAssumption, NilLen DEF Declarable
<1>2. /\ line \in Line /\ line.kind = "request" /\ line.cmd = "put" /\ line.size = n
      /\ last \in Line /\ last.kind = "body" /\ last.data = b
  BY <1>1 DEF Line, RequestLine, BodyLine
<1>3. r \in Request \cup {Garbled} /\ asked' = Append(asked, r)
  BY DEF AskPut, Request
<1>4. ~closed /\ UNCHANGED <<closed, await, session, read>>
  BY DEF AskPut, MayAsk
<1>5. closed' \in BOOLEAN
  BY <1>4, Zenon DEF ReaderInv, ProtocolTypeOK
<1>6. ~Final(Blank) /\ Says(Blank, r, n)
  BY DEF Final, Says, Blank
<1>7. PICK first : first = Padding(blank) \o <<line>>
  OBVIOUS
<1>8. /\ Padding(blank) \in Seq(Line) /\ <<line>> \in Seq(Line) /\ first \in Seq(Line)
      /\ first # <<>> /\ Len(first) \in {1, 2} /\ first[Len(first)] = line
      /\ \A i \in 1..(Len(first) - 1) : first[i] = Blank
  BY <1>2, <1>7, Padded
<1>9. lines \o Padding(blank) \o <<line>> = lines \o first
  BY <1>7, <1>8, ConcatAssociative DEF ReaderInv
<1>10. CASE n = 0
  <2>1. b = <<>> /\ r = [cmd |-> "put", body |-> <<>>]
    BY <1>1, <1>10 DEF AskPut
  <2>2. lines' = lines \o first
    <3>1. lines' = (lines \o Padding(blank) \o <<line>>) \o <<>>
      BY <1>10 DEF AskPut
    <3>2. lines \o first \in Seq(Line)
      BY <1>8, ConcatProperties DEF ReaderInv
    <3> QED BY <1>9, <3>1, <3>2, ConcatEmptySeq
  <2>3. Final(line) /\ Says(line, r, n)
    BY <1>2, <1>10, <2>1 DEF Final, Says, HasBody
  <2>4. \A i \in 1..Len(first) : Says(first[i], r, n)
    <3> SUFFICES ASSUME NEW i \in 1..Len(first) PROVE Says(first[i], r, n)
      OBVIOUS
    <3>1. i = Len(first) \/ i \in 1..(Len(first) - 1)
      BY <1>8
    <3> QED BY <1>6, <1>8, <2>3, <3>1
  <2>5. first # <<>>
    BY <1>8
  <2> HIDE DEF line, last, r
  <2> QED BY <1>1, <1>3, <1>4, <1>5, <1>6, <1>8, <2>2, <2>3, <2>4, <2>5, AskStep
<1>11. CASE n > 0
  <2>1. PICK second : second = Padding(blank) \o <<last>>
    OBVIOUS
  <2>2. /\ <<last>> \in Seq(Line) /\ second \in Seq(Line)
        /\ second # <<>> /\ Len(second) \in {1, 2} /\ second[Len(second)] = last
        /\ \A i \in 1..(Len(second) - 1) : second[i] = Blank
    BY <1>2, <2>1, Padded
  <2>3. PICK new : new = first \o second
    OBVIOUS
  <2>4. /\ new \in Seq(Line) /\ Len(new) = Len(first) + Len(second)
        /\ \A i \in 1..(Len(first) + Len(second)) :
             new[i] = IF i <= Len(first) THEN first[i] ELSE second[i - Len(first)]
    BY <1>8, <2>2, <2>3, ConcatProperties
  <2>5. lines' = lines \o new
    <3>1. lines' = (lines \o Padding(blank) \o <<line>>) \o second
      BY <1>11, <2>1 DEF AskPut
    <3>2. lines' = (lines \o first) \o second
      BY <1>9, <3>1
    <3>3. (lines \o first) \o second = lines \o (first \o second)
      <4>1. lines \in Seq(Line) /\ first \in Seq(Line) /\ second \in Seq(Line)
        BY <1>8, <2>2 DEF ReaderInv
      <4> HIDE DEF line, last, r
      <4> QED BY <4>1, ConcatAssociative
    <3> QED BY <2>3, <3>2, <3>3
  <2>6. /\ ~Final(line) /\ Says(line, r, n) /\ Final(last) /\ Says(last, r, n)
    BY <1>2, <1>11 DEF Final, Says, HasBody
  <2>7. \A i \in 1..(Len(new) - 1) : new[i] \in {Blank, line}
    <3> SUFFICES ASSUME NEW i \in 1..(Len(new) - 1) PROVE new[i] \in {Blank, line}
      OBVIOUS
    <3>1. CASE i <= Len(first)
      <4>1. i = Len(first) \/ i \in 1..(Len(first) - 1)
        BY <1>8, <3>1
      <4>2. i \in 1..(Len(first) + Len(second))
        BY <1>8, <2>2, <2>4
      <4> QED BY <1>8, <2>4, <3>1, <4>1, <4>2
    <3>2. CASE ~(i <= Len(first))
      <4>1. i - Len(first) \in 1..(Len(second) - 1) /\ i \in 1..(Len(first) + Len(second))
        BY <1>8, <2>2, <2>4, <3>2
      <4> QED BY <2>2, <2>4, <3>2, <4>1
    <3> QED BY <3>1, <3>2
  <2>8. new[Len(new)] = last /\ Len(new) \in Nat \ {0}
    <3>1. /\ Len(new) \in 1..(Len(first) + Len(second)) /\ ~(Len(new) <= Len(first))
          /\ Len(new) - Len(first) = Len(second)
      BY <1>8, <2>2, <2>4
    <3> QED BY <2>2, <2>4, <3>1
  <2>9. \A i \in 1..Len(new) : Says(new[i], r, n)
    <3> SUFFICES ASSUME NEW i \in 1..Len(new) PROVE Says(new[i], r, n)
      OBVIOUS
    <3>1. i = Len(new) \/ i \in 1..(Len(new) - 1)
      BY <2>8
    <3> QED BY <1>6, <2>6, <2>7, <2>8, <3>1
  <2>10. \A i \in 1..(Len(new) - 1) : ~Final(new[i])
    BY <1>6, <2>6, <2>7
  <2>11. new # <<>>
    BY <2>4, <2>8, NilLen
  <2> HIDE DEF line, last, r
  <2> QED BY <1>1, <1>3, <1>4, <1>5, <2>4, <2>5, <2>6, <2>8, <2>9, <2>10, <2>11, AskStep
<1> QED BY <1>1, <1>10, <1>11

\* A body line comes that no request announced.
LEMMA StrayAsked ==
  ASSUME ReaderInv, NEW b \in Body, StrayBody(b)
  PROVE  ReaderInv'
<1> DEFINE new == <<BodyLine(b)>>
<1>1. b \in Seq(Nat) /\ Len(b) \in Nat
  BY ProtocolAssumption, NilLen
<1>2. BodyLine(b) \in Line /\ BodyLine(b).kind = "body" /\ BodyLine(b).data = b
  BY <1>1 DEF Line, BodyLine
<1>3. Final(BodyLine(b)) /\ Says(BodyLine(b), Garbled, Len(b) + 1)
  BY <1>1, <1>2 DEF Final, Says
<1>4. /\ new \in Seq(Line) /\ new # <<>> /\ Len(new) = 1 /\ new[1] = BodyLine(b)
      /\ lines' = lines \o new /\ asked' = Append(asked, Garbled)
  BY <1>2 DEF StrayBody
<1>5. /\ \A i \in 1..Len(new) : Says(new[i], Garbled, Len(b) + 1)
      /\ \A i \in 1..(Len(new) - 1) : ~Final(new[i])
  BY <1>3, <1>4
<1>6. ~closed /\ UNCHANGED <<closed, await, session, read>>
  BY DEF StrayBody, MayAsk
<1>7. closed' \in BOOLEAN
  BY <1>6, Zenon DEF ReaderInv, ProtocolTypeOK
<1>8. Garbled \in Request \cup {Garbled} /\ Len(b) + 1 \in Nat /\ Final(new[Len(new)])
  BY <1>1, <1>3, <1>4
<1> HIDE DEF new
<1> QED BY <1>4, <1>5, <1>6, <1>7, <1>8, AskStep

\* The input ends, perhaps within a request.
LEMMA InputCloses ==
  ASSUME ReaderInv, NEW tail \in Tails, CloseInput(tail)
  PROVE  ReaderInv'
<1>1. closed' = TRUE /\ ~closed /\ UNCHANGED <<await, session, read>>
  BY DEF CloseInput
<1>2. CASE tail = <<>>
  <2>1. lines' = lines /\ asked' = asked
    BY <1>2, ConcatEmptySeq DEF CloseInput, ReaderInv
  <2>2. ASSUME InputInv PROVE InputInv'
    <3>1. PICK own, size : Owned(own, size)
      BY <2>2 DEF InputInv
    <3>2. Owned(own, size)'
      BY <1>1, <2>1, <3>1 DEF Owned
    <3> QED BY <1>1, <3>2 DEF InputInv, Whole
  <2>3. ProtocolTypeOK'
    BY <1>1, <2>1 DEF ReaderInv, ProtocolTypeOK
  <2> QED BY <1>1, <2>1, <2>2, <2>3 DEF ReaderInv
<1>3. CASE tail # <<>>
  <2>1. PICK line : line \in {Cut, RequestLine("put", 1)} /\ tail = <<line>>
    BY <1>3 DEF Tails
  <2>2. line \in Line /\ Says(line, Garbled, 1)
    BY <2>1 DEF Line, Cut, RequestLine, Says, HasBody
  <2>3. /\ tail \in Seq(Line) /\ Len(tail) = 1 /\ tail[1] = line
        /\ lines' = lines \o tail /\ asked' = Append(asked, Garbled)
    BY <1>3, <2>1, <2>2 DEF CloseInput
  <2>4. /\ \A i \in 1..Len(tail) : Says(tail[i], Garbled, 1)
        /\ \A i \in 1..(Len(tail) - 1) : ~Final(tail[i])
    BY <2>2, <2>3
  <2>5. Garbled \in Request \cup {Garbled} /\ 1 \in Nat
    OBVIOUS
  <2> QED BY <1>1, <1>3, <2>3, <2>4, <2>5, AskStep
<1> QED BY <1>2, <1>3

\* Whatever cmd/go writes, the invariant holds.
LEMMA ClientKeeps ==
  ASSUME ReaderInv, ClientStep
  PROVE  ReaderInv'
<1>1. ASSUME NEW blank \in BOOLEAN, AskGet(blank) PROVE ReaderInv'
  BY <1>1, GetAsked
<1>2. ASSUME NEW blank \in BOOLEAN, NEW b \in Body, NEW n \in Declarable(b),
             AskPut(b, n, blank)
      PROVE  ReaderInv'
  BY <1>2, PutAsked
<1>3. ASSUME NEW tail \in Tails, CloseInput(tail) PROVE ReaderInv'
  BY <1>3, InputCloses
<1>4. ASSUME NEW b \in Body, StrayBody(b) PROVE ReaderInv'
  BY <1>4, StrayAsked
<1> QED BY <1>1, <1>2, <1>3, <1>4, Zenon DEF ClientStep

\* The facts about the rest of the input that TakeLine asks for.
LEMMA RestOfInput ==
  ASSUME ReaderInv, lines # <<>>, lines' = Tail(lines)
  PROVE  /\ Head(lines) = lines[1] /\ Head(lines) \in Line
         /\ lines' \in Seq(Line) /\ Len(lines') = Len(lines) - 1
         /\ \A i \in 1..(Len(lines) - 1) : lines'[i] = lines[i + 1]
BY HeadTailProperties DEF ReaderInv

\* The reader skips a blank line.
LEMMA BlankSkipped ==
  ASSUME ReaderInv, SkipBlank
  PROVE  ReaderInv'
<1>1. /\ session = "open" /\ lines # <<>> /\ Head(lines) = Blank /\ lines' = Tail(lines)
      /\ UNCHANGED <<closed, await, session, asked, read>>
  BY DEF SkipBlank, Scanned
<1>2. /\ lines[1] = Blank
      /\ lines' \in Seq(Line) /\ Len(lines') = Len(lines) - 1
      /\ \A i \in 1..(Len(lines) - 1) : lines'[i] = lines[i + 1]
  BY <1>1, RestOfInput
<1>3. ~Final(lines[1])
  BY <1>2 DEF Final, Blank
<1>4. InputInv /\ await' \in Nat
  BY <1>1 DEF ReaderInv, ProtocolTypeOK
<1>5. InputInv'
  BY <1>1, <1>2, <1>3, <1>4, TakeLine
<1>6. ProtocolTypeOK'
  BY <1>1 DEF ReaderInv, ProtocolTypeOK
<1> QED BY <1>1, <1>2, <1>5, <1>6 DEF ReaderInv

\* The next line is one of the next request.
LEMMA NextLine ==
  ASSUME ReaderInv, InputInv, lines # <<>>
  PROVE  /\ Len(read) + 1 <= Len(asked)
         /\ \E n \in Nat : Says(lines[1], asked[Len(read) + 1], n) /\ (await > 0 => await = n)
<1>1. Len(lines) \in Nat /\ Len(lines) # 0 /\ Len(asked) \in Nat /\ Len(read) \in Nat
  BY NilLen DEF ReaderInv, ProtocolTypeOK
<1>2. PICK own, size : Owned(own, size)
  BY DEF InputInv
<1>3. 1 \in 1..Len(lines)
  BY <1>1
<1>4. /\ own[1] = Len(read) + 1 /\ own[1] \in 1..Len(asked)
      /\ Says(lines[1], asked[own[1]], size[own[1]])
      /\ await > 0 => await = size[Len(read) + 1]
  BY <1>2, <1>3 DEF Owned
<1>5. size[own[1]] \in Nat
  BY <1>2, <1>4 DEF Owned
<1> QED BY <1>1, <1>4, <1>5

\* The reader takes a request line: a request, or the first half of a put.
LEMMA RequestRead ==
  ASSUME ReaderInv, lines # <<>>, ReadRequest(Head(lines))
  PROVE  ReaderInv'
<1>1. /\ session = "open" /\ await = 0 /\ lines' = Tail(lines) /\ Head(lines).kind = "request"
      /\ UNCHANGED <<closed, session, asked>>
  BY DEF ReadRequest, Scanned
<1>2. /\ Head(lines) = lines[1] /\ lines[1] \in Line
      /\ lines' \in Seq(Line) /\ Len(lines') = Len(lines) - 1
      /\ \A i \in 1..(Len(lines) - 1) : lines'[i] = lines[i + 1]
  BY <1>1, RestOfInput
<1>3. lines[1].kind = "request" /\ lines[1].cmd \in {"get", "put"} /\ lines[1].size \in Nat
  BY <1>1, <1>2, LineFacts
<1>4. InputInv
  BY <1>1 DEF ReaderInv
<1>5. CASE HasBody(lines[1])
  <2>1. await' = lines[1].size /\ read' = read
    BY <1>2, <1>5 DEF ReadRequest
  <2>2. ~Final(lines[1])
    BY <1>3, <1>5 DEF Final
  <2>3. InputInv'
    BY <1>1, <1>2, <1>3, <1>4, <2>1, <2>2, TakeLine
  <2>4. ProtocolTypeOK'
    BY <1>1, <1>3, <2>1 DEF ReaderInv, ProtocolTypeOK
  <2> QED BY <1>1, <1>2, <2>1, <2>3, <2>4 DEF ReaderInv
<1>6. CASE ~HasBody(lines[1])
  <2>1. read' = Append(read, [cmd |-> lines[1].cmd, body |-> <<>>]) /\ await' = 0
    BY <1>1, <1>2, <1>6 DEF ReadRequest
  <2>2. Final(lines[1])
    BY <1>3, <1>6 DEF Final
  <2>3. Len(read) + 1 <= Len(asked) /\ asked[Len(read) + 1] = [cmd |-> lines[1].cmd, body |-> <<>>]
    BY <1>3, <1>4, <1>6, NextLine DEF Says
  <2>4. asked[Len(read) + 1] # Garbled
    BY <1>3, <2>3 DEF Garbled
  <2>5. /\ read' \in Seq(Request) /\ Len(read') = Len(read) + 1
        /\ Len(read') <= Len(asked') /\ \A i \in 1..Len(read') : read'[i] = asked'[i]
    BY <1>1, <2>1, <2>3, <2>4, ReadNext
  <2>6. InputInv'
    BY <1>1, <1>2, <1>4, <2>1, <2>2, <2>5, TakeLine
  <2>7. ProtocolTypeOK'
    BY <1>1, <2>1, <2>5 DEF ReaderInv, ProtocolTypeOK
  <2> QED BY <1>2, <2>5, <2>6, <2>7 DEF ReaderInv
<1> QED BY <1>5, <1>6

\* The reader takes a body line of the declared size, which is that of the request.
LEMMA BodyRead ==
  ASSUME ReaderInv, lines # <<>>, ReadBody(Head(lines))
  PROVE  ReaderInv'
<1>1. /\ session = "open" /\ await > 0 /\ lines' = Tail(lines) /\ Head(lines).kind = "body"
      /\ Len(Head(lines).data) = await /\ await' = 0
      /\ read' = Append(read, [cmd |-> "put", body |-> Head(lines).data])
      /\ UNCHANGED <<closed, session, asked>>
  BY DEF ReadBody, BodyGood, Scanned
<1>2. /\ Head(lines) = lines[1] /\ lines[1] \in Line
      /\ lines' \in Seq(Line) /\ Len(lines') = Len(lines) - 1
      /\ \A i \in 1..(Len(lines) - 1) : lines'[i] = lines[i + 1]
  BY <1>1, RestOfInput
<1>3. InputInv
  BY <1>1 DEF ReaderInv
<1>4. Len(read) + 1 <= Len(asked) /\ asked[Len(read) + 1] = [cmd |-> "put", body |-> lines[1].data]
  BY <1>1, <1>2, <1>3, NextLine DEF Says
<1>5. asked[Len(read) + 1] # Garbled
  BY <1>4 DEF Garbled
<1>6. /\ read' \in Seq(Request) /\ Len(read') = Len(read) + 1
      /\ Len(read') <= Len(asked') /\ \A i \in 1..Len(read') : read'[i] = asked'[i]
  BY <1>1, <1>2, <1>4, <1>5, ReadNext
<1>7. Final(lines[1])
  BY <1>1, <1>2 DEF Final
<1>8. InputInv'
  BY <1>1, <1>2, <1>3, <1>6, <1>7, TakeLine
<1>9. ProtocolTypeOK'
  BY <1>1, <1>6 DEF ReaderInv, ProtocolTypeOK
<1> QED BY <1>2, <1>6, <1>8, <1>9 DEF ReaderInv

\* The session ends; nothing is read from then on.
LEMMA SessionEnds ==
  ASSUME ReaderInv, session' \in {"eof", "error", "toolong"},
         UNCHANGED <<lines, closed, await, asked, read>>
  PROVE  ReaderInv'
BY DEF ReaderInv, ProtocolTypeOK

\* No step of the reader breaks the invariant.
LEMMA ReaderKeeps ==
  ASSUME ReaderInv, ReaderStep
  PROVE  ReaderInv'
<1>1. CASE SkipBlank
  BY <1>1, BlankSkipped
<1>2. CASE ReadEOF
  BY <1>2, SessionEnds DEF ReadEOF
<1>3. CASE lines # <<>> /\ ReadRequest(Head(lines))
  BY <1>3, RequestRead
<1>4. CASE lines # <<>> /\ ReadBody(Head(lines))
  BY <1>4, BodyRead
<1>5. CASE lines # <<>> /\ ReadRejects(Head(lines))
  BY <1>5, SessionEnds DEF ReadRejects
<1> QED BY <1>1, <1>2, <1>3, <1>4, <1>5 DEF ReaderStep

\* Nor does a step of anything else.
LEMMA InputUnchanged ==
  ASSUME ReaderInv, UNCHANGED input
  PROVE  ReaderInv'
<1>1. UNCHANGED <<lines, closed, await, session, asked, read>>
  BY DEF input
<1>2. ASSUME InputInv PROVE InputInv'
  <2>1. PICK own, size : Owned(own, size)
    BY <1>2 DEF InputInv
  <2>2. Owned(own, size)'
    BY <1>1, <2>1 DEF Owned
  <2> QED BY <1>1, <1>2, <2>2 DEF InputInv, Whole
<1>3. ProtocolTypeOK'
  BY <1>1 DEF ReaderInv, ProtocolTypeOK
<1> QED BY <1>1, <1>2, <1>3 DEF ReaderInv

\* The invariant of the reader holds always.
LEMMA ReaderAlways == Spec => []ReaderInv
<1>1. Init => ReaderInv
  BY ReaderInit DEF Init
<1>2. ASSUME ReaderInv, [Next]_vars PROVE ReaderInv'
  <2>1. CASE ReaderStep
    BY <1>2, <2>1, ReaderKeeps
  <2>2. CASE ClientStep
    BY <1>2, <2>2, ClientKeeps
  <2>3. CASE UNCHANGED input
    BY <1>2, <2>3, InputUnchanged
  <2> QED BY <1>2, <2>1, <2>2, <2>3 DEF Next, Progress, Dispatch, vars
<1> QED BY <1>1, <1>2, PTL DEF Spec

-----------------------------------------------------------------------------

\* Whatever lines come and wherever they are cut, the requests that Read returns are
\* the first of those that cmd/go meant.
THEOREM RequestsAsAsked == Spec => []ReadAsAsked
<1>1. ReaderInv => ReadAsAsked
  <2> SUFFICES ASSUME ReaderInv PROVE ReadAsAsked
    OBVIOUS
  <2>1. /\ asked \in Seq(Request \cup {Garbled}) /\ read \in Seq(Request \cup {Garbled})
        /\ Len(asked) \in Nat /\ Len(read) \in Nat /\ Len(read) <= Len(asked)
        /\ \A i \in 1..Len(read) : read[i] = asked[i]
    BY NilLen, SeqMonotonic DEF ReaderInv, ProtocolTypeOK
  <2>2. \A i \in 1..Len(read) : asked[i] \in Request \cup {Garbled}
    BY <2>1, ElementOfSeq
  <2>3. /\ SubSeq(asked, 1, Len(read)) \in Seq(Request \cup {Garbled})
        /\ Len(SubSeq(asked, 1, Len(read))) = Len(read)
        /\ \A i \in 1..Len(read) : SubSeq(asked, 1, Len(read))[i] = asked[i]
    BY <2>1, <2>2, SubSeqProperties
  <2>4. read = SubSeq(asked, 1, Len(read))
    BY <2>1, <2>3, SeqEqual
  <2> QED BY <2>1, <2>4 DEF ReadAsAsked
<1> QED BY <1>1, ReaderAlways, PTL

=============================================================================
