-------------------------- MODULE DiskIndexProofs --------------------------
(***************************************************************************)
(* Proofs about the in-memory index of DiskCache: what dc.total covers,    *)
(* what Trim plans and carries out, and that no body is lost to the index. *)
(*                                                                         *)
(* The first two are about sums over sets of actions.  The invariants hold *)
(* a table of partial sums, which every step that changes one summand can  *)
(* update; that the table agrees with MapThenSumSet is shown once, from    *)
(* the well-foundedness of strict inclusion on finite sets.                *)
(***************************************************************************)
EXTENDS DiskCacheProofs, FiniteSetTheorems

-----------------------------------------------------------------------------
(* Sums *)

\* R is a table of the sums of the weights w over the subsets of S.
SumOf(R, w, S) ==
  /\ R \in [SUBSET S -> Int]
  /\ R[{}] = 0
  /\ \A s \in SUBSET S : \A a \in S \ s : R[s \cup {a}] = R[s] + w[a]

\* T has one member more than S, with whole-numbered weights.
OneMore(T, S, a, w) ==
  /\ a \notin S
  /\ T = S \cup {a}
  /\ \A b \in T : w[b] \in Int

\* The sum over a set with one more member.
LEMMA SumAdds ==
  ASSUME NEW S, NEW T, NEW a, NEW w, OneMore(T, S, a, w), NEW R, SumOf(R, w, S)
  PROVE  \E Q : SumOf(Q, w, T) /\ Q[T] = R[S] + w[a]
<1> USE DEF OneMore
<1> DEFINE Q == [s \in SUBSET T |-> IF a \in s THEN R[s \ {a}] + w[a] ELSE R[s]]
<1>1. \A s \in SUBSET T : s \ {a} \in SUBSET S /\ (a \notin s => s \in SUBSET S)
  OBVIOUS
<1>2. Q \in [SUBSET T -> Int]
  BY <1>1 DEF SumOf
<1>3. Q[{}] = 0
  BY DEF SumOf
<1>4. ASSUME NEW s \in SUBSET T, NEW b \in T \ s PROVE Q[s \cup {b}] = Q[s] + w[b]
  <2>1. s \cup {b} \in SUBSET T
    OBVIOUS
  <2>2. CASE b = a
    <3>1. (s \cup {b}) \ {a} = s /\ a \in s \cup {b} /\ a \notin s
      BY <2>2
    <3> QED BY <2>1, <2>2, <3>1
  <2>3. CASE b # a /\ a \in s
    <3>1. (s \cup {b}) \ {a} = (s \ {a}) \cup {b} /\ a \in s \cup {b}
      BY <2>3
    <3>2. b \in S \ (s \ {a}) /\ s \ {a} \in SUBSET S
      BY <2>3
    <3>3. R[(s \ {a}) \cup {b}] = R[s \ {a}] + w[b]
      BY <3>2 DEF SumOf
    <3>4. Q[s \cup {b}] = R[(s \ {a}) \cup {b}] + w[a]
      BY <2>1, <3>1
    <3>5. Q[s] = R[s \ {a}] + w[a]
      BY <2>3
    <3>6. R[s \ {a}] \in Int /\ w[b] \in Int
      BY <3>2 DEF SumOf
    <3> HIDE DEF Q
    <3> QED BY <3>3, <3>4, <3>5, <3>6
  <2>4. CASE b # a /\ a \notin s
    BY <2>1, <2>4 DEF SumOf
  <2> QED BY <2>2, <2>3, <2>4
<1>5. Q[T] = R[S] + w[a]
  <2>1. T \ {a} = S
    OBVIOUS
  <2> QED BY <2>1
<1>6. SumOf(Q, w, T)
  <2> HIDE DEF Q
  <2> QED BY <1>2, <1>3, <1>4 DEF SumOf
<1> QED BY <1>5, <1>6

\* The sum over a set with one member less.
LEMMA SumDrops ==
  ASSUME NEW S, NEW T, NEW a, NEW w, OneMore(T, S, a, w), NEW R, SumOf(R, w, T)
  PROVE  \E Q : SumOf(Q, w, S) /\ R[T] = Q[S] + w[a]
<1> USE DEF OneMore
<1> DEFINE Q == [s \in SUBSET S |-> R[s]]
<1>1. \A s \in SUBSET S : s \in SUBSET T
  OBVIOUS
<1>2. \A s \in SUBSET S : \A b \in S \ s : s \cup {b} \in SUBSET S /\ b \in T \ s
  OBVIOUS
<1>3. SumOf(Q, w, S)
  <2>1. Q \in [SUBSET S -> Int] /\ Q[{}] = 0
    BY <1>1 DEF SumOf
  <2>2. \A s \in SUBSET S : \A b \in S \ s : Q[s \cup {b}] = Q[s] + w[b]
    BY <1>1, <1>2 DEF SumOf
  <2> HIDE DEF Q
  <2> QED BY <2>1, <2>2 DEF SumOf
<1>4. R[T] = Q[S] + w[a]
  <2>1. S \in SUBSET T /\ a \in T \ S
    OBVIOUS
  <2>2. R[S \cup {a}] = R[S] + w[a]
    BY <2>1 DEF SumOf
  <2> QED BY <2>1, <2>2
<1> QED BY <1>3, <1>4

\* The weights w and v of the members of S differ at most in that of a.
DifferAt(a, w, v, S) ==
  /\ a \in S
  /\ \A b \in S : w[b] \in Int /\ v[b] \in Int
  /\ \A b \in S : b # a => w[b] = v[b]

\* The sum when one weight changes.
LEMMA SumChanges ==
  ASSUME NEW S, NEW a, NEW w, NEW v, DifferAt(a, w, v, S),
         NEW R, SumOf(R, v, S)
  PROVE  \E Q : SumOf(Q, w, S) /\ Q[S] = (R[S] - v[a]) + w[a]
<1> USE DEF DifferAt
<1> DEFINE Q == [s \in SUBSET S |-> IF a \in s THEN (R[s] - v[a]) + w[a] ELSE R[s]]
<1>1. \A s \in SUBSET S : R[s] \in Int
  BY DEF SumOf
<1>2. Q \in [SUBSET S -> Int] /\ Q[{}] = 0 /\ Q[S] = (R[S] - v[a]) + w[a]
  BY <1>1 DEF SumOf
<1>3. ASSUME NEW s \in SUBSET S, NEW b \in S \ s PROVE Q[s \cup {b}] = Q[s] + w[b]
  <2>1. R[s \cup {b}] = R[s] + v[b] /\ s \cup {b} \in SUBSET S
    BY DEF SumOf
  <2>2. R[s] \in Int /\ w[b] \in Int /\ v[b] \in Int /\ w[a] \in Int /\ v[a] \in Int
    BY <1>1
  <2>3. CASE b = a
    BY <2>1, <2>2, <2>3
  <2>4. CASE b # a
    <3>1. w[b] = v[b] /\ (a \in s \cup {b} <=> a \in s)
      BY <2>4
    <3> QED BY <2>1, <2>2, <3>1
  <2> QED BY <2>3, <2>4
<1>4. SumOf(Q, w, S)
  <2> HIDE DEF Q
  <2> QED BY <1>2, <1>3 DEF SumOf
<1> QED BY <1>2, <1>4

\* A family of subsets of a finite set has a minimal member.
LEMMA MinimalSubset ==
  ASSUME NEW S, IsFiniteSet(S), NEW F, F \subseteq SUBSET S, F # {}
  PROVE  \E s \in F : \A t \in F : t \subseteq s => t = s
<1>1. FiniteSubsetsOf(S) = SUBSET S
  BY FS_FiniteSubsetsOfFinite
<1>2. PICK s \in F : \A t \in F : <<t, s>> \notin StrictSubsetOrdering(S)
  BY <1>1, FS_StrictSubsetOrderingWellFounded, WFMin
<1>3. ASSUME NEW t \in F, t \subseteq s, t # s PROVE FALSE
  <2> DEFINE ts == <<t, s>>
  <2>1. ts \in (SUBSET S) \X (SUBSET S) /\ ts[1] = t /\ ts[2] = s
    OBVIOUS
  <2> QED BY <1>2, <1>3, <2>1 DEF StrictSubsetOrdering
<1> QED BY <1>3

\* The table of partial sums agrees with the sum of the community modules.
LEMMA SumIsSum ==
  ASSUME NEW S, IsFiniteSet(S), NEW w, \A a \in S : w[a] \in Int, NEW R, SumOf(R, w, S)
  PROVE  MapThenSumSet(LAMBDA a : w[a], S) = R[S]
<1> DEFINE c(s)   == CHOOSE x \in s : TRUE
           Def(g) == [s \in SUBSET S |-> IF s = {} THEN 0 ELSE w[c(s)] + g[s \ {c(s)}]]
           iter   == CHOOSE g : g = Def(g)
<1>1. MapThenSumSet(LAMBDA a : w[a], S) = iter[S]
  BY DEF MapThenSumSet, MapThenFoldSet
<1>2. \A s \in SUBSET S : s # {} =>
        c(s) \in s /\ s \ {c(s)} \in SUBSET S /\ (s \ {c(s)}) \cup {c(s)} = s /\ c(s) \in S \ (s \ {c(s)})
  OBVIOUS
<1> HIDE DEF c
<1>3. R = Def(R)
  <2>1. \A s \in SUBSET S : R[s] = IF s = {} THEN 0 ELSE w[c(s)] + R[s \ {c(s)}]
    <3> SUFFICES ASSUME NEW s \in SUBSET S, s # {}
                 PROVE  R[s] = w[c(s)] + R[s \ {c(s)}]
      BY DEF SumOf
    <3>1. R[(s \ {c(s)}) \cup {c(s)}] = R[s \ {c(s)}] + w[c(s)]
      BY <1>2 DEF SumOf
    <3>2. R[s \ {c(s)}] \in Int /\ w[c(s)] \in Int
      BY <1>2 DEF SumOf
    <3>3. (s \ {c(s)}) \cup {c(s)} = s
      BY <1>2
    <3>4. R[s] = R[s \ {c(s)}] + w[c(s)]
      BY <3>1, <3>3
    <3> QED BY <3>2, <3>4
  <2> QED BY <2>1 DEF SumOf
<1>4. iter = Def(iter)
  BY <1>3
<1> HIDE DEF iter
<1>5. \A s \in SUBSET S : iter[s] = R[s]
  <2> DEFINE F == {s \in SUBSET S : iter[s] # R[s]}
  <2> SUFFICES ASSUME F # {} PROVE FALSE
    OBVIOUS
  <2>0. F \subseteq SUBSET S
    OBVIOUS
  <2>1. PICK s \in F : \A t \in F : t \subseteq s => t = s
    <3> HIDE DEF F
    <3> QED BY <2>0, MinimalSubset
  <2>2. s \in SUBSET S
    BY <2>0
  <2>3. s # {}
    BY <1>3, <1>4, <2>2
  <2>4. iter[s \ {c(s)}] = R[s \ {c(s)}]
    BY <1>2, <2>1, <2>2, <2>3
  <2>5. iter[s] = w[c(s)] + iter[s \ {c(s)}] /\ R[s] = w[c(s)] + R[s \ {c(s)}]
    BY <1>3, <1>4, <2>2, <2>3
  <2> QED BY <2>4, <2>5
<1> QED BY <1>1, <1>5

-----------------------------------------------------------------------------
(* dc.total *)

Charges(p) == [a \in Action |-> Charged(p, a)]

\* dc.total covers the sum that a table of partial sums gives for the index of p.
Covered(p) == \E R : SumOf(R, Charges(p), Action) /\ R[Action] <= total[p]

\* A process that is not up has an empty index, and while it scans none but the
\* actions it has seen is in there, so that no charge is counted twice.
TotalInv ==
  \A p \in Proc :
    /\ Covered(p)
    /\ phase[p] = "down" => \A a \in Action : ~entries[p][a].ok
    /\ phase[p] = "scan" => \A a \in todo[p] : ~entries[p][a].ok

\* Charges are natural numbers.
LEMMA ChargesType ==
  ASSUME TypeOK, NEW p \in Proc
  PROVE  Charges(p) \in [Action -> Nat]
<1>1. \A a \in Action : entries[p][a] \in Entry
  BY DEF TypeOK
<1> QED BY <1>1 DEF Charges, Charged, Entry

\* A step that changes one entry of p and keeps up with its charge.
LEMMA OneCharge ==
  ASSUME TypeOK, TypeOK', NEW p \in Proc, NEW a \in Action, Covered(p),
         \A b \in Action : b # a => entries'[p][b] = entries[p][b],
         total'[p] - Charged(p, a)' >= total[p] - Charged(p, a)
  PROVE  Covered(p)'
<1>a. PICK v : v = Charges(p)
  OBVIOUS
<1>b. PICK w : w = Charges(p)'
  OBVIOUS
<1>1. v \in [Action -> Nat] /\ w \in [Action -> Nat]
  <2>1. v \in [Action -> Nat]
    BY <1>a, ChargesType
  <2>2. \A b \in Action : entries'[p][b] \in Entry
    BY DEF TypeOK
  <2>3. w \in [Action -> Nat]
    BY <1>b, <2>2 DEF Charges, Charged, Entry
  <2> QED BY <2>1, <2>3
<1>2. \A b \in Action : b # a => w[b] = v[b]
  BY <1>a, <1>b DEF Charges, Charged
<1>3. w[a] = Charged(p, a)' /\ v[a] = Charged(p, a)
  BY <1>a, <1>b DEF Charges
<1>4. PICK R : SumOf(R, v, Action) /\ R[Action] <= total[p]
  BY <1>a DEF Covered
<1>5. R[Action] \in Int
  BY <1>4 DEF SumOf
<1>6. \A b \in Action : w[b] \in Int /\ v[b] \in Int
  BY <1>1
<1>7. PICK Q : SumOf(Q, w, Action) /\ Q[Action] = (R[Action] - v[a]) + w[a]
  <2>1. DifferAt(a, w, v, Action)
    BY <1>2, <1>6 DEF DifferAt
  <2> QED BY <1>4, <2>1, SumChanges
<1>8. total[p] \in Int /\ total'[p] \in Int
  BY DEF TypeOK
<1>9. Q[Action] <= total'[p]
  BY <1>3, <1>4, <1>5, <1>6, <1>7, <1>8
<1> QED BY <1>b, <1>7, <1>9 DEF Covered

\* A step that leaves the index of p and its total alone.
LEMMA SameCharges ==
  ASSUME NEW p \in Proc, Covered(p), total'[p] = total[p],
         \A b \in Action : entries'[p][b] = entries[p][b]
  PROVE  Covered(p)'
<1>1. Charges(p)' = Charges(p)
  BY DEF Charges, Charged
<1> QED BY <1>1 DEF Covered

\* Weights of zero sum to zero.
LEMMA ZeroSum ==
  ASSUME NEW S, NEW w, \A a \in S : w[a] = 0
  PROVE  \E R : SumOf(R, w, S) /\ R[S] = 0
<1> DEFINE R == [s \in SUBSET S |-> 0]
<1>1. SumOf(R, w, S) /\ R[S] = 0
  BY DEF SumOf
<1> QED BY <1>1

\* At first no index holds anything.
LEMMA InitTotal == Init => TotalInv
<1> SUFFICES ASSUME Init, NEW p \in Proc
             PROVE  /\ Covered(p)
                    /\ \A a \in Action : ~entries[p][a].ok
  BY DEF TotalInv, Init
<1>1. (\A a \in Action : ~entries[p][a].ok) /\ total[p] = 0
  BY DEF Init, Absent
<1>2. PICK w : w = Charges(p)
  OBVIOUS
<1>3. \A a \in Action : w[a] = 0
  BY <1>1, <1>2 DEF Charges, Charged
<1>4. \E R : SumOf(R, w, Action) /\ R[Action] = 0
  BY <1>3, ZeroSum, ZenonT(40)
<1> QED BY <1>1, <1>2, <1>4 DEF Covered

\* A request that changes the charge of an action accounts for it in dc.total, but
\* for the Lookup that finds the body gone, which leaves dc.total too high.
LEMMA ThreadCharge ==
  ASSUME TypeOK, TypeOK', Provenance, TouchInv, NEW t \in Thread, ThreadNext(t),
         NEW p \in Proc, p = ProcOf[t], NEW a \in Action, a = arg[t]
  PROVE  \/ UNCHANGED <<entries, total>>
         \/ /\ \A b \in Action : b # a => entries'[p][b] = entries[p][b]
            /\ total'[p] - Charged(p, a)' >= total[p] - Charged(p, a)
<1> DEFINE e == entries[p][a]
<1>1. p \in Proc /\ a \in Action /\ p = ProcOf[t] /\ a = arg[t]
  OBVIOUS
<1>2. e \in Entry /\ total[p] \in Int /\ entries \in [Proc -> [Action -> Entry]]
  BY <1>1 DEF TypeOK
<1>3. Charged(p, a) \in Nat
  BY <1>2 DEF Charged, Entry
<1>4. CASE Commit(t)
  <2>1. Size[val[t]] \in Nat
    BY <1>1, <1>4, ConstantsAssumption DEF Commit, Provenance, InstallSteps
  <2>2. entries'[p][a] = [ok |-> TRUE, size |-> Size[val[t]], acc |-> now,
                          hasBody |-> TRUE, meta |-> val[t], path |-> TRUE]
    BY <1>1, <1>4 DEF Commit, TypeOK
  <2>3. Charged(p, a)' = Size[val[t]]
    BY <2>2 DEF Charged
  <2>4. total'[p] = (total[p] - Charged(p, a)) + Size[val[t]]
    BY <1>1, <1>4 DEF Commit, Recharged, TypeOK
  <2>5. \A b \in Action : b # a => entries'[p][b] = entries[p][b]
    BY <1>1, <1>4 DEF Commit, TypeOK
  <2>6. total'[p] - Charged(p, a)' >= total[p] - Charged(p, a)
    BY <1>2, <1>3, <2>1, <2>3, <2>4
  <2> QED BY <2>5, <2>6
<1>5. CASE Forget(t)
  <2>1. entries'[p][a] = Absent
    BY <1>1, <1>5 DEF Forget, TypeOK
  <2>2. Charged(p, a)' = 0
    BY <2>1 DEF Charged, Absent
  <2>3. total'[p] = (total[p] - Charged(p, a)) + 0
    BY <1>1, <1>5 DEF Forget, Recharged, TypeOK
  <2>4. \A b \in Action : b # a => entries'[p][b] = entries[p][b]
    BY <1>1, <1>5 DEF Forget, TypeOK
  <2>5. total'[p] - Charged(p, a)' >= total[p] - Charged(p, a)
    BY <1>2, <1>3, <2>2, <2>3
  <2> QED BY <2>4, <2>5
<1>6. CASE MarkGone(t) \/ Touch(t) \/ Promote(t)
  <2>1. total'[p] = total[p]
    BY <1>6 DEF MarkGone, Touch, Promote
  <2>2. \A b \in Action : b # a => entries'[p][b] = entries[p][b]
    BY <1>1, <1>6 DEF MarkGone, Touch, Promote, TypeOK
  <2>3. PICK f : f = entries'[p][a]
    OBVIOUS
  <2>4. f.ok = e.ok /\ f.size = e.size /\ (f.hasBody => e.hasBody)
    <3>1. CASE MarkGone(t)
      <4>1. f = IF e.ok THEN [e EXCEPT !.hasBody = FALSE, !.path = FALSE] ELSE e
        BY <1>1, <1>2, <2>3, <3>1 DEF MarkGone
      <4> HIDE DEF e
      <4> QED BY <1>2, <4>1 DEF Entry
    <3>2. CASE Touch(t)
      <4>1. f = IF e.ok THEN [e EXCEPT !.acc = now] ELSE e
        BY <1>1, <1>2, <2>3, <3>2 DEF Touch
      <4> HIDE DEF e
      <4> QED BY <1>2, <4>1 DEF Entry
    <3>3. CASE Promote(t)
      <4>1. f = IF e.ok THEN [e EXCEPT !.acc = now, !.meta = val[t], !.path = TRUE] ELSE e
        BY <1>1, <1>2, <2>3, <3>3 DEF Promote
      <4> HIDE DEF e
      <4> QED BY <1>2, <4>1 DEF Entry
    <3> QED BY <1>6, <3>1, <3>2, <3>3
  <2>5. Charged(p, a)' = (IF f.ok /\ f.hasBody THEN f.size ELSE 0)
    BY <2>3 DEF Charged
  <2>6. Charged(p, a) = (IF e.ok /\ e.hasBody THEN e.size ELSE 0)
    BY DEF Charged
  <2>7. e.size \in Nat /\ e.ok \in BOOLEAN /\ e.hasBody \in BOOLEAN
    BY <1>2 DEF Entry
  <2>8. total[p] - Charged(p, a)' >= total[p] - Charged(p, a)
    <3> HIDE DEF e
    <3>1. Charged(p, a)' = 0 \/ Charged(p, a)' = Charged(p, a)
      BY <2>4, <2>5, <2>6
    <3> QED BY <1>2, <1>3, <3>1
  <2> QED BY <2>1, <2>2, <2>8
<1> QED BY <1>4, <1>5, <1>6
      DEF ThreadNext, index, StartInstall, RenameBody, OpenMetaTmp, WriteMetaTmp, RenameMetaTmp,
          InstallFails, RemoveMetaTmp, UndoBody, StartLookup, StatFast, ReadMeta, StatSlow,
          RemoveBody, RemoveMeta

\* The steps of requests.
LEMMA ThreadTotal ==
  ASSUME TypeOK, TypeOK', Provenance, TouchInv, TotalInv, NEW t \in Thread, ThreadNext(t)
  PROVE  TotalInv'
<1>1. ProcOf[t] \in Proc /\ arg[t] \in Action /\ phase[ProcOf[t]] = "run"
        /\ UNCHANGED <<phase, todo>>
  BY ThreadFrame
<1>2. \A p \in Proc : p # ProcOf[t] =>
        total'[p] = total[p] /\ \A a \in Action : entries'[p][a] = entries[p][a]
  BY ThreadFrame
<1>3. ASSUME NEW p \in Proc, p # ProcOf[t]
      PROVE  /\ Covered(p)'
             /\ phase'[p] = "down" => \A a \in Action : ~entries'[p][a].ok
             /\ phase'[p] = "scan" => \A a \in todo'[p] : ~entries'[p][a].ok
  <2>1. Covered(p)'
    BY <1>2, <1>3, SameCharges DEF TotalInv
  <2>2. todo[p] \in SUBSET Action
    BY DEF TypeOK
  <2> QED BY <1>1, <1>2, <1>3, <2>1, <2>2 DEF TotalInv
<1>4. ASSUME NEW p \in Proc, p = ProcOf[t]
      PROVE  Covered(p)'
  <2>1. PICK a \in Action : a = arg[t]
    BY <1>1
  <2>2. CASE UNCHANGED <<entries, total>>
    BY <2>2, SameCharges DEF TotalInv
  <2>3. CASE /\ \A b \in Action : b # a => entries'[p][b] = entries[p][b]
             /\ total'[p] - Charged(p, a)' >= total[p] - Charged(p, a)
    BY <2>3, OneCharge DEF TotalInv
  <2> QED BY <1>4, <2>1, <2>2, <2>3, ThreadCharge
<1> QED BY <1>1, <1>3, <1>4 DEF TotalInv

\* The steps of a process: scan charges what it lists, Trim credits what it evicts.
LEMMA ProcTotal ==
  ASSUME TypeOK, TypeOK', TotalInv, NEW p \in Proc, ProcNext(p)
  PROVE  TotalInv'
<1> USE DEF TypeOK, TotalInv
<1>1. CASE Start(p)
  BY <1>1, SameCharges DEF Start
<1>2. ASSUME NEW a \in Action, ScanEntry(p, a) PROVE TotalInv'
  <2>1. PICK seen \in BOOLEAN :
          /\ entries' = [entries EXCEPT ![p][a] =
               IF seen THEN [ok |-> TRUE, size |-> LengthOf(body[a]), acc |-> mtime[a],
                             hasBody |-> TRUE, meta |-> Nil, path |-> FALSE]
               ELSE Absent]
          /\ total' = [total EXCEPT ![p] = @ + IF seen THEN LengthOf(body[a]) ELSE 0]
    BY <1>2 DEF ScanEntry
  <2>2. LengthOf(body[a]) \in Nat
    BY ConstantsAssumption DEF LengthOf
  <2>3. Charged(p, a) = 0 /\ total[p] \in Int
    BY <1>2 DEF Charged, ScanEntry
  <2>4. Charged(p, a)' = IF seen THEN LengthOf(body[a]) ELSE 0
    BY <2>1 DEF Charged, Absent
  <2>5. total'[p] = total[p] + IF seen THEN LengthOf(body[a]) ELSE 0
    BY <2>1
  <2>6. total'[p] - Charged(p, a)' >= total[p] - Charged(p, a)
    BY <2>2, <2>3, <2>4, <2>5
  <2>7. \A b \in Action : b # a => entries'[p][b] = entries[p][b]
    BY <2>1
  <2>8. Covered(p)'
    BY <2>6, <2>7, OneCharge
  <2>9. ASSUME NEW q \in Proc, q # p PROVE Covered(q)'
    <3>1. total'[q] = total[q] /\ \A b \in Action : entries'[q][b] = entries[q][b]
      BY <2>1, <2>9
    <3> QED BY <3>1, SameCharges
  <2>10. \A q \in Proc :
           /\ phase'[q] = "down" => \A b \in Action : ~entries'[q][b].ok
           /\ phase'[q] = "scan" => \A b \in todo'[q] : ~entries'[q][b].ok
    BY <1>2, <2>1 DEF ScanEntry
  <2> QED BY <2>8, <2>9, <2>10
<1>3. ASSUME UNCHANGED <<entries, total>>,
             Serve(p) \/ BeginClose(p) \/ Selected(p) \/ \E a \in Action : Select(p, a)
      PROVE  TotalInv'
  <2>1. \A q \in Proc : Covered(q)'
    BY <1>3, SameCharges
  <2>2. \A q \in Proc :
          /\ phase'[q] = "down" => phase[q] = "down"
          /\ phase'[q] = "scan" => phase[q] = "scan" /\ todo'[q] = todo[q]
    BY <1>3 DEF Serve, BeginClose, Selected, Select
  <2> QED BY <1>3, <2>1, <2>2
<1>4. ASSUME NEW a \in Action, EvictOne(p, a) PROVE TotalInv'
  <2>1. total' = [total EXCEPT ![p] = (total[p] - Charged(p, a)) + 0]
    BY <1>4 DEF EvictOne, Recharged
  <2>2. entries'[p][a].hasBody = FALSE
    BY <1>4 DEF EvictOne, Entry
  <2>3. Charged(p, a)' = 0
    BY <2>2 DEF Charged
  <2>4. Charged(p, a) \in Nat /\ total[p] \in Int
    BY DEF Charged, Entry
  <2>5. total'[p] - Charged(p, a)' >= total[p] - Charged(p, a)
    BY <2>1, <2>3, <2>4
  <2>6. \A b \in Action : b # a => entries'[p][b] = entries[p][b]
    BY <1>4 DEF EvictOne
  <2>7. Covered(p)'
    BY <2>5, <2>6, OneCharge
  <2>8. ASSUME NEW q \in Proc, q # p
        PROVE  total'[q] = total[q] /\ \A b \in Action : entries'[q][b] = entries[q][b]
    BY <1>4, <2>8 DEF EvictOne
  <2>9. ASSUME NEW q \in Proc, q # p PROVE Covered(q)'
    BY <2>8, <2>9, SameCharges
  <2> QED BY <1>4, <2>7, <2>8, <2>9 DEF EvictOne
<1>5. ASSUME Discard(p) PROVE TotalInv'
  <2>1. \A a \in Action : ~entries'[p][a].ok
    BY <1>5 DEF Discard, Absent
  <2>2. total'[p] = 0
    BY <1>5 DEF Discard
  <2>3. Covered(p)'
    <3>1. PICK w : w = Charges(p)'
      OBVIOUS
    <3>2. \A a \in Action : w[a] = 0
      BY <2>1, <3>1 DEF Charges, Charged
    <3>3. \E R : SumOf(R, w, Action) /\ R[Action] = 0
      BY <3>2, ZeroSum, Zenon
    <3> QED BY <2>2, <3>1, <3>3 DEF Covered
  <2>4. ASSUME NEW q \in Proc, q # p
        PROVE  /\ total'[q] = total[q] /\ \A b \in Action : entries'[q][b] = entries[q][b]
               /\ phase'[q] = phase[q] /\ todo'[q] = todo[q]
    BY <1>5, <2>4 DEF Discard
  <2>5. ASSUME NEW q \in Proc, q # p PROVE Covered(q)'
    BY <2>4, <2>5, SameCharges
  <2>6. phase'[p] = "down"
    BY <1>5 DEF Discard
  <2> QED BY <2>1, <2>3, <2>4, <2>5, <2>6
<1> QED BY <1>1, <1>2, <1>3, <1>4, <1>5
      DEF ProcNext, Exit, Crash, Serve, BeginClose, Selected, Select

\* Every step keeps the total above the charges.
LEMMA NextTotal ==
  SourceInv /\ SourceInv' /\ TouchInv /\ TotalInv /\ [Next]_vars => TotalInv'
<1> SUFFICES ASSUME SourceInv, SourceInv', TouchInv, TotalInv, [Next]_vars PROVE TotalInv'
  OBVIOUS
<1>1. TypeOK /\ TypeOK' /\ Provenance
  BY DEF SourceInv
<1>2. ASSUME NEW t \in Thread, ThreadNext(t) PROVE TotalInv'
  BY <1>1, <1>2, ThreadTotal
<1>3. ASSUME NEW p \in Proc, ProcNext(p) PROVE TotalInv'
  BY <1>1, <1>3, ProcTotal
<1>4. ASSUME UNCHANGED <<entries, total, phase, todo>> PROVE TotalInv'
  BY <1>4 DEF TotalInv, Covered, Charges, Charged
<1> QED BY <1>2, <1>3, <1>4 DEF Next, PowerLoss, Rot, Tick, vars, index

\* Requests run only while their process serves, and every entry is at least as
\* young as the last touch of it, in every reachable state.
THEOREM TouchInvariant == Spec => []TouchInv
BY InitTouch, NextTouch, TypeCorrect, PTL DEF Spec

\* dc.total is never below the sum of what the index charges, whatever Installs,
\* Lookups, Removes, scans and Trims of all processes do to the directory in
\* between, so Trim never takes the cache for smaller than its index says.
THEOREM TotalCoversIndex == Spec => []TotalCovers
<1>1. TypeOK /\ TotalInv => TotalCovers
  <2> SUFFICES ASSUME TypeOK, TotalInv, NEW p \in Proc
               PROVE  total[p] >= MapThenSumSet(LAMBDA a : Charged(p, a), Action)
    BY DEF TotalCovers
  <2>1. PICK w : w = Charges(p)
    OBVIOUS
  <2>2. PICK R : SumOf(R, w, Action) /\ R[Action] <= total[p]
    BY <2>1 DEF TotalInv, Covered
  <2>3. \A a \in Action : w[a] \in Int
    BY <2>1, ChargesType
  <2>4. MapThenSumSet(LAMBDA a : w[a], Action) = R[Action]
    BY <2>2, <2>3, ActionsAssumption, SumIsSum
  <2>5. MapThenSumSet(LAMBDA a : w[a], Action) = MapThenSumSet(LAMBDA a : Charged(p, a), Action)
    BY <2>1 DEF MapThenSumSet, MapThenFoldSet, Charges
  <2>6. R[Action] \in Int /\ total[p] \in Int
    BY <2>2 DEF SumOf, TypeOK
  <2> QED BY <2>2, <2>4, <2>5, <2>6
<1>2. SourceInv => TypeOK
  BY DEF SourceInv
<1> QED BY <1>1, <1>2, InitTotal, NextTotal, SourceInvariant, TouchInvariant, PTL DEF Spec

-----------------------------------------------------------------------------
(* What Trim plans *)

EntrySizes(p) == [a \in Action |-> entries[p][a].size]

\* The planned total is the actual one less the sizes still to be evicted.
Planned(p) ==
  \E R : SumOf(R, EntrySizes(p), evict[p]) /\ total[p] = current[p] + R[evict[p]]

\* While Trim of process p runs no request of p does, so that the entries it chose,
\* and those it may still choose, stay charged with the sizes the plan counts on.
PlanOf(p) ==
  /\ phase[p] \in {"select", "evict"} =>
       /\ evict[p] \cap todo[p] = {}
       /\ \A a \in evict[p] \cup todo[p] : entries[p][a].ok /\ entries[p][a].hasBody
       /\ Planned(p)
  /\ phase[p] = "evict" => current[p] <= target \/ todo[p] = {}
  /\ \A a \in evict[p], b \in todo[p] : entries[p][a].acc <= entries[p][b].acc
  /\ phase[p] = "select" /\ evict[p] # {} =>
       \E a \in evict[p] : current[p] + entries[p][a].size > target

PlanInv == \A p \in Proc : PlanOf(p)

\* The target of Trim is a number.
LEMMA TargetType == target \in Int
BY ConstantsAssumption DEF target

\* A step that leaves the index of p alone.
LEMMA SamePlan ==
  ASSUME TypeOK, NEW p \in Proc, PlanOf(p),
         phase'[p] = phase[p], evict'[p] = evict[p], todo'[p] = todo[p],
         current'[p] = current[p], total'[p] = total[p],
         \A a \in Action : entries'[p][a] = entries[p][a]
  PROVE  PlanOf(p)'
<1>1. EntrySizes(p)' = EntrySizes(p)
  BY DEF EntrySizes
<1>2. Planned(p) => Planned(p)'
  BY <1>1 DEF Planned
<1>3. evict[p] \in SUBSET Action /\ todo[p] \in SUBSET Action
  BY DEF TypeOK
<1> QED BY <1>2, <1>3 DEF PlanOf

\* Outside Trim there is no plan.
LEMMA NoPlan ==
  ASSUME NEW p \in Proc, phase'[p] \notin {"select", "evict"}, evict'[p] = {}
  PROVE  PlanOf(p)'
BY DEF PlanOf

\* UnpinAll and the start of Trim: nothing is planned yet.
LEMMA BeginClosePlan ==
  ASSUME TypeOK, TouchInv, NEW p \in Proc, BeginClose(p)
  PROVE  PlanOf(p)'
<1>1. evict'[p] = {} /\ phase'[p] = "select" /\ total'[p] = total[p] /\ current'[p] = total[p]
  BY DEF BeginClose, TouchInv, TypeOK
<1>2. \A a \in todo'[p] : entries'[p][a].ok /\ entries'[p][a].hasBody
  BY DEF BeginClose, Candidates, TypeOK
<1>3. Planned(p)'
  <2>1. PICK w : w = EntrySizes(p)'
    OBVIOUS
  <2>2. \E R : SumOf(R, w, {}) /\ R[{}] = 0
    BY ZeroSum
  <2>3. total[p] \in Int
    BY DEF TypeOK
  <2> QED BY <1>1, <2>1, <2>2, <2>3 DEF Planned
<1> QED BY <1>1, <1>2, <1>3 DEF PlanOf

\* A round of the selection: the plan takes one more entry, the coldest, and was
\* still above the target before it.
LEMMA SelectPlan ==
  ASSUME TypeOK, PlanInv, NEW p \in Proc, NEW a \in Action, Select(p, a)
  PROVE  PlanOf(p)'
<1>1. /\ phase[p] = "select" /\ phase'[p] = "select" /\ a \in todo[p]
      /\ evict'[p] = evict[p] \cup {a} /\ todo'[p] = todo[p] \ {a}
      /\ current'[p] = current[p] - entries[p][a].size /\ current[p] > target
      /\ total'[p] = total[p] /\ entries' = entries
      /\ \A b \in todo[p] : entries[p][a].acc <= entries[p][b].acc
  BY DEF Select, Coldest, TypeOK
<1>2. PlanOf(p) /\ evict[p] \in SUBSET Action /\ todo[p] \in SUBSET Action
  BY DEF PlanInv, TypeOK
<1>3. a \notin evict[p]
  BY <1>1, <1>2 DEF PlanOf
<1>4. \A b \in Action : entries[p][b].size \in Int
  BY DEF TypeOK, Entry
<1>5. Planned(p)'
  <2>1. PICK w : w = EntrySizes(p)
    OBVIOUS
  <2>2. PICK S : S = evict[p]
    OBVIOUS
  <2>3. PICK R : SumOf(R, w, S) /\ total[p] = current[p] + R[S]
    BY <1>1, <1>2, <2>1, <2>2 DEF PlanOf, Planned
  <2>4. w[a] \in Int /\ \A b \in S : w[b] \in Int
    BY <1>2, <1>4, <2>1, <2>2 DEF EntrySizes
  <2>a. PICK T : T = S \cup {a}
    OBVIOUS
  <2>b. OneMore(T, S, a, w)
    BY <1>3, <2>a, <2>2, <2>4 DEF OneMore
  <2>5. PICK Q : SumOf(Q, w, T) /\ Q[T] = R[S] + w[a]
    BY <2>b, <2>3, SumAdds
  <2>6. EntrySizes(p)' = w /\ evict'[p] = T /\ w[a] = entries[p][a].size
    BY <1>1, <2>1, <2>2, <2>a DEF EntrySizes
  <2>7. R[S] \in Int /\ total[p] \in Int /\ current[p] \in Int
    BY <2>3 DEF SumOf, TypeOK
  <2>8. total'[p] = current'[p] + Q[T]
    BY <1>1, <2>3, <2>4, <2>5, <2>6, <2>7
  <2> QED BY <2>5, <2>6, <2>8 DEF Planned
<1>6. current'[p] + entries'[p][a].size > target
  <2>1. current[p] \in Int /\ entries[p][a].size \in Int
    BY <1>4 DEF TypeOK
  <2> QED BY <1>1, <2>1, TargetType
<1>7. \A c \in evict'[p], b \in todo'[p] : entries'[p][c].acc <= entries'[p][b].acc
  BY <1>1, <1>2 DEF PlanOf
<1>8. evict'[p] \cap todo'[p] = {}
  BY <1>1, <1>2 DEF PlanOf
<1>9. \A b \in evict'[p] \cup todo'[p] : entries'[p][b].ok /\ entries'[p][b].hasBody
  BY <1>1, <1>2 DEF PlanOf
<1> QED BY <1>1, <1>5, <1>6, <1>7, <1>8, <1>9 DEF PlanOf

\* A round of the eviction: the total gives up what the plan counted for the entry.
LEMMA EvictPlan ==
  ASSUME TypeOK, PlanInv, NEW p \in Proc, NEW a \in Action, EvictOne(p, a)
  PROVE  PlanOf(p)'
<1>1. /\ phase[p] = "evict" /\ phase'[p] = "evict" /\ a \in evict[p]
      /\ evict'[p] = evict[p] \ {a} /\ todo'[p] = todo[p] /\ current'[p] = current[p]
      /\ total'[p] = (total[p] - Charged(p, a)) + 0
      /\ \A b \in Action : b # a => entries'[p][b] = entries[p][b]
      /\ entries'[p][a] = [entries[p][a] EXCEPT !.hasBody = FALSE, !.path = FALSE]
  BY DEF EvictOne, Coldest, Recharged, TypeOK
<1>2. PlanOf(p) /\ evict[p] \in SUBSET Action /\ todo[p] \in SUBSET Action
  BY DEF PlanInv, TypeOK
<1>3. entries[p][a] \in Entry /\ \A b \in Action : entries[p][b].size \in Int
  BY DEF TypeOK, Entry
<1>4. \A b \in Action : entries'[p][b].size = entries[p][b].size
                          /\ entries'[p][b].acc = entries[p][b].acc
  <2>1. entries'[p][a].size = entries[p][a].size /\ entries'[p][a].acc = entries[p][a].acc
    BY <1>1, <1>3 DEF Entry
  <2> QED BY <1>1, <2>1
<1>5. Charged(p, a) = entries[p][a].size
  BY <1>1, <1>2 DEF PlanOf, Charged
<1>6. Planned(p)'
  <2>1. PICK w : w = EntrySizes(p)
    OBVIOUS
  <2>2. PICK S : S = evict[p]
    OBVIOUS
  <2>3. PICK R : SumOf(R, w, S) /\ total[p] = current[p] + R[S]
    BY <1>1, <1>2, <2>1, <2>2 DEF PlanOf, Planned
  <2>a. PICK T : T = S \ {a}
    OBVIOUS
  <2>b. OneMore(S, T, a, w)
    BY <1>1, <1>2, <1>3, <2>1, <2>2, <2>a DEF OneMore, EntrySizes
  <2>4. PICK Q : SumOf(Q, w, T) /\ R[S] = Q[T] + w[a]
    BY <2>b, <2>3, SumDrops
  <2>5. EntrySizes(p)' = w /\ evict'[p] = T /\ w[a] = entries[p][a].size
    BY <1>1, <1>4, <2>1, <2>2, <2>a DEF EntrySizes
  <2>6. Q[T] \in Int /\ total[p] \in Int /\ current[p] \in Int /\ w[a] \in Int
    BY <1>3, <2>4, <2>5 DEF SumOf, TypeOK
  <2>7. total'[p] = current'[p] + Q[T]
    BY <1>1, <1>5, <2>3, <2>4, <2>5, <2>6
  <2> QED BY <2>4, <2>5, <2>7 DEF Planned
<1>7. evict'[p] \cap todo'[p] = {} /\ a \notin todo[p]
  BY <1>1, <1>2 DEF PlanOf
<1>8. \A b \in evict'[p] \cup todo'[p] : entries'[p][b].ok /\ entries'[p][b].hasBody
  BY <1>1, <1>2, <1>7 DEF PlanOf
<1>9. \A c \in evict'[p], b \in todo'[p] : entries'[p][c].acc <= entries'[p][b].acc
  BY <1>1, <1>2, <1>4 DEF PlanOf
<1>10. current'[p] <= target \/ todo'[p] = {}
  BY <1>1, <1>2 DEF PlanOf
<1> QED BY <1>1, <1>6, <1>7, <1>8, <1>9, <1>10 DEF PlanOf

\* The end of the selection.
LEMMA SelectedPlan ==
  ASSUME TypeOK, PlanInv, NEW p \in Proc, Selected(p)
  PROVE  PlanOf(p)'
<1>1. /\ phase[p] = "select" /\ phase'[p] = "evict"
      /\ UNCHANGED <<entries, total, todo, evict, current>>
      /\ current[p] <= target \/ todo[p] = {}
  BY DEF Selected, TypeOK
<1>2. PlanOf(p)
  BY DEF PlanInv
<1>3. Planned(p)'
  <2>1. Planned(p)
    BY <1>1, <1>2 DEF PlanOf
  <2> QED BY <1>1, <2>1 DEF Planned, EntrySizes
<1> QED BY <1>1, <1>2, <1>3 DEF PlanOf

\* The steps of a process.
LEMMA ProcPlan ==
  ASSUME TypeOK, TouchInv, TouchInv', PlanInv, NEW p \in Proc, ProcNext(p)
  PROVE  PlanInv'
<1>1. PlanOf(p)'
  <2>1. CASE Start(p) \/ Serve(p) \/ Discard(p) \/ \E a \in Action : ScanEntry(p, a)
    <3>1. phase'[p] \notin {"select", "evict"}
      BY <2>1 DEF Start, Serve, Discard, ScanEntry, TypeOK
    <3>2. evict'[p] = {}
      BY <3>1 DEF TouchInv
    <3> QED BY <3>1, <3>2, NoPlan
  <2> QED BY <2>1, BeginClosePlan, SelectPlan, SelectedPlan, EvictPlan DEF ProcNext, Exit, Crash
<1>2. ASSUME NEW q \in Proc, q # p PROVE PlanOf(q)'
  <2>1. /\ phase'[q] = phase[q] /\ evict'[q] = evict[q] /\ todo'[q] = todo[q]
        /\ current'[q] = current[q] /\ total'[q] = total[q]
        /\ \A a \in Action : entries'[q][a] = entries[q][a]
    <3>1. CASE Start(p) \/ Serve(p) \/ Selected(p)
      BY <1>2, <3>1 DEF TypeOK, Start, Serve, Selected
    <3>2. CASE BeginClose(p)
      BY <1>2, <3>2 DEF TypeOK, BeginClose
    <3>3. CASE Discard(p)
      BY <1>2, <3>3 DEF TypeOK, Discard
    <3>4. ASSUME NEW a \in Action, ScanEntry(p, a) PROVE <2>1!:
      BY <1>2, <3>4 DEF TypeOK, ScanEntry
    <3>5. ASSUME NEW a \in Action, Select(p, a) PROVE <2>1!:
      BY <1>2, <3>5 DEF TypeOK, Select
    <3>6. ASSUME NEW a \in Action, EvictOne(p, a) PROVE <2>1!:
      BY <1>2, <3>6 DEF TypeOK, EvictOne
    <3> QED BY <3>1, <3>2, <3>3, <3>4, <3>5, <3>6 DEF ProcNext, Exit, Crash
  <2> QED BY <2>1, SamePlan DEF PlanInv
<1> QED BY <1>1, <1>2 DEF PlanInv

\* Every step keeps the plans.
LEMMA NextPlan ==
  TypeOK /\ TouchInv /\ TouchInv' /\ PlanInv /\ [Next]_vars => PlanInv'
<1> SUFFICES ASSUME TypeOK, TouchInv, TouchInv', PlanInv, [Next]_vars PROVE PlanInv'
  OBVIOUS
<1>1. ASSUME NEW t \in Thread, ThreadNext(t), NEW p \in Proc PROVE PlanOf(p)'
  <2>1. phase[ProcOf[t]] = "run" /\ UNCHANGED <<phase, todo, evict, current>>
    BY <1>1, ThreadFrame
  <2>2. CASE p = ProcOf[t]
    <3>1. phase'[p] \notin {"select", "evict"}
      BY <2>1, <2>2
    <3>2. evict'[p] = {}
      BY <3>1 DEF TouchInv
    <3> QED BY <3>1, <3>2, NoPlan
  <2>3. CASE p # ProcOf[t]
    <3>1. total'[p] = total[p] /\ \A a \in Action : entries'[p][a] = entries[p][a]
      BY <1>1, <2>3, ThreadFrame
    <3> QED BY <2>1, <3>1, SamePlan DEF PlanInv
  <2> QED BY <2>2, <2>3
<1>2. ASSUME NEW p \in Proc, ProcNext(p) PROVE PlanInv'
  BY <1>2, ProcPlan
<1>3. ASSUME UNCHANGED index PROVE PlanInv'
  BY <1>3, SamePlan DEF PlanInv, index
<1> QED BY <1>1, <1>2, <1>3 DEF Next, PowerLoss, Rot, Tick, vars, PlanInv

\* Trim chooses the coldest candidates and no more than it needs, and ends with
\* exactly the total it planned, at most the target unless it ran out of
\* candidates, for every number of entries, every size and every order of accesses.
THEOREM TrimKeepsItsPlan == Spec => []TrimPlanRight
<1>1. Init => PlanInv
  BY DEF Init, PlanInv, PlanOf
<1>2. TypeOK /\ PlanInv => TrimPlanRight
  <2> SUFFICES ASSUME TypeOK, PlanInv, NEW p \in Proc, phase[p] = "evict", evict[p] = {}
               PROVE  total[p] = current[p]
    BY DEF PlanInv, PlanOf, TrimPlanRight
  <2>a. Planned(p)
    BY DEF PlanInv, PlanOf
  <2>b. PICK R : SumOf(R, EntrySizes(p), evict[p]) /\ total[p] = current[p] + R[evict[p]]
    BY <2>a DEF Planned
  <2>1. R[{}] = 0 /\ total[p] = current[p] + R[{}]
    BY <2>b DEF SumOf
  <2>2. current[p] \in Int
    BY DEF TypeOK
  <2> QED BY <2>1, <2>2
<1> QED BY <1>1, <1>2, NextPlan, TypeCorrect, TouchInvariant, PTL DEF Spec

-----------------------------------------------------------------------------
(* No body is lost to the index *)

\* One process has the directory to itself and reads it without errors; and no
\* Remove overlaps an Install, because metadata is not damaged or because the
\* process has a single request worker.
Alone ==
  /\ \A p, q \in Proc : p = q
  /\ "io" \notin Faults
  /\ "rot" \notin Faults \/ \A t, u \in Thread : t = u

\* The steps of an Install from its rename of the body on.
Installing == {"open", "write", "rename", "rmTmp", "undo", "commit"}

\* All metadata decodes, and Remove has no reason to run.
Decodes ==
  /\ \A a \in Action : meta[a] # BadHex /\ metaTmp[a] # BadHex
  /\ \A p \in Proc : \A a \in Action : entries[p][a].meta # BadHex
  /\ \A t \in Thread : val[t] # BadHex /\ pc[t] \notin {"rmBody", "rmMeta", "forget"}

\* A body is in the index, or scan is still to come to it, or the Install that put
\* it there is still to commit or to undo it.
KnownBodies ==
  \A p \in Proc : \A a \in Action :
    body[a] # Nil =>
      /\ phase[p] = "scan" => a \in todo[p] \/ entries[p][a].ok
      /\ phase[p] = "run" =>
           \/ entries[p][a].ok
           \/ \E t \in Thread : arg[t] = a /\ pc[t] \in Installing

IndexedInv ==
  /\ \A t \in Thread : pc[t] \in {"rmMeta", "forget"} => body[arg[t]] = Nil
  /\ KnownBodies
  /\ "rot" \notin Faults => Decodes

\* No step of a request brings in metadata that does not decode.
LEMMA ThreadDecodes ==
  ASSUME TypeOK, Decodes, NEW t \in Thread, ThreadNext(t)
  PROVE  Decodes'
<1>1. ProcOf[t] \in Proc /\ arg[t] \in Action
  BY ConstantsAssumption DEF TypeOK
<1> USE <1>1, ConstantsAssumption
    DEF TypeOK, Decodes, Goto, Return, Found, Nil, Empty, Garbled, BadHex
<1>2. ASSUME NEW a \in Action, NEW o \in Output, StartInstall(t, a, o) PROVE Decodes'
  BY <1>2 DEF StartInstall, index
<1>3. ASSUME WriteMetaTmp(t) PROVE Decodes'
  <2>1. PICK good \in BOOLEAN : WriteMetaTmp(t)!2!(good)
    BY <1>3 DEF WriteMetaTmp
  <2>2. PICK c \in Written(IF fd[t] = "tmp" THEN metaTmp[arg[t]] ELSE meta[arg[t]], val[t], good) :
          /\ metaTmp' = [metaTmp EXCEPT ![arg[t]] = IF fd[t] = "tmp" THEN c ELSE @]
          /\ meta' = [meta EXCEPT ![arg[t]] = IF fd[t] = "meta" THEN c ELSE @]
    BY <2>1
  <2>3. c # BadHex
    BY <2>2 DEF Written, Overwritten
  <2> QED BY <1>3, <2>1, <2>2, <2>3 DEF WriteMetaTmp, index
<1>4. ASSUME RenameBody(t) \/ OpenMetaTmp(t) \/ RenameMetaTmp(t) \/ InstallFails(t)
               \/ RemoveMetaTmp(t) \/ UndoBody(t)
      PROVE  Decodes'
  BY <1>4 DEF RenameBody, OpenMetaTmp, RenameMetaTmp, InstallFails, RemoveMetaTmp, UndoBody, Removed,
            disk, index
<1>5. ASSUME Commit(t) PROVE Decodes'
  BY <1>5 DEF Commit, disk
<1>6. ASSUME NEW a \in Action, StartLookup(t, a) PROVE Decodes'
  BY <1>6 DEF StartLookup, disk, index
<1>7. ASSUME StatFast(t) \/ ReadMeta(t) \/ StatSlow(t) PROVE Decodes'
  BY <1>7 DEF StatFast, ReadMeta, StatSlow, disk, index
<1>8. ASSUME NEW f, entries' = [entries EXCEPT ![ProcOf[t]][arg[t]] = f], f.meta # BadHex,
             MarkGone(t) \/ Touch(t) \/ Promote(t)
      PROVE  Decodes'
  BY <1>8 DEF MarkGone, Touch, Promote, disk
<1> DEFINE e == entries[ProcOf[t]][arg[t]]
<1>9. e \in Entry /\ e.meta # BadHex /\ val[t] # BadHex
  OBVIOUS
<1>10. ASSUME MarkGone(t) PROVE Decodes'
  <2>1. PICK f : f = IF e.ok THEN [e EXCEPT !.hasBody = FALSE, !.path = FALSE] ELSE e
    OBVIOUS
  <2>2. entries' = [entries EXCEPT ![ProcOf[t]][arg[t]] = f]
    BY <1>10, <2>1 DEF MarkGone
  <2>3. f.meta # BadHex
    <3> HIDE DEF e
    <3> QED BY <1>9, <2>1 DEF Entry
  <2> QED BY <1>8, <1>10, <2>2, <2>3
<1>11. ASSUME Touch(t) PROVE Decodes'
  <2>1. PICK f : f = IF e.ok THEN [e EXCEPT !.acc = now] ELSE e
    OBVIOUS
  <2>2. entries' = [entries EXCEPT ![ProcOf[t]][arg[t]] = f]
    BY <1>11, <2>1 DEF Touch
  <2>3. f.meta # BadHex
    <3> HIDE DEF e
    <3> QED BY <1>9, <2>1 DEF Entry
  <2> QED BY <1>8, <1>11, <2>2, <2>3
<1>12. ASSUME Promote(t) PROVE Decodes'
  <2>1. PICK f : f = IF e.ok THEN [e EXCEPT !.acc = now, !.meta = val[t], !.path = TRUE] ELSE e
    OBVIOUS
  <2>2. entries' = [entries EXCEPT ![ProcOf[t]][arg[t]] = f]
    BY <1>12, <2>1 DEF Promote
  <2>3. f.meta # BadHex
    <3> HIDE DEF e
    <3> QED BY <1>9, <2>1 DEF Entry
  <2> QED BY <1>8, <1>12, <2>2, <2>3
<1> QED BY <1>2, <1>3, <1>4, <1>5, <1>6, <1>7, <1>10, <1>11, <1>12
      DEF ThreadNext, RemoveBody, RemoveMeta, Forget

\* A step of a request leaves a body only where an Install is to follow it up.
LEMMA ThreadIndexed ==
  ASSUME Alone, TypeOK, TouchInv, IndexedInv, NEW t \in Thread, ThreadNext(t)
  PROVE  IndexedInv'
<1> DEFINE Known   == \A a \in Action : body[a] # Nil =>
                        \/ entries[ProcOf[t]][a].ok
                        \/ \E u \in Thread : arg[u] = a /\ pc[u] \in Installing
           Emptied == \A u \in Thread : pc[u] \in {"rmMeta", "forget"} => body[arg[u]] = Nil
<1>1. /\ ProcOf[t] \in Proc /\ arg[t] \in Action
      /\ phase[ProcOf[t]] = "run"
      /\ UNCHANGED <<phase, todo>>
  BY ThreadFrame
<1>2. \A p \in Proc : p = ProcOf[t] /\ phase[p] = "run" /\ phase'[p] = "run"
  BY <1>1 DEF Alone
<1>3. /\ body \in [Action -> File] /\ pc \in [Thread -> Done \cup Steps] /\ arg \in [Thread -> Action]
      /\ entries \in [Proc -> [Action -> Entry]]
  BY DEF TypeOK
<1>4. Known /\ Emptied
  BY <1>1 DEF IndexedInv, KnownBodies
<1>5. SUFFICES Known' /\ Emptied'
  <2>1. "rot" \notin Faults => Decodes'
    BY ThreadDecodes DEF IndexedInv
  <2> QED BY <1>2, <2>1 DEF IndexedInv, KnownBodies
<1> USE DEF Done, Steps, Installing
<1>6. ASSUME UNCHANGED <<body, arg>>,
             \A a \in Action : entries'[ProcOf[t]][a].ok = entries[ProcOf[t]][a].ok,
             NEW x, pc' = [pc EXCEPT ![t] = x],
             pc[t] \in Installing => x \in Installing, x \notin {"rmMeta", "forget"}
      PROVE  Known' /\ Emptied'
  BY <1>3, <1>4, <1>6
<1> USE DEF Goto, Return, Found
<1>7. CASE \E a \in Action : StartLookup(t, a) \/ \E o \in Output : StartInstall(t, a, o)
  <2>1. pc[t] \in Done /\ UNCHANGED <<body, entries>>
    BY <1>7 DEF StartLookup, StartInstall, disk, index
  <2>2. \A u \in Thread : u # t => arg'[u] = arg[u] /\ pc'[u] = pc[u]
    BY <1>3, <1>7 DEF StartLookup, StartInstall
  <2>3. pc'[t] \notin {"rmMeta", "forget"}
    BY <1>3, <1>7 DEF StartLookup, StartInstall
  <2> QED BY <1>4, <2>1, <2>2, <2>3
<1>8. CASE RenameBody(t)
  <2>1. /\ \A a \in Action : a # arg[t] => body'[a] = body[a]
        /\ UNCHANGED <<arg, entries>>
        /\ pc' = [pc EXCEPT ![t] = "open"] /\ pc[t] = "install"
    BY <1>1, <1>3, <1>8 DEF RenameBody, index
  <2>2. \A u \in Thread : pc[u] \notin {"rmMeta", "forget"}
    BY <2>1 DEF Alone, IndexedInv, Decodes
  <2>3. Known'
    BY <1>1, <1>3, <1>4, <2>1
  <2>4. Emptied'
    BY <1>3, <2>1, <2>2
  <2> QED BY <2>3, <2>4
<1>9. CASE UndoBody(t) \/ RemoveBody(t)
  <2>1. /\ body'[arg[t]] = Nil /\ \A a \in Action : a # arg[t] => body'[a] = body[a]
        /\ UNCHANGED <<arg, entries>>
        /\ \A u \in Thread : u # t => pc'[u] = pc[u]
    BY <1>1, <1>3, <1>9 DEF UndoBody, RemoveBody, Removed, Alone, index
  <2>2. Known'
    BY <1>1, <1>3, <1>4, <2>1
  <2>3. Emptied'
    BY <1>1, <1>3, <1>4, <2>1
  <2> QED BY <2>2, <2>3
<1>10. CASE Commit(t)
  <2>1. /\ UNCHANGED <<body, arg>>
        /\ entries'[ProcOf[t]][arg[t]].ok
        /\ \A a \in Action : a # arg[t] => entries'[ProcOf[t]][a] = entries[ProcOf[t]][a]
        /\ \A u \in Thread : u # t => pc'[u] = pc[u]
        /\ pc'[t] = "ok"
    BY <1>1, <1>3, <1>10 DEF Commit, disk
  <2> QED BY <1>1, <1>3, <1>4, <2>1
<1>11. CASE Forget(t)
  <2>1. /\ UNCHANGED <<body, arg>>
        /\ \A a \in Action : a # arg[t] => entries'[ProcOf[t]][a] = entries[ProcOf[t]][a]
        /\ \A u \in Thread : u # t => pc'[u] = pc[u]
        /\ pc'[t] = "miss" /\ pc[t] = "forget"
    BY <1>1, <1>3, <1>11 DEF Forget, disk
  <2>2. body'[arg[t]] = Nil
    BY <1>4, <2>1
  <2> QED BY <1>1, <1>3, <1>4, <2>1, <2>2
<1>12. CASE RemoveMeta(t)
  <2>1. UNCHANGED <<body, arg, entries>> /\ pc' = [pc EXCEPT ![t] = "forget"] /\ pc[t] = "rmMeta"
    BY <1>12 DEF RemoveMeta, index
  <2> QED BY <1>1, <1>3, <1>4, <2>1
<1>13. CASE MarkGone(t) \/ Touch(t) \/ Promote(t)
  <2>1. \A a \in Action : entries'[ProcOf[t]][a].ok = entries[ProcOf[t]][a].ok
    <3> DEFINE e == entries[ProcOf[t]][arg[t]]
    <3>1. e \in Entry
      BY <1>1, <1>3
    <3>2. \A a \in Action : a # arg[t] => entries'[ProcOf[t]][a] = entries[ProcOf[t]][a]
      BY <1>1, <1>3, <1>13 DEF MarkGone, Touch, Promote
    <3>3. PICK f : f = entries'[ProcOf[t]][arg[t]]
      OBVIOUS
    <3>4. \/ f = [e EXCEPT !.hasBody = FALSE, !.path = FALSE]
          \/ f = [e EXCEPT !.acc = now]
          \/ f = [e EXCEPT !.acc = now, !.meta = val[t], !.path = TRUE]
          \/ f = e
      <4>1. CASE MarkGone(t)
        BY <1>1, <1>3, <3>3, <4>1 DEF MarkGone
      <4>2. CASE Touch(t)
        BY <1>1, <1>3, <3>3, <4>2 DEF Touch
      <4>3. CASE Promote(t)
        BY <1>1, <1>3, <3>3, <4>3 DEF Promote
      <4> QED BY <1>13, <4>1, <4>2, <4>3
    <3>5. f.ok = e.ok
      <4> HIDE DEF e
      <4> QED BY <3>1, <3>4 DEF Entry
    <3> QED BY <3>2, <3>3, <3>5
  <2>2. UNCHANGED <<body, arg>> /\ \E x : /\ pc' = [pc EXCEPT ![t] = x]
                                          /\ pc[t] \notin Installing
                                          /\ x \notin {"rmMeta", "forget"}
    BY <1>13 DEF MarkGone, Touch, Promote, disk
  <2> QED BY <1>6, <2>1, <2>2
<1>14. CASE OpenMetaTmp(t) \/ WriteMetaTmp(t) \/ RenameMetaTmp(t) \/ InstallFails(t)
              \/ RemoveMetaTmp(t) \/ StatFast(t) \/ ReadMeta(t) \/ StatSlow(t)
  <2>1. UNCHANGED <<body, arg, entries>>
    BY <1>14 DEF OpenMetaTmp, WriteMetaTmp, RenameMetaTmp, InstallFails, RemoveMetaTmp, StatFast,
                 ReadMeta, StatSlow, disk, index
  <2>2. \E x : /\ pc' = [pc EXCEPT ![t] = x]
               /\ pc[t] \in Installing => x \in Installing
               /\ x \notin {"rmMeta", "forget"}
    BY <1>14 DEF OpenMetaTmp, WriteMetaTmp, RenameMetaTmp, InstallFails, RemoveMetaTmp, StatFast,
                 ReadMeta, StatSlow
  <2> QED BY <1>6, <2>1, <2>2
<1> QED BY <1>7, <1>8, <1>9, <1>10, <1>11, <1>12, <1>13, <1>14 DEF ThreadNext

\* The steps of a process: scan lists every body that is there.
LEMMA ProcIndexed ==
  ASSUME Alone, TypeOK, TouchInv, IndexedInv, NEW p \in Proc, ProcNext(p)
  PROVE  IndexedInv'
<1>1. \A q \in Proc : q = p
  BY DEF Alone
<1> USE <1>1 DEF TypeOK, IndexedInv, KnownBodies, Decodes
<1>2. CASE Start(p)
  BY <1>2 DEF Start, threads
<1>3. ASSUME NEW a \in Action, ScanEntry(p, a) PROVE IndexedInv'
  BY <1>3 DEF Alone, ScanEntry, Listed, Absent, Nil, BadHex, disk, threads
<1>4. CASE Serve(p)
  BY <1>4 DEF Serve, disk, threads
<1>5. CASE BeginClose(p) \/ Selected(p) \/ \E a \in Action : Select(p, a)
  BY <1>5 DEF BeginClose, Selected, Select, disk, threads
<1>6. ASSUME NEW a \in Action, EvictOne(p, a) PROVE IndexedInv'
  BY <1>6 DEF EvictOne, Removed, Entry, threads
<1>7. ASSUME Discard(p), UNCHANGED <<disk, arg, now, touched>> PROVE IndexedInv'
  BY <1>7 DEF Discard, Absent, Nil, BadHex, disk
<1> QED BY <1>2, <1>3, <1>4, <1>5, <1>6, <1>7 DEF ProcNext, Exit, Crash

\* Every step keeps the bodies known.
LEMMA NextIndexed ==
  ASSUME Alone
  PROVE  TypeOK /\ TouchInv /\ IndexedInv /\ [Next]_vars => IndexedInv'
<1> SUFFICES ASSUME TypeOK, TouchInv, IndexedInv, [Next]_vars PROVE IndexedInv'
  OBVIOUS
<1>1. ASSUME NEW a \in Action, PowerLoss(a) PROVE IndexedInv'
  <2>1. \A t \in Thread : pc[t] \in Done
    BY <1>1, ConstantsAssumption DEF PowerLoss, TouchInv
  <2> QED BY <1>1, <2>1 DEF PowerLoss, IndexedInv, KnownBodies, Decodes, TypeOK, Done, Empty,
             BadHex, Nil, index, threads
<1>2. ASSUME NEW a \in Action, Rot(a) PROVE IndexedInv'
  BY <1>2 DEF Rot, IndexedInv, KnownBodies, index, threads
<1>3. CASE Tick \/ UNCHANGED vars
  BY <1>3 DEF Tick, vars, IndexedInv, KnownBodies, Decodes, disk, index, threads
<1> QED BY <1>1, <1>2, <1>3, ThreadIndexed, ProcIndexed DEF Next

\* A process that has the directory to itself and meets no I/O error has every
\* body file of the directory in its index whenever none of its requests runs:
\* also the bodies that earlier runs, killed between the two renames of Install,
\* or emptied by a power loss, left behind.
THEOREM BodiesAreIndexed ==
  ASSUME Alone
  PROVE  Spec => []BodyIndexed
<1>1. Init => IndexedInv
  BY DEF Init, IndexedInv, KnownBodies, Decodes, Absent, Nil, BadHex
<1>2. TypeOK /\ IndexedInv => BodyIndexed
  <2> SUFFICES ASSUME TypeOK, IndexedInv, NEW p \in Proc, phase[p] = "run", Idle(p),
                      NEW a \in Action, body[a] # Nil
               PROVE  entries[p][a].ok
    BY DEF BodyIndexed
  <2>1. \A t \in Thread : pc[t] \notin Installing
    BY ConstantsAssumption DEF Alone, Idle, Done, Installing
  <2> QED BY <2>1 DEF IndexedInv, KnownBodies
<1> QED BY <1>1, <1>2, NextIndexed, TypeCorrect, TouchInvariant, PTL DEF Spec

=============================================================================
