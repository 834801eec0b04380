----------------------------- MODULE ChainProofs -----------------------------
(***************************************************************************)
(* Theorems about Chain, for any number of rows, keys, processes, backups  *)
(* and checkpoints, and any damage within Restorable.                      *)
(***************************************************************************)
EXTENDS Chain, FunctionTheorems, FiniteSetTheorems, SequenceTheorems, TLAPS

-----------------------------------------------------------------------------
(* The invariants the proofs need.                                         *)

Row == [id : Nat, sig : Sig, prev : Seq(Link)]
Tip == [latest : Seq(Link), length : Nat, genesis : Nat]
Plan == [head : Seq(Link), adopted : SUBSET Seq(Link)]
Manifest == [plan : Plan, entry : Nat]
Image == [rows : SUBSET Row, head : Tip \cup {NoHead}, manifests : Seq(Manifest)]

\* A head is told by the bodies up to it.
Heads(h) ==
    /\ h \in Tip /\ h.latest # <<>>
    /\ h.length = Len(h.latest) /\ h.genesis = h.latest[1].id

\* tx_id is a key.
Keyed(R) ==
    /\ R \in SUBSET Row /\ IsFiniteSet(R)
    /\ \A r, q \in R : r.id = q.id => r = q

\* The row is the one at position i of the chain L, with the signature it
\* had when the chain was hashed, or with what is left of it.
Placed(r, L, i) == r.id = L[i].id /\ r.prev = SubSeq(L, 1, i - 1)
Signed(r, L, i) == r.sig = L[i].sig \/ r.sig = [L[i].sig EXCEPT !.key = Broken]

\* Every position of the chain has its row, and every other row is a genesis.
Chained(R, L) ==
    /\ \A i, j \in DOMAIN L : L[i].id = L[j].id => i = j
    /\ \A i \in DOMAIN L : \E r \in R : Placed(r, L, i) /\ Signed(r, L, i)
    /\ \A r \in R : r.prev = NoHash \/ \E i \in DOMAIN L : r.id = L[i].id

Linked(R, h) ==
    /\ Keyed(R)
    /\ h = NoHead => \A r \in R : r.prev = NoHash
    /\ h # NoHead => Heads(h) /\ Chained(R, h.latest)

\* The genesis rows that are not on the chain.
Left(R, h) == {r \in Genesis(R) : r.id # h.latest[1].id}

\* The first manifest is about these rows, as long as all of them are valid,
\* and its entry is on the chain, after the head it names.
Attested(R, h, m) ==
    m # <<>> =>
        /\ h # NoHead /\ Left(R, h) # {}
        /\ Invalid(Left(R, h)) = {} => m[1].plan.adopted = Hashes(Left(R, h))
        /\ m[1].plan.head # NoHash
        /\ \E i \in DOMAIN h.latest :
              h.latest[i].id = m[1].entry /\ SubSeq(h.latest, 1, i - 1) = m[1].plan.head

\* What a row that lost its signature had there is what signing gives now,
\* unless extra genesis rows keep re-sign away.
Repairable(R, h) ==
    Invalid(R) # {} /\ h # NoHead /\ Left(R, h) = {} =>
        /\ \A r \in R : r.sig.ver = 2
        /\ \A r \in Invalid(R), i \in DOMAIN h.latest :
              r.id = h.latest[i].id => h.latest[i].sig = Sign

\* An id is never used again, whatever was restored.
Known(R) == \A r \in R : r.id <= used

Whole(c) ==
    Linked(c.rows, c.head) /\ Attested(c.rows, c.head, c.manifests) /\ Known(c.rows)

\* What a process has read.
States ==
    {Idle} \cup [pc : {"resign", "resignApply"}, ids : SUBSET Nat, head : Seq(Link)]
           \cup [pc : {"adopt"}, plan : Plan, head : Seq(Link)]

Types ==
    /\ used \in Nat /\ key \in Keys
    /\ manifests \in Seq(Manifest)
    /\ copies \subseteq Image
    /\ \A e \in exports : Heads(e)
    /\ proc \in [Procs -> States]

Images ==
    /\ Linked(rows, head) /\ Attested(rows, head, manifests) /\ Known(rows)
    /\ Repairable(rows, head)
    /\ \A c \in copies : Whole(c)

\* A re-sign in progress knows the rows that have to be signed; if there are
\* any, they are all it signs.
Repairing(p) ==
    proc[p].pc \in {"resign", "resignApply"} =>
        /\ \A r \in Invalid(rows) : r.id \in proc[p].ids
        /\ Invalid(rows) # {} =>
              \A i \in proc[p].ids : \E r \in Invalid(rows) : r.id = i

\* The rows of a plan are the extra genesis rows until the head moves, and
\* the head does not come back.
Adopting(p) ==
    proc[p].pc = "adopt" =>
        LET h == proc[p].plan.head
        IN  /\ proc[p].head = h /\ h # NoHash
            /\ Latest = h \/ Len(Latest) > Len(h)
            /\ Latest = h =>
                  /\ Left(rows, head) # {}
                  /\ Invalid(Left(rows, head)) = {} =>
                        proc[p].plan.adopted = Hashes(Left(rows, head))
Readers == \A p \in Procs : Repairing(p) /\ Adopting(p)

\* A row of a ledger without links is at the start of a chain or on none.
Loose ==
    {r \in rows : head = NoHead} \cup UNION {{r \in c.rows : c.head = NoHead} : c \in copies}
Chains == {h.latest : h \in ({head} \cup {c.head : c \in copies} \cup exports) \ {NoHead}}
Apart == \A r \in Loose, L \in Chains : \A i \in 2..Len(L) : L[i].id # r.id

IInv == Types /\ Images /\ Readers /\ Apart

\* Re-sign of a single row meets one damaged row at most.
OneByOne == "tx" \notin Modes \/ MaxDamage <= 1
Marks ==
    /\ damage \in Nat /\ damage <= MaxDamage
    /\ damage = 0 => Invalid(rows) = {}
    /\ damage <= 1 => \A r, q \in Invalid(rows) : r = q

-----------------------------------------------------------------------------
(* Sequences, and the order of finite sets of numbers.                     *)

\* The first i elements.
LEMMA Initial ==
    ASSUME NEW S, NEW s \in Seq(S), NEW i \in 0..Len(s)
    PROVE  /\ SubSeq(s, 1, i) \in Seq(S) /\ Len(SubSeq(s, 1, i)) = i
           /\ \A j \in 1..i : SubSeq(s, 1, i)[j] = s[j]
  BY SubSeqProperties

\* The next element makes the initial part one longer.
LEMMA InitialNext ==
    ASSUME NEW S, NEW s \in Seq(S), NEW i \in 1..Len(s)
    PROVE  Append(SubSeq(s, 1, i - 1), s[i]) = SubSeq(s, 1, i)
<1> DEFINE a == SubSeq(s, 1, i - 1)
           b == SubSeq(s, 1, i)
<1>1. i - 1 \in 0..Len(s) /\ i \in 0..Len(s) /\ s[i] \in S
  OBVIOUS
<1>2. /\ a \in Seq(S) /\ Len(a) = i - 1 /\ \A j \in 1..(i - 1) : a[j] = s[j]
      /\ b \in Seq(S) /\ Len(b) = i /\ \A j \in 1..i : b[j] = s[j]
  BY <1>1, Initial
<1> HIDE DEF a, b
<1>3. /\ Append(a, s[i]) \in Seq(S) /\ Len(Append(a, s[i])) = i
      /\ \A j \in 1..i : Append(a, s[i])[j] = s[j]
  BY <1>1, <1>2, AppendProperties
<1>4. Append(a, s[i]) = b
  BY <1>2, <1>3, SeqEqual
<1>. QED
  BY <1>4 DEF a, b

\* An initial part of an initial part, and of what was appended to.
LEMMA InitialOf ==
    ASSUME NEW S, NEW s \in Seq(S), NEW i \in 0..Len(s), NEW k \in 0..i, NEW x \in S
    PROVE  /\ SubSeq(SubSeq(s, 1, i), 1, k) = SubSeq(s, 1, k)
           /\ SubSeq(Append(s, x), 1, i) = SubSeq(s, 1, i)
<1> DEFINE a == SubSeq(s, 1, i)
           b == Append(s, x)
<1>1. a \in Seq(S) /\ Len(a) = i /\ \A j \in 1..i : a[j] = s[j]
  BY Initial
<1>2. b \in Seq(S) /\ Len(b) = Len(s) + 1 /\ \A j \in 1..Len(s) : b[j] = s[j]
  BY AppendProperties
<1>3. k \in 0..Len(s) /\ k \in 0..Len(a) /\ i \in 0..Len(b)
  BY <1>1, <1>2
<1>4. /\ SubSeq(a, 1, k) \in Seq(S) /\ Len(SubSeq(a, 1, k)) = k
      /\ \A j \in 1..k : SubSeq(a, 1, k)[j] = a[j]
  BY <1>1, <1>3, Initial
<1>5. /\ SubSeq(s, 1, k) \in Seq(S) /\ Len(SubSeq(s, 1, k)) = k
      /\ \A j \in 1..k : SubSeq(s, 1, k)[j] = s[j]
  BY <1>3, Initial
<1>6. /\ SubSeq(b, 1, i) \in Seq(S) /\ Len(SubSeq(b, 1, i)) = i
      /\ \A j \in 1..i : SubSeq(b, 1, i)[j] = b[j]
  BY <1>2, <1>3, Initial
<1>7. SubSeq(a, 1, k) = SubSeq(s, 1, k)
  BY <1>1, <1>4, <1>5, SeqEqual
<1>8. SubSeq(b, 1, i) = a
  <2>1. \A j \in 1..i : SubSeq(b, 1, i)[j] = a[j]
    BY <1>1, <1>2, <1>6
  <2>. QED
    BY <1>1, <1>6, <2>1, SeqEqual
<1>. QED
  BY <1>7, <1>8

\* Two sequences with the same element appended or the same whole.
LEMMA AppendParts ==
    ASSUME NEW S, NEW s \in Seq(S), NEW x \in S, NEW u \in Seq(S), NEW k \in 1..Len(u),
           Append(s, x) = SubSeq(u, 1, k)
    PROVE  Len(s) = k - 1 /\ x = u[k] /\ s = SubSeq(u, 1, k - 1)
<1> DEFINE t == SubSeq(u, 1, k - 1)
<1>1. k - 1 \in 0..Len(u) /\ u[k] \in S
  OBVIOUS
<1>2. t \in Seq(S) /\ Len(t) = k - 1
  BY <1>1, Initial
<1>3. Append(t, u[k]) = SubSeq(u, 1, k)
  BY InitialNext
<1> HIDE DEF t
<1>4. Append(s, x) = Append(t, u[k])
  BY <1>3
<1>5. s = t /\ x = u[k]
  BY <1>1, <1>2, <1>4, AppendInjective
<1>. QED
  BY <1>2, <1>5 DEF t

\* What a measure does not place above an element.
Below(R, m, r) == {q \in R : m[q] <= m[r]}

\* The elements of a finite set have ranks, by any measure that tells them
\* apart.
LEMMA Ranks ==
    ASSUME NEW R, IsFiniteSet(R), NEW m \in [R -> Nat],
           \A r, q \in R : m[r] = m[q] => r = q
    PROVE  \A i \in 1..Cardinality(R) :
              \E r \in R : Cardinality(Below(R, m, r)) = i
<1> DEFINE below(r) == Below(R, m, r)
           n == Cardinality(R)
           f == [r \in R |-> Cardinality(below(r))]
<1>1. \A r \in R : /\ IsFiniteSet(below(r)) /\ Cardinality(below(r)) \in Nat
                   /\ Cardinality(below(r)) <= n /\ r \in below(r)
  BY FS_Subset, FS_CardinalityType DEF Below
<1>2. \A r \in R : Cardinality(below(r)) # 0
  BY <1>1, FS_EmptySet
<1>3. n \in Nat /\ IsFiniteSet(1..n) /\ Cardinality(1..n) = n
  BY FS_CardinalityType, FS_Interval
<1>4. f \in [R -> 1..n]
  BY <1>1, <1>2, <1>3
<1>5. ASSUME NEW r \in R, NEW q \in R, f[r] = f[q], m[r] <= m[q] PROVE r = q
  <2>1. below(r) \subseteq below(q)
    BY <1>5 DEF Below
  <2>2. Cardinality(below(r)) = Cardinality(below(q))
    BY <1>5
  <2>3. below(r) = below(q)
    BY <1>1, <2>1, <2>2, FS_Subset
  <2>4. q \in below(r)
    BY <1>1, <2>3
  <2>5. m[q] <= m[r]
    BY <2>4 DEF Below
  <2>. QED
    BY <1>5, <2>5
<1>6. f \in Injection(R, 1..n)
  <2>1. \A r, q \in R : f[r] = f[q] => r = q
    <3> SUFFICES ASSUME NEW r \in R, NEW q \in R, f[r] = f[q] PROVE r = q
      OBVIOUS
    <3>1. m[r] \in Nat /\ m[q] \in Nat
      OBVIOUS
    <3>2. m[r] <= m[q] \/ m[q] <= m[r]
      BY <3>1
    <3> HIDE DEF f
    <3>. QED
      BY <3>2, <1>5
  <2>. QED
    BY <1>4, <2>1 DEF Injection, IsInjective
<1>7. f \in Surjection(R, 1..n)
  BY <1>3, <1>6, FS_Injection
<1>8. \A i \in 1..n : \E r \in R : f[r] = i
  BY <1>7 DEF Surjection
<1>. QED
  BY <1>8

\* A finite set of numbers has a least and a greatest one.
LEMMA Extremes ==
    ASSUME NEW S \in SUBSET Nat, IsFiniteSet(S), S # {}
    PROVE  /\ \E x \in S : \A y \in S : x <= y
           /\ \E x \in S : \A y \in S : y <= x
<1>. PICK m \in [S -> Nat] : \A x \in S : m[x] = x
  <2>1. [x \in S |-> x] \in [S -> Nat]
    OBVIOUS
  <2>. QED
    BY <2>1
<1> DEFINE n == Cardinality(S)
           below(x) == Below(S, m, x)
<1>1. \A x, y \in S : m[x] = m[y] => x = y
  OBVIOUS
<1>2. n \in Nat /\ n # 0
  BY FS_CardinalityType, FS_EmptySet
<1>3. \A i \in 1..n : \E x \in S : Cardinality(below(x)) = i
  BY <1>1, Ranks
<1>4. PICK x \in S : Cardinality(below(x)) = 1
  BY <1>2, <1>3
<1>5. PICK z \in S : Cardinality(below(z)) = n
  BY <1>2, <1>3
<1>6. below(z) = S
  BY <1>5, FS_Subset DEF Below
<1>7. below(x) = {x}
  <2>1. IsFiniteSet(below(x)) /\ {x} \subseteq below(x)
    <3>1. below(x) \in SUBSET S /\ x \in below(x)
      BY DEF Below
    <3>2. IsFiniteSet(below(x))
      BY <3>1, FS_Subset
    <3>. QED
      BY <3>1, <3>2
  <2>2. Cardinality({x}) = 1
    BY FS_Singleton
  <2>. QED
    BY <1>4, <2>1, <2>2, FS_Subset
<1>8. \A y \in S : x <= y
  <2> SUFFICES ASSUME NEW y \in S, ~(x <= y) PROVE FALSE
    OBVIOUS
  <2>1. y \in below(x)
    BY DEF Below
  <2>. QED
    BY <1>7, <2>1
<1>9. \A y \in S : y <= z
  BY <1>6 DEF Below
<1>. QED
  BY <1>8, <1>9

-----------------------------------------------------------------------------
(* Hashes.                                                                 *)

\* A hash is the hashes before it and the body of the row.
LEMMA HashOf ==
    ASSUME NEW r \in Row
    PROVE  /\ Body(r) \in Link /\ r.prev \in Seq(Link)
           /\ Hash(r) \in Seq(Link) /\ Hash(r) # NoHash /\ Len(Hash(r)) = Len(r.prev) + 1
<1>1. Body(r) \in Link /\ r.prev \in Seq(Link)
  BY DEF Row, Link, Body
<1>. QED
  BY <1>1, AppendProperties DEF Hash, NoHash

\* A row whose hash is an initial part of a chain is the row at its end.
LEMMA HashPlace ==
    ASSUME NEW r \in Row, NEW L \in Seq(Link), NEW k \in 1..Len(L)
    PROVE  /\ Hash(r) = SubSeq(L, 1, k) <=> Body(r) = L[k] /\ r.prev = SubSeq(L, 1, k - 1)
           /\ Hash(r) = SubSeq(L, 1, k) => Len(r.prev) = k - 1
<1>1. Body(r) \in Link /\ r.prev \in Seq(Link)
  BY HashOf
<1>2. Hash(r) = SubSeq(L, 1, k) =>
         Body(r) = L[k] /\ r.prev = SubSeq(L, 1, k - 1) /\ Len(r.prev) = k - 1
  BY <1>1, AppendParts DEF Hash
<1>3. Body(r) = L[k] /\ r.prev = SubSeq(L, 1, k - 1) => Hash(r) = SubSeq(L, 1, k)
  BY InitialNext DEF Hash
<1>. QED
  BY <1>2, <1>3

-----------------------------------------------------------------------------
(* The walks of chain_iter.                                                *)

\* What a walk over the rows R towards the hash h is: the rows of the last
\* part of h, in order, from after position f.
Follows(w, R, h, f) ==
    /\ w \in Seq(R) /\ f \in 0..Len(h) /\ Len(w) = Len(h) - f
    /\ \A i \in 1..Len(w) : Hash(w[i]) = SubSeq(h, 1, f + i)

\* walk_backward lists the rows as far as predecessors are found.
LEMMA BackwardWalk ==
    ASSUME NEW R \in SUBSET Row, NEW h \in Seq(Link)
    PROVE  \E f \in 0..Len(h) :
              /\ Follows(Backward(R, h), R, h, f)
              /\ (\A k \in 1..Len(h) : SubSeq(h, 1, k) \in Hashes(R)) => f = 0
<1> DEFINE gaps == {k \in 1..Len(h) : SubSeq(h, 1, k) \notin Hashes(R)}
           f == IF gaps = {} THEN 0 ELSE Max(gaps)
           at(i) == CHOOSE r \in R : Hash(r) = SubSeq(h, 1, f + i)
           w == [i \in 1..(Len(h) - f) |-> at(i)]
<1>1. f \in 0..Len(h) /\ \A k \in gaps : k <= f
  <2>1. CASE gaps = {}
    BY <2>1
  <2>2. CASE gaps # {}
    <3>1. gaps \in SUBSET Nat /\ IsFiniteSet(gaps)
      BY FS_Interval, FS_Subset
    <3>2. \E x \in gaps : \A y \in gaps : x >= y
      BY <2>2, <3>1, Extremes
    <3>3. Max(gaps) \in gaps /\ \A y \in gaps : Max(gaps) >= y
      BY <3>2 DEF Max
    <3>. QED
      BY <2>2, <3>3
  <2>. QED
    BY <2>1, <2>2
<1>2. Backward(R, h) = w
  BY DEF Backward
<1>3. (\A k \in 1..Len(h) : SubSeq(h, 1, k) \in Hashes(R)) => f = 0
  OBVIOUS
<1> HIDE DEF f
<1>4. ASSUME NEW i \in 1..(Len(h) - f)
      PROVE  at(i) \in R /\ Hash(at(i)) = SubSeq(h, 1, f + i)
  <2>1. f + i \in 1..Len(h) /\ ~(f + i <= f)
    BY <1>1
  <2>2. SubSeq(h, 1, f + i) \in Hashes(R)
    BY <1>1, <2>1
  <2>3. \E r \in R : Hash(r) = SubSeq(h, 1, f + i)
    BY <2>2 DEF Hashes
  <2>. QED
    BY <2>3
<1> HIDE DEF at
<1>5. w \in Seq(R) /\ Len(w) = Len(h) - f /\ \A i \in 1..Len(w) : w[i] = at(i)
  <2>1. Len(h) - f \in Nat
    BY <1>1
  <2>. QED
    BY <1>4, <2>1
<1>6. \A i \in 1..Len(w) : Hash(w[i]) = SubSeq(h, 1, f + i)
  BY <1>4, <1>5
<1> HIDE DEF w
<1>7. Follows(w, R, h, f)
  BY <1>1, <1>5, <1>6 DEF Follows
<1>. QED
  BY <1>1, <1>2, <1>3, <1>7

\* Of a finite set of rows one has the longest chain of predecessors, and
\* one the smallest id.
LEMMA TipAndFirst ==
    ASSUME NEW R \in SUBSET Row, IsFiniteSet(R), R # {}
    PROVE  /\ \E r \in R : \A q \in R : Len(q.prev) <= Len(r.prev)
           /\ Earliest(R) \in R
<1> DEFINE lens == {Len(r.prev) : r \in R}
           ids == {r.id : r \in R}
<1>1. \A r \in R : Len(r.prev) \in Nat /\ r.id \in Nat
  BY HashOf DEF Row
<1>2. lens \in SUBSET Nat /\ lens # {} /\ ids \in SUBSET Nat /\ ids # {}
  BY <1>1
<1>3. IsFiniteSet(lens) /\ IsFiniteSet(ids)
  <2>1. IsFiniteSet(lens)
    <3>1. [r \in R |-> Len(r.prev)] \in Surjection(R, lens)
      BY DEF Surjection
    <3>. QED
      BY <3>1, FS_Surjection
  <2>2. IsFiniteSet(ids)
    <3>1. [r \in R |-> r.id] \in Surjection(R, ids)
      BY DEF Surjection
    <3>. QED
      BY <3>1, FS_Surjection
  <2>. QED
    BY <2>1, <2>2
<1>4. \E x \in lens : \A y \in lens : y <= x
  BY <1>2, <1>3, Extremes
<1>5. \E x \in ids : \A y \in ids : x <= y
  BY <1>2, <1>3, Extremes
<1>6. \E r \in R : \A q \in R : r.id <= q.id
  BY <1>5
<1>. QED
  BY <1>4, <1>6 DEF Earliest

\* The rows of a genesis' chain, of which Forward takes the longest.
Reaches(R, r) ==
    r.prev = NoHash \/ \A k \in 1..Len(r.prev) : SubSeq(r.prev, 1, k) \in Hashes(R)
Start(r) == IF r.prev = NoHash THEN Body(r) ELSE r.prev[1]
From(R) == {r \in R : Reaches(R, r) /\ Start(r) = Body(Earliest(Genesis(R)))}
Longest(R) == CHOOSE r \in From(R) : \A q \in From(R) : Len(q.prev) <= Len(r.prev)

\* It walks back from there.
LEMMA ForwardIs ==
    ASSUME NEW R \in SUBSET Row
    PROVE  Forward(R) = IF Genesis(R) = {} THEN <<>> ELSE Backward(R, Hash(Longest(R)))
  BY DEF Forward, Longest, From, Start, Reaches

\* The row it starts from is the end of the longest chain there is.
LEMMA LongestIs ==
    ASSUME NEW R \in SUBSET Row, IsFiniteSet(R), Genesis(R) # {}
    PROVE  /\ Longest(R) \in From(R) /\ From(R) \subseteq R
           /\ \A q \in From(R) : Len(q.prev) <= Len(Longest(R).prev)
<1>1. Genesis(R) \in SUBSET R /\ Genesis(R) \in SUBSET Row
  BY DEF Genesis
<1>2. IsFiniteSet(Genesis(R))
  BY <1>1, FS_Subset
<1>3. Earliest(Genesis(R)) \in Genesis(R)
  BY <1>1, <1>2, TipAndFirst
<1>4. Earliest(Genesis(R)) \in From(R)
  BY <1>1, <1>3 DEF From, Reaches, Start, Genesis
<1>5. From(R) \in SUBSET R /\ From(R) \in SUBSET Row
  BY DEF From
<1>6. IsFiniteSet(From(R))
  BY <1>5, FS_Subset
<1>7. \E r \in From(R) : \A q \in From(R) : Len(q.prev) <= Len(r.prev)
  BY <1>4, <1>5, <1>6, TipAndFirst
<1>. QED
  BY <1>5, <1>7 DEF Longest

\* Whatever the rows are, the forward walk lists rows that follow each other.
LEMMA ForwardWalk ==
    ASSUME NEW R \in SUBSET Row, IsFiniteSet(R)
    PROVE  \E h \in Seq(Link) : \E f \in 0..Len(h) : Follows(Forward(R), R, h, f)
<1>1. CASE Genesis(R) = {}
  <2>1. Forward(R) = <<>>
    BY <1>1, ForwardIs
  <2>2. <<>> \in Seq(R) /\ <<>> \in Seq(Link) /\ Len(<<>>) = 0
    OBVIOUS
  <2>3. Follows(Forward(R), R, <<>>, 0) /\ 0 \in 0..Len(<<>>)
    BY <2>1, <2>2 DEF Follows
  <2>. QED
    BY <2>2, <2>3
<1>2. CASE Genesis(R) # {}
  <2>1. Longest(R) \in Row
    BY <1>2, LongestIs
  <2>2. Hash(Longest(R)) \in Seq(Link)
    BY <2>1, HashOf
  <2>. QED
    BY <1>2, <2>2, ForwardIs, BackwardWalk
<1>. QED
  BY <1>1, <1>2

\* The rows are the chain L and nothing else.
Lists(w, R, L) ==
    /\ w \in Seq(R) /\ Len(w) = Len(L)
    /\ \A i \in 1..Len(L) : Hash(w[i]) = SubSeq(L, 1, i)
OnlyChain(R, L) ==
    /\ \A i \in 1..Len(L) : \E r \in R : Hash(r) = SubSeq(L, 1, i)
    /\ \A r \in R : \E i \in 1..Len(L) : Hash(r) = SubSeq(L, 1, i)

\* A walk back over rows of which each position of h has one finds them all.
LEMMA BackwardLists ==
    ASSUME NEW R \in SUBSET Row, NEW h \in Seq(Link),
           \A i \in 1..Len(h) : \E r \in R : Hash(r) = SubSeq(h, 1, i)
    PROVE  Lists(Backward(R, h), R, h)
<1>1. \A k \in 1..Len(h) : SubSeq(h, 1, k) \in Hashes(R)
  BY DEF Hashes
<1>2. Follows(Backward(R, h), R, h, 0)
  BY <1>1, BackwardWalk
<1>. QED
  BY <1>2 DEF Follows, Lists

\* If they are one chain, the forward walk finds all of it, too.
LEMMA ForwardLists ==
    ASSUME NEW R \in SUBSET Row, IsFiniteSet(R), NEW L \in Seq(Link), L # <<>>, OnlyChain(R, L)
    PROVE  Lists(Forward(R), R, L)
<1>1. Len(L) \in Nat /\ Len(L) >= 1 /\ \A i \in 1..Len(L) : L[i] \in Link
  BY EmptySeq
<1>2. ASSUME NEW r \in R, NEW i \in 1..Len(L), Hash(r) = SubSeq(L, 1, i)
      PROVE  /\ Len(r.prev) = i - 1 /\ r.prev = SubSeq(L, 1, i - 1)
             /\ Reaches(R, r) /\ Start(r) = L[1]
             /\ r.prev = NoHash <=> i = 1
  <2>1. Body(r) = L[i] /\ r.prev = SubSeq(L, 1, i - 1) /\ Len(r.prev) = i - 1
    BY <1>2, HashPlace
  <2>2. r.prev \in Seq(Link)
    BY HashOf
  <2>3. r.prev = NoHash <=> i = 1
    BY <2>1, <2>2, EmptySeq DEF NoHash
  <2>4. ASSUME NEW k \in 1..Len(r.prev) PROVE SubSeq(r.prev, 1, k) \in Hashes(R)
    <3>1. i - 1 \in 0..Len(L) /\ k \in 0..(i - 1) /\ k \in 1..Len(L)
      BY <2>1
    <3>2. SubSeq(r.prev, 1, k) = SubSeq(L, 1, k)
      BY <1>1, <2>1, <3>1, InitialOf
    <3>. QED
      BY <3>1, <3>2 DEF OnlyChain, Hashes
  <2>5. i # 1 => r.prev[1] = L[1]
    <3>1. i # 1 => i - 1 \in 0..Len(L) /\ 1 \in 1..(i - 1)
      OBVIOUS
    <3>. QED
      BY <2>1, <3>1, Initial
  <2>. QED
    BY <2>1, <2>3, <2>4, <2>5 DEF Reaches, Start
<1>3. PICK g \in R : Hash(g) = SubSeq(L, 1, 1)
  <2>1. 1 \in 1..Len(L)
    BY <1>1
  <2>. QED
    BY <2>1 DEF OnlyChain
<1>4. g \in Genesis(R)
  <2>1. 1 \in 1..Len(L)
    BY <1>1
  <2>. QED
    BY <2>1, <1>2, <1>3 DEF Genesis
<1>5. Body(Earliest(Genesis(R))) = L[1]
  <2>1. Genesis(R) \in SUBSET R /\ Genesis(R) \in SUBSET Row
    BY DEF Genesis
  <2>2. IsFiniteSet(Genesis(R))
    BY <2>1, FS_Subset
  <2>3. Earliest(Genesis(R)) \in Genesis(R)
    BY <1>4, <2>1, <2>2, TipAndFirst
  <2>4. PICK i \in 1..Len(L) : Hash(Earliest(Genesis(R))) = SubSeq(L, 1, i)
    BY <2>1, <2>3 DEF OnlyChain
  <2>5. i = 1
    BY <1>2, <2>1, <2>3, <2>4 DEF Genesis
  <2>. QED
    BY <1>1, <2>1, <2>3, <2>4, <2>5, HashPlace
<1>6. From(R) = R
  <2>1. ASSUME NEW r \in R PROVE Reaches(R, r) /\ Start(r) = L[1]
    <3>1. PICK i \in 1..Len(L) : Hash(r) = SubSeq(L, 1, i)
      BY DEF OnlyChain
    <3>. QED
      BY <1>2, <3>1
  <2>. QED
    BY <1>5, <2>1 DEF From
<1>7. PICK t \in R : Hash(t) = SubSeq(L, 1, Len(L))
  <2>1. Len(L) \in 1..Len(L)
    BY <1>1
  <2>. QED
    BY <2>1 DEF OnlyChain
<1>8. Len(t.prev) = Len(L) - 1
  BY <1>1, <1>2, <1>7
<1>9. Longest(R) \in R /\ Len(t.prev) <= Len(Longest(R).prev)
  BY <1>4, <1>6, <1>7, LongestIs
<1>10. PICK n \in 1..Len(L) : Hash(Longest(R)) = SubSeq(L, 1, n)
  BY <1>9 DEF OnlyChain
<1>11. Len(Longest(R).prev) = n - 1
  BY <1>2, <1>9, <1>10
<1>12. n = Len(L)
  BY <1>1, <1>8, <1>9, <1>11
<1>13. Hash(Longest(R)) = L
  BY <1>10, <1>12, SubSeqFull
<1>14. Forward(R) = Backward(R, L)
  BY <1>4, <1>13, ForwardIs
<1>. QED
  BY <1>14, BackwardLists DEF OnlyChain

-----------------------------------------------------------------------------
(* Images of the tables.                                                   *)

\* The chain of a head.
LEMMA HeadsAre ==
    ASSUME NEW h, Heads(h)
    PROVE  /\ h.latest \in Seq(Link) /\ Len(h.latest) \in Nat /\ 1 \in 1..Len(h.latest)
           /\ DOMAIN h.latest = 1..Len(h.latest)
           /\ \A i \in 1..Len(h.latest) : h.latest[i] \in Link
<1>1. h.latest \in Seq(Link) /\ h.latest # <<>>
  BY DEF Heads, Tip
<1>2. Len(h.latest) \in Nat \ {0}
  BY <1>1, EmptySeq
<1>. QED
  BY <1>1, <1>2

\* A head is no missing head.
LEMMA HeadsExist ==
    ASSUME NEW h, Heads(h)
    PROVE  h # NoHead
  BY ChainAssumption DEF Heads, Tip

\* An id of the chain tells the position of the row, and what it holds.
LEMMA RowAt ==
    ASSUME NEW R, Keyed(R), NEW L \in Seq(Link), Chained(R, L),
           NEW r \in R, NEW i \in 1..Len(L), r.id = L[i].id
    PROVE  /\ Placed(r, L, i) /\ Signed(r, L, i) /\ Len(r.prev) = i - 1
           /\ r.prev = NoHash <=> i = 1
           /\ r.sig.key # Broken => r.sig = L[i].sig /\ Hash(r) = SubSeq(L, 1, i)
<1>1. PICK q \in R : Placed(q, L, i) /\ Signed(q, L, i)
  BY DEF Chained
<1>2. q = r
  BY <1>1 DEF Keyed, Placed
<1>3. r.prev = SubSeq(L, 1, i - 1) /\ i - 1 \in 0..Len(L)
  BY <1>1, <1>2 DEF Placed
<1>4. r.prev \in Seq(Link) /\ Len(r.prev) = i - 1
  BY <1>3, Initial
<1>5. r.prev = NoHash <=> i = 1
  BY <1>4, EmptySeq DEF NoHash
<1>6. ASSUME r.sig.key # Broken PROVE r.sig = L[i].sig
  <2>1. L[i] \in Link
    OBVIOUS
  <2>2. [L[i].sig EXCEPT !.key = Broken].key = Broken
    BY <2>1 DEF Link, Sig
  <2>. QED
    BY <1>1, <1>2, <1>6, <2>2 DEF Signed
<1>7. ASSUME r.sig.key # Broken PROVE Hash(r) = SubSeq(L, 1, i)
  <2>1. L[i] \in Link /\ r \in Row
    BY DEF Keyed
  <2>2. Body(r) = L[i]
    BY <1>6, <1>7, <2>1 DEF Body, Link
  <2>. QED
    BY <1>3, <2>1, <2>2, HashPlace
<1>. QED
  BY <1>1, <1>2, <1>4, <1>5, <1>6, <1>7

\* The row with the hash of a position is the row at it.
LEMMA HashAt ==
    ASSUME NEW r \in Row, NEW L \in Seq(Link), NEW i \in 1..Len(L), Hash(r) = SubSeq(L, 1, i)
    PROVE  r.id = L[i].id /\ r.sig = L[i].sig
<1>1. Body(r) = L[i]
  BY HashPlace
<1>. QED
  BY <1>1 DEF Body

\* A row that is not on the chain is an extra genesis.
LEMMA OffChain ==
    ASSUME NEW R, NEW h, Heads(h), Keyed(R), Chained(R, h.latest), NEW r \in R
    PROVE  /\ r \in Left(R, h) <=> \A i \in 1..Len(h.latest) : r.id # h.latest[i].id
           /\ r \in Left(R, h) => r.prev = NoHash
<1>. DEFINE L == h.latest
<1>1. L \in Seq(Link) /\ Len(L) \in Nat /\ 1 \in 1..Len(L) /\ DOMAIN L = 1..Len(L)
  BY HeadsAre
<1>2. ASSUME NEW i \in 1..Len(L), r.id = L[i].id, r.prev = NoHash PROVE r.id = L[1].id
  BY <1>1, <1>2, RowAt
<1>3. r.prev = NoHash \/ \E i \in 1..Len(L) : r.id = L[i].id
  BY <1>1 DEF Chained
<1>. QED
  BY <1>1, <1>2, <1>3 DEF Left, Genesis

\* No two rows follow the same one.
LEMMA NoForks ==
    ASSUME NEW R, NEW h, Linked(R, h)
    PROVE  Forks(R) = {}
<1> SUFFICES ASSUME NEW q \in R \ Genesis(R), NEW s \in R \ {q}, s.prev = q.prev PROVE FALSE
  BY DEF Forks
<1>1. q.prev # NoHash /\ h # NoHead
  BY DEF Genesis, Linked
<1>2. Heads(h) /\ Keyed(R) /\ Chained(R, h.latest) /\ h.latest \in Seq(Link)
  BY <1>1, HeadsAre DEF Linked
<1>3. PICK i \in 1..Len(h.latest) : q.id = h.latest[i].id
  BY <1>1, <1>2 DEF Chained
<1>4. PICK j \in 1..Len(h.latest) : s.id = h.latest[j].id
  BY <1>1, <1>2 DEF Chained
<1>5. Len(q.prev) = i - 1 /\ Len(s.prev) = j - 1
  BY <1>2, <1>3, <1>4, RowAt
<1>6. i = j
  BY <1>5
<1>. QED
  BY <1>2, <1>3, <1>4, <1>6 DEF Keyed

\* What a walk that lists the chain covers, and what it leaves.
LEMMA Covered ==
    ASSUME NEW R, NEW h, Linked(R, h), h # NoHead, NEW w, Lists(w, R, h.latest)
    PROVE  /\ w # <<>> /\ Len(w) = Len(h.latest) /\ Len(w) >= 1
           /\ Hash(w[Len(w)]) = h.latest /\ Len(w) = h.length
           /\ \A i \in 1..Len(w) : /\ w[i] \in R /\ w[i].id = h.latest[i].id
                                   /\ w[i].sig = h.latest[i].sig /\ Body(w[i]) = h.latest[i]
           /\ \A r \in R : r \in Range(w) <=> r \notin Left(R, h)
           /\ Extra(R, w) = Left(R, h) /\ Orphans(R, w) = {}
           /\ w[1].prev = NoHash
<1>. DEFINE L == h.latest
<1>1. Heads(h) /\ Keyed(R) /\ Chained(R, L) /\ R \in SUBSET Row
  BY DEF Linked, Keyed
<1>2. L \in Seq(Link) /\ Len(L) \in Nat /\ 1 \in 1..Len(L) /\ h.length = Len(L)
  BY <1>1, HeadsAre DEF Heads
<1>3. w \in Seq(R) /\ Len(w) = Len(L) /\ \A i \in 1..Len(L) : Hash(w[i]) = SubSeq(L, 1, i)
  BY DEF Lists
<1>4. \A i \in 1..Len(w) : w[i] \in R
  BY <1>3
<1>5. \A i \in 1..Len(w) : w[i].id = L[i].id /\ w[i].sig = L[i].sig
  BY <1>1, <1>2, <1>3, <1>4, HashAt
<1>6. \A i \in 1..Len(w) : Body(w[i]) = L[i]
  BY <1>1, <1>2, <1>3, <1>4, HashPlace
<1>7. Hash(w[Len(w)]) = L
  BY <1>2, <1>3, SubSeqFull
<1>8. ASSUME NEW r \in R PROVE r \in Range(w) <=> r \notin Left(R, h)
  <2>1. ASSUME NEW i \in 1..Len(L), r.id = L[i].id PROVE r \in Range(w)
    <3>1. w[i] \in R /\ w[i].id = r.id
      BY <1>3, <1>4, <1>5, <2>1
    <3>2. w[i] = r
      BY <1>1, <3>1 DEF Keyed
    <3>. QED
      BY <1>3, <3>2 DEF Range
  <2>2. ASSUME r \in Range(w) PROVE \E i \in 1..Len(L) : r.id = L[i].id
    BY <1>3, <1>5, <2>2 DEF Range
  <2>. QED
    BY <1>1, <2>1, <2>2, OffChain
<1>9. Extra(R, w) = Left(R, h) /\ Orphans(R, w) = {}
  <2>1. \A r \in R : r \in Left(R, h) => r \in Genesis(R)
    BY DEF Left
  <2>2. Left(R, h) \subseteq R /\ Genesis(R) \subseteq R
    BY DEF Left, Genesis
  <2>. QED
    BY <1>8, <2>1, <2>2 DEF Extra, Orphans
<1>10. w[1].prev = NoHash
  <2>1. Len(w[1].prev) = 0 /\ w[1] \in Row
    BY <1>1, <1>2, <1>3, <1>4, HashPlace
  <2>2. w[1].prev \in Seq(Link)
    BY <2>1, HashOf
  <2>. QED
    BY <2>1, <2>2, EmptySeq DEF NoHash
<1>. QED
  BY <1>2, <1>3, <1>4, <1>5, <1>6, <1>7, <1>8, <1>9, <1>10

\* Whatever is broken, a walk lists rows that are there.
LEMMA WalkIn ==
    ASSUME NEW R, NEW h, Linked(R, h)
    PROVE  Walk(R, h) \in Seq(R)
<1>1. R \in SUBSET Row /\ IsFiniteSet(R)
  BY DEF Linked, Keyed
<1>2. Forward(R) \in Seq(R)
  BY <1>1, ForwardWalk DEF Follows
<1>3. h # NoHead => h.latest \in Seq(Link)
  BY HeadsAre DEF Linked
<1>4. h # NoHead => Backward(R, h.latest) \in Seq(R)
  BY <1>1, <1>3, BackwardWalk DEF Follows
<1>. QED
  BY <1>2, <1>4 DEF Walk

\* If the rows of the chain are valid, the walk lists them.
LEMMA ValidWalk ==
    ASSUME NEW R, NEW h, Linked(R, h), h # NoHead, Invalid(R) = {}
    PROVE  Lists(Walk(R, h), R, h.latest)
<1>. DEFINE L == h.latest
<1>1. Heads(h) /\ Keyed(R) /\ Chained(R, L) /\ R \in SUBSET Row
  BY DEF Linked, Keyed
<1>2. L \in Seq(Link) /\ Len(L) \in Nat /\ 1 \in 1..Len(L) /\ DOMAIN L = 1..Len(L)
  BY <1>1, HeadsAre
<1>3. ASSUME NEW i \in 1..Len(L) PROVE \E r \in R : Hash(r) = SubSeq(L, 1, i)
  <2>1. PICK r \in R : r.id = L[i].id
    BY <1>1, <1>2 DEF Chained, Placed
  <2>2. r.sig.key # Broken
    BY DEF Invalid
  <2>. QED
    BY <1>1, <1>2, <2>1, <2>2, RowAt
<1>4. L \in Hashes(R)
  <2>1. Len(L) \in 1..Len(L)
    BY <1>2
  <2>2. SubSeq(L, 1, Len(L)) = L
    BY <1>2, SubSeqFull
  <2>. QED
    BY <1>3, <2>1, <2>2 DEF Hashes
<1>5. Walk(R, h) = Backward(R, L)
  BY <1>4 DEF Walk
<1>. QED
  BY <1>1, <1>2, <1>3, <1>5, BackwardLists

\* A walk that agrees with the head lists the chain.
LEMMA AgreedWalk ==
    ASSUME Linked(rows, head), head # NoHead, HeadAgrees(Walk(rows, head))
    PROVE  Lists(Walk(rows, head), rows, head.latest)
<1>. DEFINE L == head.latest
           w == Walk(rows, head)
<1>1. Heads(head) /\ rows \in SUBSET Row
  BY DEF Linked, Keyed
<1>2. L \in Seq(Link) /\ Len(L) \in Nat /\ head.length = Len(L)
  BY <1>1, HeadsAre DEF Heads
<1>3. w \in Seq(rows) /\ w # <<>> /\ Hash(w[Len(w)]) = L /\ Len(w) = Len(L)
  BY <1>2, WalkIn DEF HeadAgrees
<1>4. L \in Hashes(rows)
  <2>1. Len(w) \in 1..Len(w)
    BY <1>3, EmptySeq
  <2>2. w[Len(w)] \in rows
    BY <1>3, <2>1, ElementOfSeq
  <2>. QED
    BY <1>3, <2>2 DEF Hashes
<1>5. w = Backward(rows, L)
  BY <1>4 DEF Walk
<1> HIDE DEF w
<1>6. PICK f \in 0..Len(L) : Follows(w, rows, L, f)
  BY <1>1, <1>2, <1>5, BackwardWalk
<1>7. f = 0
  BY <1>2, <1>3, <1>6 DEF Follows
<1>8. Lists(w, rows, L)
  BY <1>2, <1>3, <1>6, <1>7 DEF Follows, Lists
<1>. QED
  BY <1>8 DEF w

\* Re-sign runs only on a ledger with one genesis at most.
LEMMA ClearOne ==
    ASSUME NEW R, NEW h, Linked(R, h), Clear(R)
    PROVE  /\ \A r, q \in Genesis(R) : r = q
           /\ h # NoHead => Left(R, h) = {}
<1>1. Keyed(R) /\ R \in SUBSET Row /\ IsFiniteSet(R)
  BY DEF Linked, Keyed
<1>2. PICK u \in Seq(Link) : \E f \in 0..Len(u) : Follows(Forward(R), R, u, f)
  BY <1>1, ForwardWalk
<1>. PICK f \in 0..Len(u) : Follows(Forward(R), R, u, f)
  BY <1>2
<1> DEFINE w == Forward(R)
<1>3. ASSUME NEW r \in Genesis(R) PROVE 1 \in 1..Len(w) /\ r = w[1]
  <2>1. r \in Row /\ r.prev = NoHash
    BY <1>1 DEF Genesis
  <2>2. PICK i \in DOMAIN w : w[i] = r
    BY DEF Clear, Extra, Range
  <2>3. w \in Seq(R) /\ Len(w) = Len(u) - f
    BY DEF Follows
  <2>4. i \in 1..Len(w) /\ f + i \in 1..Len(u)
    BY <2>2, <2>3
  <2>5. Hash(r) = SubSeq(u, 1, f + i)
    BY <2>2, <2>4 DEF Follows
  <2>6. \A k \in 1..Len(u) : Hash(r) = SubSeq(u, 1, k) => Len(r.prev) = k - 1
    BY <2>1, HashPlace
  <2>7. Len(r.prev) = (f + i) - 1
    BY <2>4, <2>5, <2>6
  <2>8. i = 1
    BY <2>1, <2>4, <2>7, EmptySeq DEF NoHash
  <2>. QED
    BY <2>2, <2>4, <2>8
<1>4. \A r, q \in Genesis(R) : r = q
  BY <1>3
<1>5. ASSUME h # NoHead PROVE Left(R, h) = {}
  <2>1. Heads(h) /\ Chained(R, h.latest) /\ h.latest \in Seq(Link) /\ 1 \in 1..Len(h.latest)
    BY <1>5, HeadsAre DEF Linked
  <2>2. PICK g \in R : g.id = h.latest[1].id
    BY <2>1, HeadsAre DEF Chained, Placed
  <2>3. g \in Genesis(R)
    BY <1>1, <2>1, <2>2, RowAt DEF Genesis
  <2>. QED
    BY <1>4, <2>2, <2>3 DEF Left
<1>. QED
  BY <1>4, <1>5

-----------------------------------------------------------------------------
(* What the invariants say.                                                *)

\* A ledger of which every signature is valid.
LEMMA Wholeness == IInv => RepairIsWhole
<1> SUFFICES ASSUME IInv, Invalid(rows) = {} PROVE RepairIsWhole
  BY DEF RepairIsWhole
<1> DEFINE w == Walk(rows, head)
<1>1. Linked(rows, head)
  BY DEF IInv, Images
<1>2. Forks(rows) = {} /\ w \in Seq(rows)
  BY <1>1, NoForks, WalkIn
<1>3. Invalid(Range(w)) = {}
  BY <1>2 DEF Invalid, Range
<1>4. CASE head = NoHead
  <2>1. rows = Genesis(rows)
    BY <1>1, <1>4 DEF Linked, Genesis
  <2>2. Orphans(rows, w) = {}
    BY <2>1 DEF Orphans
  <2>3. Verified
    BY <1>2, <1>3, <1>4, <2>1 DEF Verified
  <2>. QED
    BY <1>2, <1>4, <2>2, <2>3 DEF RepairIsWhole
<1>5. CASE head # NoHead
  <2>1. Lists(w, rows, head.latest)
    BY <1>1, <1>5, ValidWalk
  <2>2. /\ w # <<>> /\ Hash(w[Len(w)]) = head.latest /\ Len(w) = head.length
        /\ Orphans(rows, w) = {} /\ w[1].prev = NoHash
    BY <1>1, <1>5, <2>1, Covered
  <2>3. HeadAgrees(w)
    BY <2>2 DEF HeadAgrees
  <2>4. Extra(rows, w) = {} \/ Adopted => Verified
    BY <1>2, <1>3, <1>5, <2>2, <2>3 DEF Verified
  <2>. QED
    BY <1>2, <2>2, <2>3, <2>4 DEF RepairIsWhole
<1>. QED
  BY <1>4, <1>5

\* A ledger that verifies.
LEMMA Soundness == IInv => VerifyIsSound
<1> DEFINE w == Walk(rows, head)
<1> SUFFICES ASSUME IInv, Verified, head # NoHead
             PROVE  /\ Invalid(rows) = {}
                    /\ \A r \in rows \ Range(w) :
                          \E i \in DOMAIN manifests :
                              /\ Hash(r) \in manifests[i].plan.adopted
                              /\ manifests[i].entry \in {q.id : q \in Range(w)}
  BY DEF VerifyIsSound
<1>1. Linked(rows, head) /\ HeadAgrees(w) /\ Invalid(Range(w)) = {}
  BY DEF IInv, Images, Verified
<1>2. Lists(w, rows, head.latest)
  BY <1>1, AgreedWalk
<1>3. /\ \A r \in rows : r \in Range(w) <=> r \notin Left(rows, head)
      /\ Extra(rows, w) = Left(rows, head) /\ Len(w) = Len(head.latest)
      /\ \A i \in 1..Len(w) : w[i].id = head.latest[i].id
  BY <1>1, <1>2, Covered
<1>4. CASE Left(rows, head) = {}
  <2>1. \A r \in rows : r \in Range(w)
    BY <1>3, <1>4
  <2>. QED
    BY <1>1, <2>1 DEF Invalid
<1>5. CASE Left(rows, head) # {}
  <2>1. Adopted
    BY <1>3, <1>5 DEF Verified
  <2>2. Invalid(rows) = {}
    BY <2>1 DEF Adopted, Eligible
  <2>3. manifests # <<>> /\ 1 \in DOMAIN manifests
    <3>1. manifests \in Seq(Manifest) /\ manifests # <<>>
      BY <2>1 DEF Adopted, IInv, Types
    <3>. QED
      BY <3>1, EmptySeq
  <2>4. ASSUME NEW r \in rows \ Range(w) PROVE Hash(r) \in manifests[1].plan.adopted
    <3>1. Hash(r) \in Hashes(Extra(rows, w))
      BY <1>3 DEF Hashes
    <3>2. Live(manifests[1].plan.head).adopted = manifests[1].plan.adopted
      BY <2>1 DEF Adopted
    <3>. QED
      BY <3>1, <3>2 DEF Live
  <2>5. manifests[1].entry \in {q.id : q \in Range(w)}
    <3>1. PICK i \in DOMAIN head.latest : head.latest[i].id = manifests[1].entry
      BY <2>3 DEF IInv, Images, Attested
    <3>2. DOMAIN head.latest = 1..Len(head.latest)
      BY <1>1, HeadsAre DEF Linked
    <3>3. w \in Seq(rows)
      BY <1>1, WalkIn
    <3>4. w[i] \in Range(w) /\ w[i].id = manifests[1].entry
      BY <1>3, <3>1, <3>2, <3>3 DEF Range
    <3>. QED
      BY <3>4
  <2>. QED
    BY <2>2, <2>3, <2>4, <2>5
<1>. QED
  BY <1>4, <1>5

\* A ledger with a manifest of which every signature is valid.
LEMMA Standing == IInv => AdoptionStands
<1> DEFINE w == Walk(rows, head)
           L == head.latest
           m == manifests[1]
<1> SUFFICES ASSUME IInv, manifests # <<>>, Invalid(rows) = {} PROVE Adopted
  BY DEF AdoptionStands
<1>1. /\ Linked(rows, head) /\ Attested(rows, head, manifests)
      /\ head # NoHead /\ Left(rows, head) # {}
  BY DEF IInv, Images, Attested
<1>2. Lists(w, rows, L) /\ Forks(rows) = {}
  BY <1>1, ValidWalk, NoForks
<1>3. /\ w # <<>> /\ Hash(w[Len(w)]) = L
      /\ Extra(rows, w) = Left(rows, head) /\ Orphans(rows, w) = {}
  BY <1>1, <1>2, Covered
<1>4. Eligible(w)
  BY <1>1, <1>2, <1>3 DEF Eligible
<1>5. Live(m.plan.head) = m.plan
  <2>1. manifests \in Seq(Manifest)
    BY DEF IInv, Types
  <2>2. m \in Manifest
    BY <2>1, EmptySeq
  <2>3. Invalid(Left(rows, head)) = {}
    BY DEF Invalid, Left, Genesis
  <2>4. m.plan.adopted = Hashes(Left(rows, head)) /\ m.plan \in Plan
    BY <1>1, <2>2, <2>3 DEF Attested, Manifest
  <2>. QED
    BY <1>3, <2>4 DEF Live, Plan
<1>6. Attests(m)
  <2>1. PICK i \in DOMAIN L : L[i].id = m.entry /\ SubSeq(L, 1, i - 1) = m.plan.head
    BY <1>1 DEF Attested
  <2>2. PICK r \in rows : Placed(r, L, i)
    BY <1>1, <2>1 DEF Linked, Chained
  <2>. QED
    BY <2>1, <2>2 DEF Placed, Attests, Invalid
<1>. QED
  BY <1>4, <1>5, <1>6 DEF Adopted

\* The rows of a ledger without links, in order of time.
Rank(r) == Cardinality({q \in rows : q.id <= r.id})

LEMMA InOrder ==
    ASSUME Linked(rows, head), head = NoHead
    PROVE  /\ Len(Ordered) = Cardinality(rows) /\ Len(Ordered) \in Nat
           /\ Ordered # <<>> <=> Len(Ordered) > 0
           /\ \A i \in 1..Len(Ordered) : Ordered[i] \in rows /\ Hash(Ordered[i]) = <<Body(Ordered[i])>>
<1>1. Keyed(rows) /\ rows \in SUBSET Row /\ IsFiniteSet(rows)
  BY DEF Linked, Keyed
<1> DEFINE n == Cardinality(rows)
           at(i) == CHOOSE r \in rows : Rank(r) = i
<1>2. n \in Nat
  BY <1>1, FS_CardinalityType
<1>3. ASSUME NEW i \in 1..n PROVE at(i) \in rows
  <2>1. PICK m \in [rows -> Nat] : \A r \in rows : m[r] = r.id
    <3>1. [r \in rows |-> r.id] \in [rows -> Nat]
      BY <1>1 DEF Row
    <3>. QED
      BY <3>1
  <2>2. \A r, q \in rows : m[r] = m[q] => r = q
    BY <1>1, <2>1 DEF Keyed
  <2>3. \A r \in rows : Below(rows, m, r) = {q \in rows : q.id <= r.id}
    BY <2>1 DEF Below
  <2>4. \E r \in rows : Cardinality(Below(rows, m, r)) = i
    BY <1>1, <2>2, Ranks
  <2>5. \E r \in rows : Rank(r) = i
    BY <2>3, <2>4 DEF Rank
  <2>. QED
    BY <2>5
<1>4. Ordered = [i \in 1..n |-> at(i)]
  BY DEF Ordered, Rank
<1> HIDE DEF at
<1>5. Ordered \in Seq(rows) /\ Len(Ordered) = n
  BY <1>2, <1>3, <1>4
<1>6. ASSUME NEW r \in rows PROVE Hash(r) = <<Body(r)>>
  <2>1. r.prev = <<>> /\ Body(r) \in Link
    BY <1>1, HashOf DEF Linked, NoHash
  <2>. QED
    BY <2>1 DEF Hash
<1>. QED
  BY <1>2, <1>5, <1>6, EmptySeq

\* A retained checkpoint of a ledger that verifies.
LEMMA Telling == IInv => CheckpointTells
<1> DEFINE w == Ordered
           same(e) == /\ Len(w) >= Len(e.latest)
                      /\ \A i \in DOMAIN e.latest : Body(w[i]) = e.latest[i]
<1> SUFFICES ASSUME IInv, Verified, NEW e \in exports PROVE Passes(e) <=> same(e)
  BY DEF CheckpointTells
<1>. DEFINE E == e.latest
<1>1. Linked(rows, head) /\ Heads(e) /\ e # NoHead
  BY HeadsExist DEF IInv, Types, Images
<1>2. /\ E \in Seq(Link) /\ Len(E) \in Nat /\ 1 \in 1..Len(E) /\ DOMAIN E = 1..Len(E)
      /\ e.length = Len(E) /\ e.genesis = E[1].id
  BY <1>1, HeadsAre DEF Heads
<1>3. CASE head # NoHead
  <2> DEFINE L == head.latest
  <2>1. Lists(w, rows, L)
    BY <1>1, <1>3, AgreedWalk DEF Verified, Ordered
  <2>2. /\ L \in Seq(Link) /\ Len(L) \in Nat /\ head.genesis = L[1].id
    BY <1>1, <1>3, HeadsAre DEF Linked, Heads
  <2>3. /\ w # <<>> /\ Len(w) = Len(L)
        /\ \A i \in 1..Len(w) : Body(w[i]) = L[i]
    BY <1>1, <1>3, <2>1, Covered
  <2>4. \A i \in 1..Len(w) : Hash(w[i]) = SubSeq(L, 1, i)
    BY <2>1 DEF Lists
  <2> HIDE DEF w
  <2>5. ASSUME Len(E) <= Len(L)
        PROVE  SubSeq(L, 1, Len(E)) = E <=> \A i \in 1..Len(E) : L[i] = E[i]
    <3>1. Len(E) \in 0..Len(L)
      BY <1>2, <2>2, <2>5
    <3>2. /\ SubSeq(L, 1, Len(E)) \in Seq(Link) /\ Len(SubSeq(L, 1, Len(E))) = Len(E)
          /\ \A j \in 1..Len(E) : SubSeq(L, 1, Len(E))[j] = L[j]
      BY <2>2, <3>1, Initial
    <3>3. (\A j \in 1..Len(E) : SubSeq(L, 1, Len(E))[j] = E[j]) => SubSeq(L, 1, Len(E)) = E
      BY <1>2, <3>2, SeqEqual
    <3>. QED
      BY <3>2, <3>3
  <2>6. Len(w) >= Len(E) => (Hash(w[Len(E)]) = E <=> \A i \in 1..Len(E) : Body(w[i]) = E[i])
    <3> SUFFICES ASSUME Len(w) >= Len(E)
                 PROVE  Hash(w[Len(E)]) = E <=> \A i \in 1..Len(E) : Body(w[i]) = E[i]
      OBVIOUS
    <3>1. Len(E) \in 1..Len(w) /\ Len(E) <= Len(L) /\ \A i \in 1..Len(E) : i \in 1..Len(w)
      BY <1>2, <2>2, <2>3
    <3>2. Hash(w[Len(E)]) = SubSeq(L, 1, Len(E))
      BY <2>4, <3>1
    <3>. QED
      BY <2>3, <2>5, <3>1, <3>2
  <2>7. same(e) => L[1].id = E[1].id
    <3> SUFFICES ASSUME same(e) PROVE L[1].id = E[1].id
      OBVIOUS
    <3>1. 1 \in 1..Len(w) /\ Body(w[1]) = E[1]
      BY <1>2, <2>2, <2>3
    <3>. QED
      BY <2>3, <3>1
  <2>8. Passes(e) <=> /\ w # <<>> /\ head.genesis = e.genesis
                      /\ Len(w) >= e.length /\ Hash(w[e.length]) = E
    BY <1>3 DEF Passes, w
  <2>. QED
    BY <1>2, <2>2, <2>3, <2>6, <2>7, <2>8
<1>4. CASE head = NoHead
  <2>1. /\ Len(w) \in Nat /\ (w # <<>> <=> Len(w) > 0)
        /\ \A i \in 1..Len(w) : w[i] \in rows /\ Hash(w[i]) = <<Body(w[i])>>
    BY <1>1, <1>4, InOrder
  <2>2. Passes(e) <=> /\ w # <<>> /\ w[1].id = E[1].id
                      /\ Len(w) >= Len(E) /\ Hash(w[Len(E)]) = E
    BY <1>2, <1>4 DEF Passes
  <2> HIDE DEF w
  <2>3. CASE Len(E) = 1
    <3>1. E = <<E[1]>>
      BY <1>2, <2>3
    <3>2. Len(w) >= 1 => w[1].id = Body(w[1]).id /\ Hash(w[1]) = <<Body(w[1])>>
      BY <2>1 DEF Body
    <3>3. Len(w) >= 1 => (Hash(w[1]) = E <=> Body(w[1]) = E[1])
      <4> DEFINE x == Body(w[1])
      <4>1. <<x>>[1] = x
        OBVIOUS
      <4> HIDE DEF x
      <4>2. <<x>> = E <=> x = E[1]
        BY <3>1, <4>1
      <4>. QED
        BY <3>2, <4>2 DEF x
    <3>4. Len(w) >= 1 /\ Body(w[1]) = E[1] => w[1].id = E[1].id
      BY <3>2
    <3>5. same(e) <=> Len(w) >= 1 /\ Body(w[1]) = E[1]
      BY <1>2, <2>3
    <3>6. Passes(e) <=> Len(w) >= 1 /\ w[1].id = E[1].id /\ Hash(w[1]) = E
      BY <2>1, <2>2, <2>3
    <3>. QED
      BY <3>3, <3>4, <3>5, <3>6
  <2>4. CASE Len(E) # 1
    <3>1. 2 \in 1..Len(E) /\ 2 \in 2..Len(E)
      <4> DEFINE n == Len(E)
      <4>1. n \in Nat /\ n >= 1 /\ n # 1
        BY <1>2, <2>4
      <4> HIDE DEF n
      <4>2. n >= 2
        BY <4>1
      <4>3. 2 \in 1..n /\ 2 \in 2..n
        BY <4>1, <4>2
      <4>. QED
        BY <4>3 DEF n
    <3>2. ~ (Len(w) >= Len(E) /\ Hash(w[Len(E)]) = E)
      <4> SUFFICES ASSUME Len(w) >= Len(E), Hash(w[Len(E)]) = E PROVE FALSE
        OBVIOUS
      <4>1. <<Body(w[Len(E)])>> = E
        BY <1>2, <2>1
      <4>. QED
        BY <1>2, <2>4, <4>1
    <3>3. ~ same(e)
      <4> SUFFICES ASSUME same(e) PROVE FALSE
        OBVIOUS
      <4>1. w[2] \in rows /\ Body(w[2]) = E[2]
        BY <1>2, <2>1, <3>1
      <4>2. w[2] \in Loose
        BY <1>4, <4>1 DEF Loose
      <4>3. E \in Chains
        BY <1>1 DEF Chains
      <4>4. E[2].id # w[2].id
        BY <3>1, <4>2, <4>3 DEF IInv, Apart
      <4>. QED
        BY <4>1, <4>4 DEF Body
    <3>. QED
      BY <2>2, <3>2, <3>3
  <2>. QED
    BY <2>3, <2>4
<1>. QED
  BY <1>3, <1>4

-----------------------------------------------------------------------------
(* What the steps do to an image.                                          *)

\* The head after a row was appended to the chain.
HeadAfter(h, r) ==
    [latest |-> Hash(r), length |-> (IF h = NoHead THEN 0 ELSE h.length) + 1,
     genesis |-> IF h = NoHead THEN r.id ELSE h.genesis]

\* K is L and one more.
Longer(K, L) ==
    /\ Len(K) = Len(L) + 1
    /\ \A i \in 1..Len(L) : K[i] = L[i]
    /\ \A i \in 1..(Len(L) + 1) : SubSeq(K, 1, i - 1) = SubSeq(L, 1, i - 1)

\* An appended row makes the chain longer and leaves the rest as it was.
LEMMA Appended ==
    ASSUME NEW R, NEW h, Linked(R, h), NEW r \in Row,
           r.prev = IF h = NoHead THEN NoHash ELSE h.latest,
           \A q \in R : q.id # r.id
    PROVE  /\ HeadAfter(h, r) # NoHead /\ Heads(HeadAfter(h, r))
           /\ Linked(R \cup {r}, HeadAfter(h, r))
           /\ Longer(HeadAfter(h, r).latest, r.prev)
           /\ HeadAfter(h, r).latest[Len(r.prev) + 1] = Body(r)
           /\ SubSeq(r.prev, 1, Len(r.prev)) = r.prev
           /\ Left(R \cup {r}, HeadAfter(h, r)) = IF h = NoHead THEN R ELSE Left(R, h)
<1> DEFINE g == HeadAfter(h, r)
           L == r.prev
           K == Hash(r)
           n == Len(L)
<1>1. /\ L \in Seq(Link) /\ Body(r) \in Link /\ n \in Nat /\ r.id \in Nat
      /\ K \in Seq(Link) /\ K # <<>> /\ Len(K) = n + 1
  <2>1. /\ L \in Seq(Link) /\ Body(r) \in Link
        /\ K \in Seq(Link) /\ K # NoHash /\ Len(K) = n + 1
    BY HashOf
  <2>2. n \in Nat
    BY <2>1
  <2>3. r.id \in Nat
    BY DEF Row
  <2>. QED
    BY <2>1, <2>2, <2>3 DEF NoHash
<1>2. /\ \A i \in 1..n : K[i] = L[i]
      /\ K[n + 1] = Body(r) /\ Body(r).id = r.id /\ Body(r).sig = r.sig
  BY <1>1, AppendProperties DEF Hash, Body
<1>3. /\ SubSeq(L, 1, n) = L
      /\ \A i \in 1..(n + 1) : SubSeq(K, 1, i - 1) = SubSeq(L, 1, i - 1)
  <2>1. SubSeq(L, 1, n) = L
    BY <1>1, SubSeqFull
  <2>2. ASSUME NEW i \in 1..(n + 1) PROVE SubSeq(K, 1, i - 1) = SubSeq(L, 1, i - 1)
    <3>1. i - 1 \in 0..Len(L) /\ 0 \in 0..(i - 1)
      BY <1>1
    <3>. QED
      BY <1>1, <3>1, InitialOf DEF Hash
  <2>. QED
    BY <2>1, <2>2
<1>4. g.latest = K
  BY DEF HeadAfter
<1>5. h = NoHead => L = <<>> /\ n = 0
  BY EmptySeq DEF NoHash
<1>6. h # NoHead => /\ Heads(h) /\ Chained(R, L) /\ h.latest = L
                    /\ 1 \in 1..n /\ h.length = n /\ h.genesis = L[1].id
  BY HeadsAre DEF Linked, Heads
<1>7. Keyed(R \cup {r})
  <2>1. Keyed(R)
    BY DEF Linked
  <2>2. IsFiniteSet(R \cup {r})
    BY <2>1, FS_AddElement DEF Keyed
  <2>. QED
    BY <2>1, <2>2 DEF Keyed
<1>8. g \in Tip /\ g.length = n + 1 /\ g.genesis = K[1].id
  <2>1. CASE h = NoHead
    BY <1>1, <1>2, <1>5, <2>1 DEF HeadAfter, Tip
  <2>2. CASE h # NoHead
    <3>1. L[1] \in Link /\ K[1] = L[1]
      BY <1>1, <1>2, <1>6, <2>2
    <3>2. L[1].id \in Nat
      BY <3>1 DEF Link
    <3>. QED
      BY <1>1, <1>6, <2>2, <3>1, <3>2 DEF HeadAfter, Tip
  <2>. QED
    BY <2>1, <2>2
<1>9. Heads(g) /\ g # NoHead
  BY <1>1, <1>4, <1>8, HeadsExist DEF Heads
<1>10. DOMAIN K = 1..(n + 1) /\ DOMAIN L = 1..n
  BY <1>1
<1>11. ASSUME NEW i \in 1..n
       PROVE  h # NoHead /\ K[i] = L[i] /\ \E q \in R : Placed(q, L, i) /\ Signed(q, L, i)
  <2>1. h # NoHead
    BY <1>5
  <2>. QED
    BY <1>2, <1>6, <1>10, <2>1 DEF Chained
<1>12. Chained(R \cup {r}, K)
  <2>1. ASSUME NEW i \in 1..(n + 1), NEW j \in 1..(n + 1), K[i].id = K[j].id PROVE i = j
    <3>1. ASSUME NEW k \in 1..n PROVE K[k].id # r.id
      BY <1>11 DEF Placed
    <3>2. CASE i = n + 1 \/ j = n + 1
      BY <1>1, <1>2, <2>1, <3>1, <3>2
    <3>3. CASE i # n + 1 /\ j # n + 1
      <4>1. i \in 1..n /\ j \in 1..n
        BY <1>1, <3>3
      <4>. QED
        BY <1>6, <1>10, <1>11, <2>1, <4>1 DEF Chained
    <3>. QED
      BY <3>2, <3>3
  <2>2. ASSUME NEW i \in 1..(n + 1) PROVE \E q \in R \cup {r} : Placed(q, K, i) /\ Signed(q, K, i)
    <3>1. CASE i = n + 1
      <4>1. i - 1 = n
        BY <1>1, <3>1
      <4>2. r.prev = SubSeq(K, 1, i - 1)
        BY <1>3, <4>1
      <4>3. K[i] = Body(r)
        BY <1>2, <3>1
      <4>. QED
        BY <1>2, <4>2, <4>3 DEF Placed, Signed
    <3>2. CASE i # n + 1
      <4>1. i \in 1..n
        BY <1>1, <3>2
      <4>2. PICK q \in R : Placed(q, L, i) /\ Signed(q, L, i)
        BY <1>11, <4>1
      <4>3. K[i] = L[i] /\ SubSeq(K, 1, i - 1) = SubSeq(L, 1, i - 1)
        BY <1>3, <1>11, <4>1
      <4>4. Placed(q, K, i) /\ Signed(q, K, i)
        BY <4>2, <4>3 DEF Placed, Signed
      <4>. QED
        BY <4>4
    <3>. QED
      BY <3>1, <3>2
  <2>3. ASSUME NEW q \in R PROVE q.prev = NoHash \/ \E i \in 1..(n + 1) : q.id = K[i].id
    <3>1. CASE h = NoHead
      BY <3>1 DEF Linked
    <3>2. CASE h # NoHead
      BY <1>2, <1>6, <1>10, <3>2 DEF Chained
    <3>. QED
      BY <3>1, <3>2
  <2>4. \E i \in 1..(n + 1) : r.id = K[i].id
    BY <1>1, <1>2
  <2>. QED
    BY <1>10, <2>1, <2>2, <2>3, <2>4 DEF Chained
<1>13. Linked(R \cup {r}, g)
  BY <1>4, <1>7, <1>9, <1>12 DEF Linked
<1>14. Left(R \cup {r}, g) = IF h = NoHead THEN R ELSE Left(R, h)
  <2>1. CASE h = NoHead
    <3>1. K[1].id = r.id /\ \A q \in R : q.prev = NoHash
      BY <1>1, <1>2, <1>5, <2>1 DEF Linked
    <3>. QED
      BY <1>4, <2>1, <3>1 DEF Left, Genesis
  <2>2. CASE h # NoHead
    <3>1. r.prev # NoHash
      BY <1>6, <2>2 DEF Heads, NoHash
    <3>2. K[1] = h.latest[1]
      BY <1>2, <1>6, <2>2
    <3>. QED
      BY <1>4, <2>2, <3>1, <3>2 DEF Left, Genesis
  <2>. QED
    BY <2>1, <2>2
<1>15. Longer(g.latest, L)
  BY <1>1, <1>2, <1>3, <1>4 DEF Longer
<1>16. g.latest[n + 1] = Body(r)
  BY <1>2, <1>4
<1> HIDE DEF g
<1>. QED
  BY <1>3, <1>9, <1>13, <1>14, <1>15, <1>16 DEF g

\* It moves neither what was adopted nor what can be repaired.
LEMMA AppendedKeeps ==
    ASSUME NEW R, NEW h, Linked(R, h), NEW r \in Row,
           r.prev = IF h = NoHead THEN NoHash ELSE h.latest,
           \A q \in R : q.id # r.id, r.sig = Sign, key \in Keys
    PROVE  /\ \A m : Attested(R, h, m) => Attested(R \cup {r}, HeadAfter(h, r), m)
           /\ Repairable(R, h) => Repairable(R \cup {r}, HeadAfter(h, r))
           /\ Invalid(R \cup {r}) = Invalid(R)
<1> DEFINE g == HeadAfter(h, r)
           n == Len(r.prev)
<1>1. /\ g # NoHead /\ Len(g.latest) = n + 1 /\ n \in Nat
      /\ g.latest \in Seq(Link) /\ DOMAIN g.latest = 1..(n + 1)
      /\ \A i \in 1..n : g.latest[i] = r.prev[i]
      /\ g.latest[n + 1] = Body(r)
      /\ \A i \in 1..(n + 1) : SubSeq(g.latest, 1, i - 1) = SubSeq(r.prev, 1, i - 1)
      /\ Left(R \cup {r}, g) = IF h = NoHead THEN R ELSE Left(R, h)
  <2>1. r.prev \in Seq(Link) /\ n \in Nat
    BY HashOf
  <2>2. Heads(g) /\ Longer(g.latest, r.prev)
    BY Appended
  <2>3. g.latest \in Seq(Link) /\ DOMAIN g.latest = 1..(n + 1)
    BY <2>2, HeadsAre DEF Longer
  <2>4. g # NoHead /\ g.latest[n + 1] = Body(r)
    BY Appended
  <2>5. Left(R \cup {r}, g) = IF h = NoHead THEN R ELSE Left(R, h)
    BY Appended
  <2> HIDE DEF g
  <2>. QED
    BY <2>1, <2>2, <2>3, <2>4, <2>5 DEF Longer
<1> HIDE DEF g
<1>2. Invalid(R \cup {r}) = Invalid(R)
  BY ChainAssumption DEF Invalid, Sign
<1>3. ASSUME NEW m, Attested(R, h, m), m # <<>> PROVE Attested(R \cup {r}, g, m)
  <2>1. /\ h # NoHead /\ Left(R, h) # {}
        /\ Invalid(Left(R, h)) = {} => m[1].plan.adopted = Hashes(Left(R, h))
        /\ m[1].plan.head # NoHash
    BY <1>3 DEF Attested
  <2>2. PICK i \in DOMAIN h.latest :
           h.latest[i].id = m[1].entry /\ SubSeq(h.latest, 1, i - 1) = m[1].plan.head
    BY <1>3 DEF Attested
  <2>3. DOMAIN h.latest = 1..n /\ r.prev = h.latest
    BY <2>1, HeadsAre DEF Linked
  <2>4. i \in 1..n /\ i \in 1..(n + 1)
    BY <1>1, <2>2, <2>3
  <2>5. g.latest[i].id = m[1].entry /\ SubSeq(g.latest, 1, i - 1) = m[1].plan.head
    BY <1>1, <2>2, <2>3, <2>4
  <2>. QED
    BY <1>1, <2>1, <2>4, <2>5 DEF Attested
<1>4. ASSUME Repairable(R, h) PROVE Repairable(R \cup {r}, g)
  <2> SUFFICES ASSUME Invalid(R) # {}, Left(R \cup {r}, g) = {}
               PROVE  /\ \A q \in R \cup {r} : q.sig.ver = 2
                      /\ \A q \in Invalid(R), i \in DOMAIN g.latest :
                            q.id = g.latest[i].id => g.latest[i].sig = Sign
    BY <1>2 DEF Repairable
  <2>1. h # NoHead /\ Left(R, h) = {}
    <3>1. R # {}
      BY DEF Invalid
    <3>. QED
      BY <1>1, <3>1
  <2>2. /\ \A q \in R : q.sig.ver = 2
        /\ \A q \in Invalid(R), i \in DOMAIN h.latest :
              q.id = h.latest[i].id => h.latest[i].sig = Sign
    BY <1>4, <2>1 DEF Repairable
  <2>3. DOMAIN h.latest = 1..n /\ r.prev = h.latest
    BY <2>1, HeadsAre DEF Linked
  <2>4. r.sig.ver = 2
    BY DEF Sign
  <2>5. ASSUME NEW q \in Invalid(R), NEW i \in 1..(n + 1), q.id = g.latest[i].id
        PROVE  g.latest[i].sig = Sign
    <3>1. CASE i \in 1..n
      BY <1>1, <2>2, <2>3, <2>5, <3>1
    <3>2. CASE i = n + 1
      <4>1. g.latest[i].id = r.id
        BY <1>1, <3>2 DEF Body
      <4>. QED
        BY <2>5, <4>1 DEF Invalid
    <3>. QED
      BY <1>1, <3>1, <3>2
  <2>. QED
    BY <1>1, <2>2, <2>4, <2>5
<1>5. \A m : Attested(R, h, m) => Attested(R \cup {r}, g, m)
  <2> SUFFICES ASSUME NEW m, Attested(R, h, m) PROVE Attested(R \cup {r}, g, m)
    OBVIOUS
  <2>1. m = <<>> => Attested(R \cup {r}, g, m)
    BY DEF Attested
  <2>. QED
    BY <1>3, <2>1
<1>. QED
  BY <1>2, <1>4, <1>5 DEF g

\* A row with a broken signature in place of the row.
Spoilt(r) == [r EXCEPT !.sig.key = Broken]

\* The damage to a signature is seen, and changes nothing else.
LEMMA Damaged ==
    ASSUME NEW R, NEW h, Linked(R, h), NEW r \in R, r.sig.key # Broken
    PROVE  /\ Linked((R \ {r}) \cup {Spoilt(r)}, h)
           /\ \A m : Attested(R, h, m) => Attested((R \ {r}) \cup {Spoilt(r)}, h, m)
           /\ Invalid((R \ {r}) \cup {Spoilt(r)}) = Invalid(R) \cup {Spoilt(r)}
           /\ h # NoHead =>
                 /\ Left((R \ {r}) \cup {Spoilt(r)}, h) = {} <=> Left(R, h) = {}
                 /\ Invalid(Left((R \ {r}) \cup {Spoilt(r)}, h)) = {} =>
                       Left((R \ {r}) \cup {Spoilt(r)}, h) = Left(R, h)
<1> DEFINE d == Spoilt(r)
           Q == (R \ {r}) \cup {d}
<1>1. Keyed(R) /\ R \in SUBSET Row /\ IsFiniteSet(R) /\ r \in Row
  BY DEF Linked, Keyed
<1>2. /\ d \in Row /\ d.id = r.id /\ d.prev = r.prev
      /\ d.sig = [r.sig EXCEPT !.key = Broken] /\ d.sig.key = Broken
  BY <1>1 DEF Spoilt, Row, Sig
<1> HIDE DEF d
<1>3. Keyed(Q)
  <2>1. IsFiniteSet(R \ {r})
    BY <1>1, FS_Subset
  <2>2. IsFiniteSet(Q)
    BY <2>1, FS_AddElement
  <2>. QED
    BY <1>1, <1>2, <2>2 DEF Keyed
<1>4. ASSUME h # NoHead PROVE Chained(Q, h.latest)
  <2> DEFINE L == h.latest
  <2>1. /\ Chained(R, L) /\ L \in Seq(Link) /\ DOMAIN L = 1..Len(L)
    BY <1>4, HeadsAre DEF Linked
  <2>2. ASSUME NEW i \in 1..Len(L) PROVE \E q \in Q : Placed(q, L, i) /\ Signed(q, L, i)
    <3>1. PICK q \in R : Placed(q, L, i) /\ Signed(q, L, i)
      BY <2>1 DEF Chained
    <3>2. CASE q # r
      BY <3>1, <3>2
    <3>3. CASE q = r
      <4>1. r.sig = L[i].sig
        BY <1>1, <2>1, <3>1, <3>3, RowAt DEF Placed
      <4>2. Placed(d, L, i) /\ Signed(d, L, i)
        BY <1>2, <3>1, <3>3, <4>1 DEF Placed, Signed
      <4>. QED
        BY <4>2
    <3>. QED
      BY <3>2, <3>3
  <2>3. \A q \in Q : q.prev = NoHash \/ \E i \in DOMAIN L : q.id = L[i].id
    BY <1>2, <2>1 DEF Chained
  <2>. QED
    BY <2>1, <2>2, <2>3 DEF Chained
<1>5. Linked(Q, h)
  BY <1>2, <1>3, <1>4 DEF Linked
<1>6. Invalid(Q) = Invalid(R) \cup {d}
  BY <1>2 DEF Invalid
<1>7. CASE r \in Left(R, h)
  <2>1. d \in Left(Q, h) /\ d \in Invalid(Left(Q, h))
    BY <1>2, <1>7 DEF Left, Genesis, Invalid
  <2>2. \A m : Attested(R, h, m) => Attested(Q, h, m)
    BY <2>1 DEF Attested
  <2>. QED
    BY <1>5, <1>6, <1>7, <2>1, <2>2 DEF d
<1>8. CASE r \notin Left(R, h)
  <2>1. Left(Q, h) = Left(R, h)
    BY <1>2, <1>8 DEF Left, Genesis
  <2>2. \A m : Attested(R, h, m) => Attested(Q, h, m)
    BY <2>1 DEF Attested
  <2>. QED
    BY <1>5, <1>6, <2>1, <2>2 DEF d
<1>. QED
  BY <1>7, <1>8

-----------------------------------------------------------------------------
(* The steps.                                                              *)

\* The hash of the tip.
LEMMA Tips ==
    ASSUME IInv
    PROVE  /\ Latest \in Seq(Link) /\ Len(Latest) \in Nat
           /\ Latest = IF head = NoHead THEN NoHash ELSE head.latest
           /\ head # NoHead => Latest # NoHash /\ Heads(head)
<1>1. head # NoHead => Heads(head)
  BY DEF IInv, Images, Linked
<1>2. head # NoHead => head.latest \in Seq(Link) /\ head.latest # NoHash
  BY <1>1, HeadsAre DEF Heads, NoHash
<1>3. Latest \in Seq(Link)
  BY <1>2 DEF Latest, NoHash
<1>. QED
  BY <1>1, <1>2, <1>3 DEF Latest

\* What is left of the ids when rows, copies and checkpoints only go, or
\* come from one another.
LEMMA StillApart ==
    ASSUME IInv,
           \A r \in Loose' : \E q \in Loose : q.id = r.id,
           \A L \in Chains' : L \in Chains
    PROVE  Apart'
<1> SUFFICES ASSUME NEW r \in Loose', NEW L \in Chains', NEW i \in 2..Len(L) PROVE L[i].id # r.id
  BY DEF Apart
<1>1. PICK q \in Loose : q.id = r.id
  OBVIOUS
<1>. QED
  BY <1>1 DEF IInv, Apart

\* Loose rows have ids that are used.
LEMMA LooseKnown ==
    ASSUME IInv
    PROVE  \A q \in Loose : q.id <= used
  BY DEF IInv, Images, Whole, Known, Loose

\* The step appends r to the chain.
Grows(r) ==
    /\ r = [id |-> Fresh, sig |-> Sign, prev |-> Latest]
    /\ rows' = rows \cup {r} /\ head' = HeadAfter(head, r)
    /\ used' = Fresh
    /\ UNCHANGED <<key, exports, copies>>

\* What an append keeps, whoever appends.
LEMMA Grown ==
    ASSUME IInv, NEW r, Grows(r)
    PROVE  /\ r \in Row /\ r.id = Fresh /\ r.prev = Latest
           /\ \A q \in rows : q.id # r.id
           /\ Linked(rows', head') /\ Known(rows)' /\ Repairable(rows, head)'
           /\ Invalid(rows') = Invalid(rows)
           /\ \A m : Attested(rows, head, m) => Attested(rows', head', m)
           /\ \A c \in copies' : Whole(c)'
           /\ Apart'
           /\ Len(Latest') = Len(Latest) + 1
           /\ \A p \in Procs : proc'[p] = proc[p] => Repairing(p)' /\ Adopting(p)'
<1>1. /\ Linked(rows, head) /\ Known(rows) /\ Repairable(rows, head)
      /\ used \in Nat /\ key \in Keys
  BY DEF IInv, Images, Types
<1>2. r \in Row /\ r.id = Fresh /\ r.prev = Latest /\ r.sig = Sign
  <2>1. Latest \in Seq(Link)
    BY Tips
  <2>. QED
    BY <1>1, <2>1 DEF Grows, Row, Sig, Sign, Fresh
<1>3. \A q \in rows : q.id # r.id
  <2>1. \A q \in rows : q.id \in Nat
    BY <1>1 DEF Linked, Keyed, Row
  <2>. QED
    BY <1>1, <1>2, <2>1 DEF Known, Fresh
<1>4. r.prev = IF head = NoHead THEN NoHash ELSE head.latest
  BY <1>2 DEF Latest
<1>5. /\ head' # NoHead /\ Heads(head') /\ Linked(rows', head')
      /\ Longer(head'.latest, r.prev) /\ head'.latest[Len(r.prev) + 1] = Body(r)
  BY <1>1, <1>2, <1>3, <1>4, Appended DEF Grows
<1>6. \A m : Attested(rows, head, m) => Attested(rows', head', m)
  BY <1>1, <1>2, <1>3, <1>4, AppendedKeeps DEF Grows
<1>7. Invalid(rows') = Invalid(rows)
  BY <1>1, <1>2, <1>3, <1>4, AppendedKeeps DEF Grows
<1>8. Repairable(rows, head)'
  <2>1. Repairable(rows', head')
    BY <1>1, <1>2, <1>3, <1>4, AppendedKeeps DEF Grows
  <2>2. Sign' = Sign
    BY DEF Grows, Sign
  <2>. QED
    BY <2>1, <2>2 DEF Repairable
<1>9. Known(rows)'
  <2>1. \A q \in rows : q.id \in Nat
    BY <1>1 DEF Linked, Keyed, Row
  <2>. QED
    BY <1>1, <1>2, <2>1 DEF Known, Grows, Fresh
<1>10. \A c \in copies' : Whole(c)'
  <2> SUFFICES ASSUME NEW c \in copies' PROVE Whole(c)'
    OBVIOUS
  <2>1. Whole(c)
    BY DEF IInv, Images, Grows
  <2>2. \A q \in c.rows : q.id \in Nat
    BY <2>1 DEF Whole, Linked, Keyed, Row
  <2>. QED
    BY <1>1, <2>1, <2>2 DEF Whole, Known, Grows, Fresh
<1>11. Len(Latest) \in Nat /\ Latest' = head'.latest /\ Len(Latest') = Len(Latest) + 1
  BY <1>2, <1>5, Tips DEF Latest, Longer
<1>12. Apart'
  <2>1. Loose' \subseteq Loose
    BY <1>5 DEF Loose, Grows
  <2>2. Chains' \subseteq Chains \cup {head'.latest}
    BY DEF Chains, Grows
  <2>3. ASSUME NEW q \in Loose', NEW i \in 2..Len(head'.latest)
        PROVE  head'.latest[i].id # q.id
    <3>1. q \in Loose /\ q.id <= used
      BY <2>1, LooseKnown
    <3>2. CASE i = Len(Latest) + 1
      <4>1. head'.latest[i].id = Fresh
        BY <1>2, <1>5, <3>2 DEF Body
      <4>. QED
        BY <1>1, <3>1, <4>1 DEF Fresh
    <3>3. CASE i # Len(Latest) + 1
      <4>1. i \in 1..Len(Latest) /\ i \in 2..Len(Latest)
        BY <1>11, <3>3
      <4>2. head'.latest[i] = Latest[i]
        BY <1>2, <1>5, <4>1 DEF Longer
      <4>3. Latest \in Chains
        <5>1. head # NoHead
          BY <4>1 DEF Latest, NoHash
        <5>. QED
          BY <5>1 DEF Latest, Chains
      <4>. QED
        BY <3>1, <4>1, <4>2, <4>3 DEF IInv, Apart
    <3>. QED
      BY <3>2, <3>3
  <2>4. ASSUME NEW q \in Loose', NEW L \in Chains', NEW i \in 2..Len(L) PROVE L[i].id # q.id
    <3>1. CASE L \in Chains
      BY <2>1, <3>1 DEF IInv, Apart
    <3>2. CASE L = head'.latest
      BY <2>3, <3>2
    <3>. QED
      BY <2>2, <3>1, <3>2
  <2>. QED
    BY <2>4 DEF Apart
<1>13. ASSUME NEW p \in Procs, proc'[p] = proc[p] PROVE Repairing(p)' /\ Adopting(p)'
  <2>1. Repairing(p)'
    BY <1>7, <1>13 DEF IInv, Readers, Repairing
  <2>2. ASSUME proc[p].pc = "adopt"
        PROVE  /\ proc[p].head = proc[p].plan.head /\ proc[p].plan.head # NoHash
               /\ Len(Latest') > Len(proc[p].plan.head) /\ Latest' # proc[p].plan.head
    <3>1. /\ proc[p].head = proc[p].plan.head /\ proc[p].plan.head # NoHash
          /\ Latest = proc[p].plan.head \/ Len(Latest) > Len(proc[p].plan.head)
      BY <2>2 DEF IInv, Readers, Adopting
    <3>2. Len(proc[p].plan.head) \in Nat
      <4>1. proc[p] \in [pc : {"adopt"}, plan : Plan, head : Seq(Link)]
        BY <2>2 DEF IInv, Types, States, Idle
      <4>2. proc[p].plan.head \in Seq(Link)
        BY <4>1 DEF Plan
      <4>. QED
        BY <4>2
    <3>3. Len(Latest') > Len(proc[p].plan.head)
      BY <1>11, <3>1, <3>2
    <3>. QED
      BY <3>1, <3>2, <3>3
  <2>3. Adopting(p)'
    BY <1>13, <2>2 DEF Adopting
  <2>. QED
    BY <2>1, <2>3
<1>. QED
  BY <1>2, <1>3, <1>5, <1>6, <1>7, <1>8, <1>9, <1>10, <1>11, <1>12, <1>13

\* What a process has read, by what it is doing.
LEMMA Readings ==
    ASSUME IInv, NEW p \in Procs
    PROVE  /\ proc[p].pc \in {"resign", "resignApply"} =>
                 proc[p].ids \in SUBSET Nat /\ proc[p].head \in Seq(Link)
                 /\ proc[p] = [pc |-> proc[p].pc, ids |-> proc[p].ids, head |-> proc[p].head]
           /\ proc[p].pc = "adopt" =>
                 /\ proc[p].plan \in Plan /\ proc[p].head \in Seq(Link)
                 /\ proc[p].plan.head \in Seq(Link)
<1>1. proc[p] \in States
  BY DEF IInv, Types
<1>2. ASSUME proc[p].pc = "adopt"
      PROVE  proc[p].plan \in Plan /\ proc[p].head \in Seq(Link) /\ proc[p].plan.head \in Seq(Link)
  <2>1. proc[p] \in [pc : {"adopt"}, plan : Plan, head : Seq(Link)]
    BY <1>1, <1>2 DEF States, Idle
  <2>. QED
    BY <2>1 DEF Plan
<1>3. ASSUME proc[p].pc \in {"resign", "resignApply"}
      PROVE  proc[p] \in [pc : {"resign", "resignApply"}, ids : SUBSET Nat, head : Seq(Link)]
  BY <1>1, <1>3 DEF States, Idle
<1>. QED
  BY <1>2, <1>3

\* append_to_chain_with_cas for a commit.
LEMMA AppendEntryStep ==
    ASSUME IInv, AppendEntry
    PROVE  /\ IInv' /\ Invalid(rows') = Invalid(rows)
           /\ head # NoHead => head' # NoHead /\ head'.length > head.length
<1>. PICK r : r = [id |-> Fresh, sig |-> Sign, prev |-> Latest]
  OBVIOUS
<1>1. head # NoHead => Heads(head) /\ head.length \in Nat /\ head.length # 0
  <2> SUFFICES ASSUME head # NoHead PROVE Heads(head) /\ head.length \in Nat /\ head.length # 0
    OBVIOUS
  <2>1. Heads(head)
    BY Tips
  <2>2. head.length = Len(head.latest) /\ Len(head.latest) \in Nat /\ 1 \in 1..Len(head.latest)
    BY <2>1, HeadsAre DEF Heads
  <2>. QED
    BY <2>1, <2>2
<1>2. Grows(r)
  <2>1. head' = HeadAfter(head, r)
    BY <1>1 DEF AppendEntry, Extend, HeadAfter
  <2>. QED
    BY <2>1 DEF AppendEntry, Extend, Grows
<1>3. UNCHANGED <<manifests, proc>> /\ exports' = exports /\ copies' = copies /\ key' = key
  BY DEF AppendEntry
<1>4. Images'
  BY <1>2, <1>3, Grown DEF IInv, Images
<1>5. Readers' /\ Apart'
  BY <1>2, <1>3, Grown DEF Readers
<1>6. Types'
  BY <1>2, <1>3 DEF IInv, Types, Grows, Fresh
<1>7. head # NoHead => head' # NoHead /\ head'.length > head.length
  <2> SUFFICES ASSUME head # NoHead PROVE head' # NoHead /\ head'.length > head.length
    OBVIOUS
  <2>1. head' # NoHead
    <3>1. Linked(rows, head) /\ r \in Row /\ r.prev = Latest /\ \A q \in rows : q.id # r.id
      BY <1>2, Grown DEF IInv, Images
    <3>. QED
      BY <1>2, <3>1, Appended DEF Grows, Latest
  <2>2. head'.length = head.length + 1
    BY <1>2 DEF Grows, HeadAfter
  <2>. QED
    BY <1>1, <2>1, <2>2
<1>8. Invalid(rows') = Invalid(rows)
  BY <1>2, Grown
<1>. QED
  BY <1>4, <1>5, <1>6, <1>7, <1>8 DEF IInv

\* apply_attestation.
LEMMA AdoptApplyStep ==
    ASSUME IInv, NEW p \in Procs, AdoptApply(p)
    PROVE  /\ IInv' /\ Invalid(rows') = Invalid(rows)
           /\ head # NoHead /\ head' # NoHead /\ head'.length > head.length
<1>. PICK r : r = [id |-> Fresh, sig |-> Sign, prev |-> Latest]
  OBVIOUS
<1> DEFINE h == proc[p].plan.head
           m == [plan |-> proc[p].plan, entry |-> Fresh]
<1>1. /\ proc[p].plan \in Plan /\ proc[p].plan.head = Latest
      /\ h # NoHash /\ head # NoHead /\ Latest = head.latest
      /\ Left(rows, head) # {}
      /\ Invalid(Left(rows, head)) = {} => proc[p].plan.adopted = Hashes(Left(rows, head))
  <2>1. proc[p].pc = "adopt" /\ Latest = proc[p].head
    BY DEF AdoptApply, Stale
  <2>2. proc[p].plan \in Plan
    BY <2>1, Readings
  <2>3. proc[p].head = h /\ h # NoHash
    BY <2>1 DEF IInv, Readers, Adopting
  <2>4. /\ Left(rows, head) # {}
        /\ Invalid(Left(rows, head)) = {} => proc[p].plan.adopted = Hashes(Left(rows, head))
    BY <2>1, <2>3 DEF IInv, Readers, Adopting
  <2>. QED
    BY <2>1, <2>2, <2>3, <2>4 DEF Latest
<1>2. Heads(head) /\ head.length \in Nat /\ head.length # 0 /\ Len(head.latest) \in Nat
  <2>1. Heads(head)
    BY <1>1, Tips
  <2>2. head.length = Len(head.latest) /\ Len(head.latest) \in Nat /\ 1 \in 1..Len(head.latest)
    BY <2>1, HeadsAre DEF Heads
  <2>. QED
    BY <2>1, <2>2
<1>3. Grows(r)
  <2>1. head' = HeadAfter(head, r)
    BY <1>1, <1>2 DEF AdoptApply, Extend, HeadAfter
  <2>. QED
    BY <1>1, <2>1 DEF AdoptApply, Extend, Grows
<1>4. /\ manifests' = Append(manifests, m) /\ proc' = [proc EXCEPT ![p] = Idle]
      /\ exports' = exports /\ copies' = copies /\ key' = key
  BY DEF AdoptApply
<1>5. manifests \in Seq(Manifest) /\ m \in Manifest /\ Fresh \in Nat
  BY <1>1 DEF IInv, Types, Manifest, Fresh
<1>6. /\ Linked(rows, head) /\ r \in Row /\ r.id = Fresh /\ r.prev = Latest
      /\ \A q \in rows : q.id # r.id
  BY <1>3, Grown DEF IInv, Images
<1>7. /\ head' # NoHead /\ Heads(head') /\ Left(rows', head') = Left(rows, head)
      /\ Longer(head'.latest, r.prev) /\ head'.latest[Len(r.prev) + 1] = Body(r)
      /\ SubSeq(r.prev, 1, Len(r.prev)) = r.prev
  BY <1>1, <1>3, <1>6, Appended DEF Grows
<1>8. Attested(rows', head', manifests')
  <2>1. CASE manifests = <<>>
    <3> DEFINE n == Len(Latest)
    <3>1. manifests'[1] = m
      BY <1>4, <2>1
    <3>2. n \in Nat /\ n + 1 \in DOMAIN head'.latest /\ (n + 1) - 1 = n
      <4>1. n \in Nat
        BY Tips
      <4>2. DOMAIN head'.latest = 1..Len(head'.latest) /\ Len(head'.latest) = n + 1
        BY <1>6, <1>7, HeadsAre DEF Longer
      <4>. QED
        BY <4>1, <4>2
    <3>3. head'.latest[n + 1].id = Fresh
      BY <1>6, <1>7 DEF Body
    <3>4. SubSeq(head'.latest, 1, (n + 1) - 1) = h
      <4>1. n + 1 \in 1..(n + 1)
        BY <3>2
      <4>2. SubSeq(head'.latest, 1, (n + 1) - 1) = SubSeq(Latest, 1, n)
        BY <1>6, <1>7, <3>2, <4>1 DEF Longer
      <4>. QED
        BY <1>1, <1>6, <1>7, <4>2
    <3>5. m.plan = proc[p].plan /\ m.entry = Fresh
      OBVIOUS
    <3> HIDE DEF m, n
    <3>. QED
      BY <1>1, <1>7, <3>1, <3>2, <3>3, <3>4, <3>5 DEF Attested
  <2>2. CASE manifests # <<>>
    <3>1. manifests'[1] = manifests[1] /\ manifests' # <<>>
      <4>1. 1 \in 1..Len(manifests)
        BY <1>5, <2>2, EmptySeq
      <4>2. Append(manifests, m)[1] = manifests[1] /\ Len(Append(manifests, m)) # 0
        BY <1>5, <4>1, AppendProperties
      <4> HIDE DEF m
      <4>. QED
        BY <1>4, <4>2
    <3>2. Attested(rows', head', manifests)
      BY <1>3, Grown DEF IInv, Images
    <3>. QED
      BY <2>2, <3>1, <3>2 DEF Attested
  <2>. QED
    BY <2>1, <2>2
<1>9. Images'
  BY <1>3, <1>8, Grown DEF IInv, Images
<1>10. ASSUME NEW q \in Procs PROVE Repairing(q)' /\ Adopting(q)'
  <2>1. CASE q = p
    <3>1. proc'[q].pc = "idle"
      BY <1>4, <2>1 DEF IInv, Types, Idle
    <3>. QED
      BY <3>1 DEF Repairing, Adopting
  <2>2. CASE q # p
    <3>1. proc'[q] = proc[q]
      BY <1>4, <2>2 DEF IInv, Types
    <3>. QED
      BY <1>3, <3>1, Grown
  <2>. QED
    BY <2>1, <2>2
<1>11. Readers' /\ Apart'
  BY <1>3, <1>10, Grown DEF Readers
<1>12. Types'
  <2>1. manifests' \in Seq(Manifest)
    BY <1>4, <1>5, AppendProperties
  <2>2. proc' \in [Procs -> States]
    BY <1>4 DEF IInv, Types, States
  <2>. QED
    BY <1>3, <1>4, <1>5, <2>1, <2>2 DEF IInv, Types, Grows
<1>13. head'.length > head.length
  <2>1. head'.length = head.length + 1
    BY <1>1, <1>3 DEF Grows, HeadAfter
  <2>. QED
    BY <1>2, <2>1
<1>14. Invalid(rows') = Invalid(rows)
  BY <1>3, Grown
<1>. QED
  BY <1>1, <1>7, <1>9, <1>11, <1>12, <1>13, <1>14 DEF IInv

\* A process that did nothing while the rows and the head stay.
LEMMA SameReader ==
    ASSUME IInv, UNCHANGED <<rows, head>>, NEW q \in Procs, proc'[q] = proc[q]
    PROVE  Repairing(q)' /\ Adopting(q)'
<1>1. Latest' = Latest
  BY DEF Latest
<1>. QED
  BY <1>1 DEF IInv, Readers, Repairing, Adopting

\* A process that ended.
LEMMA EndedReader ==
    ASSUME IInv, NEW p \in Procs, proc' = [proc EXCEPT ![p] = Idle]
    PROVE  proc' \in [Procs -> States] /\ Repairing(p)' /\ Adopting(p)'
<1>1. proc \in [Procs -> States]
  BY DEF IInv, Types
<1>2. proc' \in [Procs -> States] /\ proc'[p].pc = "idle"
  BY <1>1 DEF States, Idle
<1>. QED
  BY <1>2 DEF Repairing, Adopting

\* A backup is a copy of what is there.
LEMMA Backed ==
    ASSUME IInv, UNCHANGED <<rows, head, manifests, used, key, exports>>, Backup
    PROVE  Images' /\ Apart' /\ copies' \subseteq Image
<1> DEFINE c == [rows |-> rows, head |-> head, manifests |-> manifests]
<1>1. copies' = copies \/ copies' = copies \cup {c}
  BY DEF Backup
<1>2. /\ Linked(rows, head) /\ Attested(rows, head, manifests) /\ Known(rows)
      /\ Repairable(rows, head) /\ manifests \in Seq(Manifest) /\ copies \subseteq Image
  BY DEF IInv, Images, Types
<1>3. c \in Image /\ Whole(c)
  <2>1. rows \in SUBSET Row /\ head \in Tip \cup {NoHead}
    BY <1>2 DEF Linked, Keyed, Heads
  <2>2. c \in Image
    BY <1>2, <2>1 DEF Image
  <2>. QED
    BY <1>2, <2>2 DEF Whole
<1>4. c.rows = rows /\ c.head = head
  OBVIOUS
<1> HIDE DEF c
<1>5. copies' \subseteq Image
  BY <1>1, <1>2, <1>3
<1>6. Images'
  <2>1. Repairable(rows, head)'
    BY <1>2 DEF Repairable, Sign
  <2>2. \A d \in copies' : Whole(d)'
    <3>1. \A d \in copies' : Whole(d)
      BY <1>1, <1>3 DEF IInv, Images
    <3>. QED
      BY <3>1 DEF Whole, Known
  <2>3. Known(rows)'
    BY <1>2 DEF Known
  <2>. QED
    BY <1>2, <2>1, <2>2, <2>3 DEF Images
<1>7. \A r \in Loose' : r \in Loose
  BY <1>1, <1>4 DEF Loose
<1>8. \A L \in Chains' : L \in Chains
  BY <1>1, <1>4 DEF Chains
<1>. QED
  BY <1>5, <1>6, <1>7, <1>8, StillApart

\* Steps that touch no table and no copy.
LEMMA Kept ==
    ASSUME IInv, UNCHANGED <<rows, head, manifests, used, key, exports, copies>>
    PROVE  Images' /\ Apart'
  BY Backed DEF Backup

\* Damage to a signature.
LEMMA DamageStep ==
    ASSUME IInv, NEW r \in rows, Damage(r)
    PROVE  IInv' /\ head' = head
<1> DEFINE d == Spoilt(r)
<1>1. /\ rows' = (rows \ {r}) \cup {d} /\ r.sig.key # Broken /\ Restorable(r)
      /\ UNCHANGED <<head, manifests, used, key, proc, exports, copies>>
  BY DEF Damage, Spoilt
<1>2. /\ Linked(rows, head) /\ Attested(rows, head, manifests) /\ Known(rows)
      /\ Repairable(rows, head)
  BY DEF IInv, Images
<1>3. r \in Row /\ rows \in SUBSET Row /\ IsFiniteSet(rows) /\ Keyed(rows)
  BY <1>2 DEF Linked, Keyed
<1>4. d.id = r.id /\ d.prev = r.prev /\ d.sig.ver = r.sig.ver /\ d.sig.key = Broken
  BY <1>3 DEF Spoilt, Row, Sig
<1> HIDE DEF d
<1>5. /\ Linked(rows', head) /\ Attested(rows', head, manifests)
      /\ Invalid(rows') = Invalid(rows) \cup {d}
      /\ head # NoHead =>
            /\ Left(rows', head) = {} <=> Left(rows, head) = {}
            /\ Invalid(Left(rows', head)) = {} => Left(rows', head) = Left(rows, head)
  BY <1>1, <1>2, Damaged DEF d
<1>6. Repairable(rows', head)
  <2> DEFINE L == head.latest
  <2> SUFFICES ASSUME head # NoHead, Left(rows', head) = {}
               PROVE  /\ \A q \in rows' : q.sig.ver = 2
                      /\ \A q \in Invalid(rows'), i \in DOMAIN L : q.id = L[i].id => L[i].sig = Sign
    BY DEF Repairable
  <2>1. Left(rows, head) = {}
    BY <1>5
  <2>2. /\ Chained(rows, L) /\ L \in Seq(Link) /\ DOMAIN L = 1..Len(L)
    BY <1>2, HeadsAre DEF Linked
  <2>3. ~(Cardinality(Genesis(rows)) > 1)
    <3>1. \A q, s \in Genesis(rows) : q = s
      BY <1>3, <2>1 DEF Left, Genesis, Keyed
    <3>2. Genesis(rows) = {} \/ \E q : Genesis(rows) = {q}
      BY <3>1
    <3>3. Cardinality(Genesis(rows)) = 0 \/ Cardinality(Genesis(rows)) = 1
      BY <3>2, FS_EmptySet, FS_Singleton
    <3>. QED
      BY <3>3
  <2>4. r.sig = Sign /\ \A q \in rows : q.sig.ver = 2
    BY <1>1, <2>3 DEF Restorable
  <2>5. \A q \in rows' : q.sig.ver = 2
    BY <1>1, <1>4, <2>4
  <2>6. ASSUME NEW i \in DOMAIN L, r.id = L[i].id PROVE L[i].sig = Sign
    <3>1. r.sig = L[i].sig
      BY <1>1, <1>3, <2>2, <2>6, RowAt
    <3>. QED
      BY <2>4, <3>1
  <2>7. \A q \in Invalid(rows), i \in DOMAIN L : q.id = L[i].id => L[i].sig = Sign
    BY <1>2, <2>1 DEF Repairable
  <2>. QED
    BY <1>4, <1>5, <2>5, <2>6, <2>7
<1>7. Images'
  <2>1. Repairable(rows, head)'
    BY <1>1, <1>6 DEF Repairable, Sign
  <2>2. Known(rows)'
    BY <1>1, <1>2, <1>4 DEF Known
  <2>3. \A c \in copies' : Whole(c)'
    BY <1>1 DEF IInv, Images, Whole, Known
  <2>. QED
    BY <1>1, <1>5, <2>1, <2>2, <2>3 DEF Images
<1>8. Apart'
  <2>1. \A q \in Loose' : \E s \in Loose : s.id = q.id
    <3> SUFFICES ASSUME NEW q \in Loose' PROVE \E s \in Loose : s.id = q.id
      OBVIOUS
    <3>1. CASE q \in rows' /\ head = NoHead
      <4>1. \E s \in rows : s.id = q.id
        BY <1>1, <1>4, <3>1
      <4>. QED
        BY <3>1, <4>1 DEF Loose
    <3>2. CASE \E c \in copies : c.head = NoHead /\ q \in c.rows
      BY <3>2 DEF Loose
    <3>. QED
      BY <1>1, <3>1, <3>2 DEF Loose
  <2>2. \A L \in Chains' : L \in Chains
    BY <1>1 DEF Chains
  <2>. QED
    BY <2>1, <2>2, StillApart
<1>9. ASSUME NEW p \in Procs PROVE Repairing(p)' /\ Adopting(p)'
  <2>1. proc[p].pc \in {"idle", "adopt"}
    BY <1>1 DEF Restorable
  <2>2. Repairing(p)'
    BY <1>1, <2>1 DEF Repairing
  <2>3. ASSUME proc[p].pc = "adopt" PROVE Adopting(p)'
    <3> DEFINE h == proc[p].plan.head
    <3>1. /\ proc[p].head = h /\ h # NoHash
          /\ Latest = h \/ Len(Latest) > Len(h)
          /\ Latest = h =>
                /\ Left(rows, head) # {}
                /\ Invalid(Left(rows, head)) = {} => proc[p].plan.adopted = Hashes(Left(rows, head))
      BY <2>3 DEF IInv, Readers, Adopting
    <3>2. Latest' = Latest
      BY <1>1 DEF Latest
    <3>3. ASSUME Latest = h
          PROVE  /\ Left(rows', head) # {}
                 /\ Invalid(Left(rows', head)) = {} => proc[p].plan.adopted = Hashes(Left(rows', head))
      <4>1. head # NoHead
        BY <3>1, <3>3 DEF Latest
      <4>. QED
        BY <1>5, <3>1, <3>3, <4>1
    <3>. QED
      BY <1>1, <3>1, <3>2, <3>3 DEF Adopting
  <2>4. proc[p].pc # "adopt" => Adopting(p)'
    BY <1>1 DEF Adopting
  <2>. QED
    BY <2>2, <2>3, <2>4
<1>10. Types'
  BY <1>1 DEF IInv, Types
<1>. QED
  BY <1>1, <1>7, <1>8, <1>9, <1>10 DEF IInv, Readers

\* Another signing key, when there is nothing to repair.
LEMMA RotateKeyStep ==
    ASSUME IInv, NEW k \in Keys, RotateKey(k)
    PROVE  IInv' /\ head' = head
<1>1. /\ UNCHANGED <<rows, head, manifests, used, proc, exports, copies>>
      /\ key' = k /\ Invalid(rows) = {}
  BY DEF RotateKey, db
<1>2. Images'
  <2>1. Repairable(rows, head)'
    BY <1>1 DEF Repairable
  <2>2. /\ Linked(rows, head) /\ Attested(rows, head, manifests) /\ Known(rows)
        /\ \A c \in copies : Whole(c)
    BY DEF IInv, Images
  <2>3. Known(rows)' /\ \A c \in copies' : Whole(c)'
    BY <1>1, <2>2 DEF Whole, Known
  <2>. QED
    BY <1>1, <2>1, <2>2, <2>3 DEF Images
<1>3. Apart'
  <2>1. Loose' = Loose /\ Chains' = Chains
    BY <1>1 DEF Loose, Chains
  <2>. QED
    BY <2>1 DEF IInv, Apart
<1>4. Readers'
  BY <1>1, SameReader DEF Readers
<1>5. Types'
  BY <1>1 DEF IInv, Types
<1>. QED
  BY <1>1, <1>2, <1>3, <1>4, <1>5 DEF IInv

\* export head.
LEMMA ExportHeadStep ==
    ASSUME IInv, ExportHead
    PROVE  IInv' /\ head' = head
<1>1. /\ UNCHANGED <<rows, head, manifests, used, key, proc, copies>>
      /\ exports' = exports \cup {head} /\ head # NoHead
  BY DEF ExportHead, db
<1>2. Images'
  <2>1. Repairable(rows, head)'
    BY <1>1 DEF IInv, Images, Repairable, Sign
  <2>2. /\ Linked(rows, head) /\ Attested(rows, head, manifests) /\ Known(rows)
        /\ \A c \in copies : Whole(c)
    BY DEF IInv, Images
  <2>3. Known(rows)' /\ \A c \in copies' : Whole(c)'
    BY <1>1, <2>2 DEF Whole, Known
  <2>. QED
    BY <1>1, <2>1, <2>2, <2>3 DEF Images
<1>3. Apart'
  <2>1. Loose' = Loose
    BY <1>1 DEF Loose
  <2>2. Chains' = Chains
    BY <1>1 DEF Chains
  <2>. QED
    BY <2>1, <2>2 DEF IInv, Apart
<1>4. Readers'
  BY <1>1, SameReader DEF Readers
<1>5. Types'
  BY <1>1, Tips DEF IInv, Types
<1>. QED
  BY <1>1, <1>2, <1>3, <1>4, <1>5 DEF IInv

\* A backup is put back.
LEMMA RestoreStep ==
    ASSUME IInv, NEW c \in copies, Restore(c)
    PROVE  /\ IInv'
           /\ [rows |-> rows', head |-> head', manifests |-> manifests'] \in copies
<1>1. /\ rows' = c.rows /\ head' = c.head /\ manifests' = c.manifests
      /\ UNCHANGED <<used, key, proc, exports, copies>>
      /\ Invalid(c.rows) = {} /\ \A p \in Procs : proc[p] = Idle
  BY DEF Restore
<1>2. Whole(c) /\ c \in Image
  BY DEF IInv, Images, Types
<1>3. Images'
  <2>1. Repairable(rows, head)'
    BY <1>1 DEF Repairable
  <2>2. Linked(rows', head') /\ Attested(rows', head', manifests') /\ Known(rows)'
    BY <1>1, <1>2 DEF Whole, Known
  <2>3. \A d \in copies' : Whole(d)'
    BY <1>1 DEF IInv, Images, Whole, Known
  <2>. QED
    BY <2>1, <2>2, <2>3 DEF Images
<1>4. Apart'
  <2>1. \A r \in Loose' : r \in Loose
    BY <1>1 DEF Loose
  <2>2. \A L \in Chains' : L \in Chains
    BY <1>1 DEF Chains
  <2>. QED
    BY <2>1, <2>2, StillApart
<1>5. Readers'
  BY <1>1 DEF Readers, Repairing, Adopting, Idle
<1>6. Types'
  <2>1. manifests' \in Seq(Manifest)
    BY <1>1, <1>2 DEF Image
  <2>. QED
    BY <1>1, <2>1 DEF IInv, Types
<1>7. c = [rows |-> c.rows, head |-> c.head, manifests |-> c.manifests]
  BY <1>2 DEF Image
<1>. QED
  BY <1>1, <1>3, <1>4, <1>5, <1>6, <1>7 DEF IInv

\* evaluate_re_sign_preflight.
LEMMA ReSignPreviewStep ==
    ASSUME OneByOne, IInv, Marks, NEW p \in Procs, ReSignPreview(p)
    PROVE  IInv' /\ head' = head
<1>1. /\ UNCHANGED <<rows, head, manifests, used, key, exports, copies>> /\ Clear(rows)
  BY DEF ReSignPreview, db
<1>2. PICK mode \in Modes : \E C \in Candidates(mode) \ {{}} :
         proc' = [proc EXCEPT ![p] = [pc |-> "resign", ids |-> C, head |-> Latest]]
  BY DEF ReSignPreview
<1>3. PICK C \in Candidates(mode) :
         proc' = [proc EXCEPT ![p] = [pc |-> "resign", ids |-> C, head |-> Latest]]
  BY <1>2
<1>4. /\ Linked(rows, head) /\ Repairable(rows, head) /\ Keyed(rows)
      /\ rows \in SUBSET Row /\ proc \in [Procs -> States]
  BY DEF IInv, Images, Types, Linked, Keyed
<1> DEFINE stale == {r \in rows : r.sig.ver < 2}
<1>5. mode = "tx" => \A r, q \in Invalid(rows) : r = q
  <2> SUFFICES ASSUME mode = "tx" PROVE damage <= 1
    BY DEF Marks
  <2>1. damage \in Nat /\ MaxDamage \in Nat /\ damage <= MaxDamage /\ MaxDamage <= 1
    BY ChainAssumption DEF Marks, OneByOne
  <2>. QED
    BY <2>1
<1>6. C = {r.id : r \in Invalid(rows)} \/ C = {r.id : r \in Invalid(rows) \cup stale}
  <2>1. CASE mode = "tx"
    <3>1. PICK r \in Invalid(rows) : C = {r.id}
      BY <1>3, <2>1 DEF Candidates
    <3>. QED
      BY <1>5, <2>1, <3>1
  <2>2. CASE mode # "tx"
    <3>1. mode = "all_invalid" \/ mode = "all"
      BY <2>2, ChainAssumption
    <3>. QED
      BY <1>3, <3>1 DEF Candidates
  <2>. QED
    BY <2>1, <2>2
<1>7. C \in SUBSET Nat /\ \A r \in Invalid(rows) : r.id \in C
  BY <1>4, <1>6 DEF Row, Invalid
<1>8. ASSUME Invalid(rows) # {}, NEW q \in stale PROVE q \in Invalid(rows)
  <2>1. CASE head = NoHead
    <3>1. rows = Genesis(rows)
      BY <1>4, <2>1 DEF Linked, Genesis
    <3>2. \A r \in rows : r = q
      BY <1>1, <1>4, <3>1, ClearOne
    <3>. QED
      BY <1>8, <3>2 DEF Invalid
  <2>2. CASE head # NoHead
    <3>1. Left(rows, head) = {}
      BY <1>1, <1>4, <2>2, ClearOne
    <3>2. q.sig.ver = 2
      BY <1>4, <1>8, <2>2, <3>1 DEF Repairable
    <3>. QED
      BY <3>2
  <2>. QED
    BY <2>1, <2>2
<1>9. Invalid(rows) # {} => \A i \in C : \E r \in Invalid(rows) : r.id = i
  BY <1>6, <1>8
<1>10. proc'[p] = [pc |-> "resign", ids |-> C, head |-> Latest]
  BY <1>3, <1>4
<1>11. Repairing(p)' /\ Adopting(p)'
  BY <1>1, <1>7, <1>9, <1>10 DEF Repairing, Adopting
<1>12. ASSUME NEW q \in Procs, q # p PROVE Repairing(q)' /\ Adopting(q)'
  <2>1. proc'[q] = proc[q]
    BY <1>3, <1>4, <1>12
  <2>. QED
    BY <1>1, <2>1, SameReader
<1>13. Readers'
  BY <1>11, <1>12 DEF Readers
<1>14. proc' \in [Procs -> States]
  <2>1. [pc |-> "resign", ids |-> C, head |-> Latest] \in States
    BY <1>7, Tips DEF States
  <2>. QED
    BY <1>3, <1>4, <2>1
<1>15. Types'
  BY <1>1, <1>14 DEF IInv, Types
<1>. QED
  BY <1>1, <1>13, <1>15, Kept DEF IInv

\* The copy taken before re-sign.
LEMMA ReSignBackupStep ==
    ASSUME IInv, NEW p \in Procs, ReSignBackup(p)
    PROVE  IInv' /\ head' = head
<1>1. /\ UNCHANGED <<rows, head, manifests, used, key, exports>> /\ Backup
      /\ proc[p].pc = "resign" /\ proc' = [proc EXCEPT ![p].pc = "resignApply"]
      /\ proc \in [Procs -> States]
  BY DEF ReSignBackup, db, IInv, Types
<1>2. /\ proc[p] = [pc |-> "resign", ids |-> proc[p].ids, head |-> proc[p].head]
      /\ proc[p].ids \in SUBSET Nat /\ proc[p].head \in Seq(Link)
  BY <1>1, Readings
<1>3. proc'[p] = [pc |-> "resignApply", ids |-> proc[p].ids, head |-> proc[p].head]
  BY <1>1, <1>2
<1>4. Repairing(p)' /\ Adopting(p)'
  BY <1>1, <1>3 DEF IInv, Readers, Repairing, Adopting
<1>5. ASSUME NEW q \in Procs, q # p PROVE Repairing(q)' /\ Adopting(q)'
  <2>1. proc'[q] = proc[q]
    BY <1>1, <1>5
  <2>. QED
    BY <1>1, <2>1, SameReader
<1>6. Readers'
  BY <1>4, <1>5 DEF Readers
<1>7. proc' \in [Procs -> States]
  <2>1. proc'[p] \in States
    BY <1>2, <1>3 DEF States
  <2>2. proc' = [proc EXCEPT ![p] = proc'[p]]
    BY <1>1
  <2>. QED
    BY <1>1, <2>1, <2>2
<1>8. Images' /\ Apart' /\ copies' \subseteq Image
  BY <1>1, Backed
<1>9. Types'
  BY <1>1, <1>7, <1>8 DEF IInv, Types
<1>. QED
  BY <1>1, <1>6, <1>8, <1>9 DEF IInv

\* adopt plan writes a file.
LEMMA AdoptPlanStep ==
    ASSUME IInv, AdoptPlan
    PROVE  IInv' /\ head' = head
<1>1. UNCHANGED <<rows, head, manifests, used, key, exports, copies, proc>>
  BY DEF AdoptPlan, db
<1>2. Readers'
  BY <1>1, SameReader DEF Readers
<1>3. Types'
  BY <1>1 DEF IInv, Types
<1>. QED
  BY <1>1, <1>2, <1>3, Kept DEF IInv

\* The checks of adopt apply: the plan is about the extra genesis rows.
LEMMA AdoptCheckStep ==
    ASSUME IInv, NEW p \in Procs, AdoptCheck(p)
    PROVE  IInv' /\ head' = head
<1>1. /\ UNCHANGED <<rows, head, manifests, used, key, exports>> /\ Backup
      /\ Eligible(Walk(rows, head)) /\ proc \in [Procs -> States]
  BY DEF AdoptCheck, db, IInv, Types
<1>2. PICK m : /\ Live(Latest) = m
               /\ proc' = [proc EXCEPT ![p] = [pc |-> "adopt", plan |-> m, head |-> m.head]]
  BY DEF AdoptCheck
<1>3. /\ head # NoHead /\ Invalid(rows) = {} /\ Extra(rows, Walk(rows, head)) # {}
      /\ Linked(rows, head)
  BY <1>1 DEF Eligible, IInv, Images
<1>4. Lists(Walk(rows, head), rows, head.latest)
  BY <1>3, ValidWalk
<1>5. Extra(rows, Walk(rows, head)) = Left(rows, head)
  BY <1>3, <1>4, Covered
<1>6. m = [head |-> Latest, adopted |-> Hashes(Left(rows, head))]
  BY <1>2, <1>5 DEF Live
<1>7. Latest \in Seq(Link) /\ Latest # NoHash
  BY <1>3, Tips
<1>8. m \in Plan
  <2>1. Left(rows, head) \in SUBSET Row
    BY <1>3 DEF Linked, Keyed, Left, Genesis
  <2>2. Hashes(Left(rows, head)) \in SUBSET Seq(Link)
    BY <2>1, HashOf DEF Hashes
  <2>. QED
    BY <1>6, <1>7, <2>2 DEF Plan
<1>9. proc'[p] = [pc |-> "adopt", plan |-> m, head |-> m.head]
  BY <1>1, <1>2
<1>10. Repairing(p)' /\ Adopting(p)'
  <2>1. Latest' = Latest
    BY <1>1 DEF Latest
  <2>2. Repairing(p)'
    BY <1>9 DEF Repairing
  <2>3. Adopting(p)'
    BY <1>1, <1>3, <1>5, <1>6, <1>7, <1>9, <2>1 DEF Adopting
  <2>. QED
    BY <2>2, <2>3
<1>11. ASSUME NEW q \in Procs, q # p PROVE Repairing(q)' /\ Adopting(q)'
  <2>1. proc'[q] = proc[q]
    BY <1>1, <1>2, <1>11
  <2>. QED
    BY <1>1, <2>1, SameReader
<1>12. Readers'
  BY <1>10, <1>11 DEF Readers
<1>13. proc' \in [Procs -> States]
  <2>1. [pc |-> "adopt", plan |-> m, head |-> m.head] \in States
    BY <1>6, <1>7, <1>8 DEF States
  <2>. QED
    BY <1>1, <1>2, <2>1
<1>14. Images' /\ Apart' /\ copies' \subseteq Image
  BY <1>1, Backed
<1>15. Types'
  BY <1>1, <1>13, <1>14 DEF IInv, Types
<1>. QED
  BY <1>1, <1>12, <1>14, <1>15 DEF IInv

\* A command that gives up.
LEMMA AbortStep ==
    ASSUME IInv, NEW p \in Procs, Abort(p)
    PROVE  IInv' /\ head' = head
<1>1. /\ UNCHANGED <<rows, head, manifests, used, key, exports, copies>>
      /\ proc' = [proc EXCEPT ![p] = Idle] /\ proc \in [Procs -> States]
  BY DEF Abort, db, IInv, Types
<1>2. ASSUME NEW q \in Procs PROVE Repairing(q)' /\ Adopting(q)'
  <2>1. q # p => proc'[q] = proc[q]
    BY <1>1
  <2>. QED
    BY <1>1, <2>1, SameReader, EndedReader
<1>3. Types'
  BY <1>1, EndedReader DEF IInv, Types
<1>. QED
  BY <1>1, <1>2, <1>3, Kept DEF IInv, Readers

-----------------------------------------------------------------------------
(* Re-sign links the whole chain anew.                                     *)

\* A row with its new signature.
Anew(r, ids) == IF r.id \in ids THEN [r EXCEPT !.sig = Sign] ELSE r

\* The rows after the signatures of the listed ones were replaced.
LEMMA Resigning ==
    ASSUME IInv, NEW ids, \A r \in Invalid(rows) : r.id \in ids
    PROVE  /\ Keyed(Resigned(ids)) /\ Invalid(Resigned(ids)) = {}
           /\ \A t \in Resigned(ids) : \E r \in rows : t = Anew(r, ids)
           /\ \A r \in rows : /\ Anew(r, ids) \in Resigned(ids)
                              /\ Anew(r, ids).id = r.id /\ Anew(r, ids).prev = r.prev
                              /\ r.id \in ids => Anew(r, ids).sig = Sign
                              /\ r.id \notin ids => Anew(r, ids) = r
<1> DEFINE R == Resigned(ids)
<1>1. /\ Keyed(rows) /\ rows \in SUBSET Row /\ IsFiniteSet(rows) /\ key \in Keys
  BY DEF IInv, Images, Types, Linked, Keyed
<1>2. R = {Anew(r, ids) : r \in rows}
  BY DEF Resigned, Anew
<1>3. Sign \in Sig /\ Sign.key # Broken
  BY <1>1, ChainAssumption DEF Sign, Sig
<1>4. ASSUME NEW r \in rows
      PROVE  /\ Anew(r, ids) \in Row /\ Anew(r, ids).id = r.id /\ Anew(r, ids).prev = r.prev
             /\ r.id \in ids => Anew(r, ids).sig = Sign
             /\ r.id \notin ids => Anew(r, ids) = r
  <2>1. r \in Row
    BY <1>1
  <2>. QED
    BY <1>3, <2>1 DEF Anew, Row
<1>5. IsFiniteSet(R)
  <2>1. [r \in rows |-> Anew(r, ids)] \in Surjection(rows, R)
    BY <1>2 DEF Surjection
  <2>. QED
    BY <1>1, <2>1, FS_Surjection
<1>6. Keyed(R)
  <2>1. R \in SUBSET Row
    BY <1>2, <1>4
  <2>2. ASSUME NEW t \in R, NEW q \in R, t.id = q.id PROVE t = q
    <3>1. PICK a \in rows : t = Anew(a, ids)
      BY <1>2
    <3>2. PICK b \in rows : q = Anew(b, ids)
      BY <1>2
    <3>3. a = b
      BY <1>1, <1>4, <2>2, <3>1, <3>2 DEF Keyed
    <3>. QED
      BY <3>1, <3>2, <3>3
  <2>. QED
    BY <1>5, <2>1, <2>2 DEF Keyed
<1>7. Invalid(R) = {}
  <2> SUFFICES ASSUME NEW r \in rows, Anew(r, ids).sig.key = Broken PROVE FALSE
    BY <1>2 DEF Invalid
  <2>1. r.id \notin ids
    BY <1>3, <1>4
  <2>2. r \in Invalid(rows)
    BY <1>4, <2>1 DEF Invalid
  <2>. QED
    BY <2>1, <2>2
<1>. QED
  BY <1>2, <1>4, <1>6, <1>7

\* How far down its chain each row of a walk is.
LEMMA Depths ==
    ASSUME NEW R \in SUBSET Row, NEW u \in Seq(Link), NEW f \in 0..Len(u), NEW w,
           Follows(w, R, u, f), NEW i \in 1..Len(w)
    PROVE  w[i] \in R /\ Len(w[i].prev) = (f + i) - 1
<1>1. w \in Seq(R) /\ Len(w) = Len(u) - f /\ Hash(w[i]) = SubSeq(u, 1, f + i)
  BY DEF Follows
<1>2. w[i] \in R /\ w[i] \in Row /\ f + i \in 1..Len(u)
  BY <1>1
<1>3. \A k \in 1..Len(u) : Hash(w[i]) = SubSeq(u, 1, k) => Len(w[i].prev) = k - 1
  BY <1>2, HashPlace
<1>. QED
  BY <1>1, <1>2, <1>3

\* The positions of a chain, and a walk that lists them.
Filled(R, L) ==
    /\ \A t \in R : \E i \in 1..Len(L) : t.id = L[i].id /\ Len(t.prev) = i - 1
    /\ \A i \in 1..Len(L) : \E t \in R : t.id = L[i].id /\ Len(t.prev) = i - 1
Numbers(s, R, L) ==
    s \in Seq(R) /\ Len(s) = Len(L) /\ \A i \in 1..Len(s) : s[i].id = L[i].id

\* A walk that is the whole of the rows goes along the positions.
LEMMA WholeWalk ==
    ASSUME NEW R \in SUBSET Row, IsFiniteSet(R), NEW L \in Seq(Link), L # <<>>,
           Filled(R, L), R = Range(Forward(R))
    PROVE  Numbers(Forward(R), R, L)
<1> DEFINE w == Forward(R)
<1>1. PICK u \in Seq(Link) : \E f \in 0..Len(u) : Follows(w, R, u, f)
  BY ForwardWalk
<1>. PICK f \in 0..Len(u) : Follows(w, R, u, f)
  BY <1>1
<1>2. w \in Seq(R) /\ Len(w) \in Nat /\ \A i \in 1..Len(w) : w[i] \in R /\ Len(w[i].prev) = (f + i) - 1
  <2>1. w \in Seq(R) /\ Len(w) \in Nat
    BY DEF Follows
  <2>2. \A i \in 1..Len(w) : w[i] \in R /\ Len(w[i].prev) = (f + i) - 1
    BY Depths
  <2>. QED
    BY <2>1, <2>2
<1>3. \A t \in R : \E i \in 1..Len(w) : w[i] = t
  BY <1>2 DEF Range
<1> HIDE DEF w
<1>4. Len(L) \in Nat /\ Len(L) >= 1
  BY EmptySeq
<1>5. f = 0
  <2>1. 1 \in 1..Len(L)
    BY <1>4
  <2>2. PICK t \in R : Len(t.prev) = 1 - 1
    BY <2>1 DEF Filled
  <2>3. PICK i \in 1..Len(w) : w[i] = t
    BY <1>3
  <2>. QED
    BY <1>2, <2>2, <2>3
<1>6. ASSUME NEW i \in 1..Len(w) PROVE i \in 1..Len(L) /\ w[i].id = L[i].id
  <2>1. w[i] \in R /\ Len(w[i].prev) = i - 1
    BY <1>2, <1>5
  <2>2. PICK j \in 1..Len(L) : w[i].id = L[j].id /\ Len(w[i].prev) = j - 1
    BY <2>1 DEF Filled
  <2>3. j = i
    BY <2>1, <2>2
  <2>. QED
    BY <2>2, <2>3
<1>7. Len(w) = Len(L)
  <2>1. Len(L) \in 1..Len(L)
    BY <1>4
  <2>2. PICK t \in R : Len(t.prev) = Len(L) - 1
    BY <2>1 DEF Filled
  <2>3. PICK i \in 1..Len(w) : w[i] = t
    BY <1>3
  <2>4. i = Len(L)
    BY <1>2, <1>4, <1>5, <2>2, <2>3
  <2>5. Len(L) <= Len(w)
    BY <1>2, <1>4, <2>3, <2>4
  <2>6. Len(w) # 0 => Len(w) \in 1..Len(w)
    BY <1>2
  <2>7. Len(w) # 0 => Len(w) <= Len(L)
    BY <1>4, <1>6, <2>6
  <2>. QED
    BY <1>2, <1>4, <2>5, <2>7
<1>. QED
  BY <1>2, <1>6, <1>7 DEF Numbers, w

\* A walk over rows without predecessors stops at the first.
LEMMA ShortWalk ==
    ASSUME NEW R \in SUBSET Row, IsFiniteSet(R), \A r \in R : r.prev = NoHash
    PROVE  Forward(R) \in Seq(R) /\ Len(Forward(R)) \in {0, 1}
<1> DEFINE w == Forward(R)
<1>1. PICK u \in Seq(Link) : \E f \in 0..Len(u) : Follows(w, R, u, f)
  BY ForwardWalk
<1>. PICK f \in 0..Len(u) : Follows(w, R, u, f)
  BY <1>1
<1>2. w \in Seq(R) /\ Len(w) \in Nat /\ \A i \in 1..Len(w) : w[i] \in R /\ Len(w[i].prev) = (f + i) - 1
  <2>1. w \in Seq(R) /\ Len(w) \in Nat
    BY DEF Follows
  <2>2. \A i \in 1..Len(w) : w[i] \in R /\ Len(w[i].prev) = (f + i) - 1
    BY Depths
  <2>. QED
    BY <2>1, <2>2
<1> HIDE DEF w
<1>3. \A i \in 1..Len(w) : i = 1
  BY <1>2, EmptySeq DEF NoHash
<1>4. Len(w) \in {0, 1}
  <2> SUFFICES ASSUME Len(w) # 0 PROVE Len(w) = 1
    OBVIOUS
  <2>1. Len(w) \in 1..Len(w)
    BY <1>2
  <2>. QED
    BY <1>3, <2>1
<1>. QED
  BY <1>2, <1>4 DEF w

\* The rows of a walk, with the signatures of afterwards.
Captured(w, R) == [i \in DOMAIN w |-> CHOOSE r \in R : r.id = w[i].id]

LEMMA CapturedRows ==
    ASSUME NEW Q, NEW w \in Seq(Q), NEW R, \A q \in Q : \E r \in R : r.id = q.id
    PROVE  /\ Captured(w, R) \in Seq(R) /\ Len(Captured(w, R)) = Len(w)
           /\ \A i \in 1..Len(w) : Captured(w, R)[i].id = w[i].id
<1> DEFINE at(i) == CHOOSE r \in R : r.id = w[i].id
           s == [i \in 1..Len(w) |-> at(i)]
<1>1. ASSUME NEW i \in 1..Len(w) PROVE at(i) \in R /\ at(i).id = w[i].id
  <2>1. w[i] \in Q
    OBVIOUS
  <2>2. \E r \in R : r.id = w[i].id
    BY <2>1
  <2>. QED
    BY <2>2
<1>2. Captured(w, R) = s
  BY DEF Captured
<1> HIDE DEF at
<1>3. s \in Seq(R) /\ Len(s) = Len(w) /\ \A i \in 1..Len(w) : s[i] = at(i)
  BY <1>1
<1> HIDE DEF s
<1>. QED
  BY <1>1, <1>2, <1>3

\* The rows in the order of the chain of the head h; the one row there is,
\* if there is no head.
Ordering(s, R, h) ==
    /\ s \in Seq(R) /\ Len(s) \in Nat /\ Len(s) >= 1
    /\ \A t \in R : \E i \in 1..Len(s) : s[i] = t
    /\ \A i, j \in 1..Len(s) : s[i].id = s[j].id => i = j
    /\ h # NoHead => Numbers(s, R, h.latest)
    /\ h = NoHead => Len(s) = 1

\* The order apply_re_sign links along is the chain, and all of the rows.
LEMMA Rebuilt ==
    ASSUME IInv, Clear(rows), NEW ids,
           \A r \in Invalid(rows) : r.id \in ids,
           Invalid(rows) # {} => \A i \in ids : \E r \in Invalid(rows) : r.id = i,
           NEW R, R = Resigned(ids), NEW s, s = RebuildOrder(R), s # <<>>
    PROVE  Ordering(s, R, head)
<1> DEFINE pre == Forward(rows)
           post == Forward(R)
           whole == Forks(R) = {} /\ R = Range(post) /\ post # <<>>
           new(r) == Anew(r, ids)
<1>1. /\ Linked(rows, head) /\ Repairable(rows, head) /\ Keyed(rows)
      /\ rows \in SUBSET Row /\ IsFiniteSet(rows)
  BY DEF IInv, Images, Linked, Keyed
<1>2. /\ Keyed(R) /\ Invalid(R) = {}
      /\ \A t \in R : \E r \in rows : t = new(r)
      /\ \A r \in rows : /\ new(r) \in R /\ new(r).id = r.id /\ new(r).prev = r.prev
                         /\ r.id \in ids => new(r).sig = Sign
                         /\ r.id \notin ids => new(r) = r
  BY Resigning
<1>3. R \in SUBSET Row /\ IsFiniteSet(R)
  BY <1>2 DEF Keyed
<1>4. s = IF whole THEN post ELSE Captured(pre, R)
  BY DEF RebuildOrder, Captured
<1> HIDE DEF new
<1>5. ASSUME NEW w \in Seq(rows)
      PROVE  /\ Captured(w, R) \in Seq(R) /\ Len(Captured(w, R)) = Len(w)
             /\ \A i \in 1..Len(w) : Captured(w, R)[i].id = w[i].id
  <2>1. \A q \in rows : \E r \in R : r.id = q.id
    BY <1>2
  <2>. QED
    BY <2>1, CapturedRows
<1>6. CASE head = NoHead
  <2>1. \A r \in rows : r.prev = NoHash
    BY <1>1, <1>6 DEF Linked
  <2>2. \A r, q \in rows : r = q
    <3>1. Genesis(rows) = rows
      BY <2>1 DEF Genesis
    <3>. QED
      BY <1>1, <3>1, ClearOne
  <2>3. \A t \in R : t.prev = NoHash
    BY <1>2, <2>1
  <2>4. \A t, q \in R : t = q
    BY <1>2, <2>2
  <2>5. s \in Seq(R) /\ Len(s) \in {0, 1}
    <3>1. CASE whole
      BY <1>3, <1>4, <2>3, <3>1, ShortWalk
    <3>2. CASE ~whole
      <4>1. pre \in Seq(rows) /\ Len(pre) \in {0, 1}
        BY <1>1, <2>1, ShortWalk
      <4>. QED
        BY <1>4, <1>5, <3>2, <4>1
    <3>. QED
      BY <3>1, <3>2
  <2>6. Len(s) = 1
    BY <2>5, EmptySeq
  <2>7. s[1] \in R
    BY <2>5, <2>6
  <2>8. \A t \in R : \E i \in 1..Len(s) : s[i] = t
    BY <2>4, <2>6, <2>7
  <2>. QED
    BY <1>6, <2>5, <2>6, <2>8 DEF Ordering
<1>7. CASE head # NoHead
  <2> DEFINE L == head.latest
  <2>1. Heads(head) /\ Chained(rows, L)
    BY <1>1, <1>7 DEF Linked
  <2>2. /\ L \in Seq(Link) /\ L # <<>> /\ Len(L) \in Nat /\ 1 \in 1..Len(L)
        /\ DOMAIN L = 1..Len(L)
    BY <2>1, HeadsAre DEF Heads
  <2>3. Left(rows, head) = {}
    BY <1>1, <1>7, ClearOne
  <2>4. \A r \in rows : \E i \in 1..Len(L) : r.id = L[i].id
    BY <1>1, <2>1, <2>3, OffChain
  <2>5. ASSUME NEW r \in rows, NEW i \in 1..Len(L), r.id = L[i].id
        PROVE  /\ Placed(r, L, i) /\ Len(r.prev) = i - 1
               /\ r.sig.key # Broken => r.sig = L[i].sig /\ Hash(r) = SubSeq(L, 1, i)
    BY <1>1, <2>1, <2>2, <2>5, RowAt
  <2>6. \A i \in 1..Len(L) : \E r \in rows : r.id = L[i].id
    BY <2>1, <2>2 DEF Chained, Placed
  <2> HIDE DEF L
  <2>7. Filled(R, L)
    <3>1. ASSUME NEW t \in R PROVE \E i \in 1..Len(L) : t.id = L[i].id /\ Len(t.prev) = i - 1
      <4>1. PICK r \in rows : t = new(r)
        BY <1>2
      <4>2. PICK i \in 1..Len(L) : r.id = L[i].id
        BY <2>4
      <4>. QED
        BY <1>2, <2>5, <4>1, <4>2
    <3>2. ASSUME NEW i \in 1..Len(L) PROVE \E t \in R : t.id = L[i].id /\ Len(t.prev) = i - 1
      <4>1. PICK r \in rows : r.id = L[i].id
        BY <2>6
      <4>2. Len(r.prev) = i - 1
        BY <2>5, <4>1
      <4>. QED
        BY <1>2, <4>1, <4>2
    <3>. QED
      BY <3>1, <3>2 DEF Filled
  <2>8. ASSUME whole PROVE Numbers(s, R, L)
    <3>1. Numbers(post, R, L)
      BY <1>3, <2>2, <2>7, <2>8, WholeWalk
    <3>. QED
      BY <1>4, <2>8, <3>1 DEF Numbers
  <2>9. ASSUME Invalid(rows) # {} PROVE whole
    <3>1. ASSUME NEW r \in rows, NEW i \in 1..Len(L), r.id = L[i].id
          PROVE  new(r).sig = L[i].sig
      <4>1. CASE r.id \in ids
        <5>1. PICK q \in Invalid(rows) : q.id = r.id
          BY <2>9, <4>1
        <5>2. L[i].sig = Sign
          BY <1>1, <1>7, <2>2, <2>3, <2>9, <3>1, <5>1 DEF Repairable, L
        <5>. QED
          BY <1>2, <4>1, <5>2
      <4>2. CASE r.id \notin ids
        <5>1. r.sig.key # Broken
          BY <4>2 DEF Invalid
        <5>. QED
          BY <1>2, <2>5, <3>1, <4>2, <5>1
      <4>. QED
        BY <4>1, <4>2
    <3>2. Chained(R, L)
      <4>1. ASSUME NEW i \in 1..Len(L) PROVE \E t \in R : Placed(t, L, i) /\ Signed(t, L, i)
        <5>1. PICK r \in rows : r.id = L[i].id
          BY <2>6
        <5>2. new(r).sig = L[i].sig /\ Placed(r, L, i)
          BY <2>5, <3>1, <5>1
        <5>3. Placed(new(r), L, i) /\ Signed(new(r), L, i)
          BY <1>2, <5>2 DEF Placed, Signed
        <5>. QED
          BY <1>2, <5>3
      <4>2. \A i, j \in DOMAIN L : L[i].id = L[j].id => i = j
        BY <2>1 DEF Chained, L
      <4>3. \A t \in R : \E i \in DOMAIN L : t.id = L[i].id
        BY <2>2, <2>7 DEF Filled
      <4>. QED
        BY <2>2, <4>1, <4>2, <4>3 DEF Chained
    <3>3. Linked(R, head)
      BY <1>2, <1>7, <2>1, <3>2 DEF Linked, L
    <3>4. Forks(R) = {}
      BY <3>3, NoForks
    <3>5. OnlyChain(R, L)
      <4>1. ASSUME NEW t \in R, NEW i \in 1..Len(L), t.id = L[i].id PROVE Hash(t) = SubSeq(L, 1, i)
        <5>1. t.sig.key # Broken
          BY <1>2 DEF Invalid
        <5>. QED
          BY <1>2, <2>2, <3>2, <4>1, <5>1, RowAt
      <4>. QED
        BY <2>7, <4>1 DEF Filled, OnlyChain
    <3>6. Lists(post, R, L)
      BY <1>3, <2>2, <3>5, ForwardLists
    <3>7. Left(R, head) = {}
      <4>1. \A t \in R : t \notin Left(R, head)
        BY <1>2, <2>1, <2>7, <3>2, OffChain DEF Filled, L
      <4>. QED
        BY <4>1 DEF Left, Genesis
    <3>8. post # <<>> /\ \A t \in R : t \in Range(post)
      BY <1>7, <3>3, <3>6, <3>7, Covered DEF L
    <3>9. R = Range(post)
      BY <3>6, <3>8 DEF Lists, Range
    <3>. QED
      BY <3>4, <3>8, <3>9
  <2>10. ASSUME ~whole PROVE Numbers(s, R, L)
    <3>1. Invalid(rows) = {}
      BY <2>9, <2>10
    <3>2. ASSUME NEW r \in rows, NEW i \in 1..Len(L), r.id = L[i].id PROVE Hash(r) = SubSeq(L, 1, i)
      <4>1. r.sig.key # Broken
        BY <3>1 DEF Invalid
      <4>. QED
        BY <2>5, <3>2, <4>1
    <3>3. OnlyChain(rows, L)
      BY <2>4, <2>6, <3>2 DEF OnlyChain
    <3>4. Lists(pre, rows, L)
      BY <1>1, <2>2, <3>3, ForwardLists
    <3>5. pre \in Seq(rows) /\ Len(pre) = Len(L) /\ \A i \in 1..Len(pre) : pre[i].id = L[i].id
      <4>1. pre \in Seq(rows) /\ Len(pre) = Len(L) /\ \A i \in 1..Len(L) : Hash(pre[i]) = SubSeq(L, 1, i)
        BY <3>4 DEF Lists
      <4> HIDE DEF pre
      <4>2. ASSUME NEW i \in 1..Len(L) PROVE pre[i].id = L[i].id
        <5>1. pre[i] \in Row /\ Hash(pre[i]) = SubSeq(L, 1, i)
          BY <1>1, <4>1
        <5>. QED
          BY <2>2, <5>1, HashAt
      <4>. QED
        BY <4>1, <4>2
    <3> HIDE DEF pre
    <3>6. s = Captured(pre, R)
      BY <1>4, <2>10
    <3>. QED
      BY <1>5, <3>5, <3>6 DEF Numbers
  <2>11. Numbers(s, R, L)
    BY <2>8, <2>10
  <2>12. s \in Seq(R) /\ Len(s) = Len(L) /\ \A i \in 1..Len(s) : s[i] \in R /\ s[i].id = L[i].id
    BY <2>11 DEF Numbers
  <2>13. ASSUME NEW t \in R PROVE \E i \in 1..Len(s) : s[i] = t
    <3>1. PICK i \in 1..Len(L) : t.id = L[i].id
      BY <2>7 DEF Filled
    <3>2. s[i] \in R /\ s[i].id = t.id
      BY <2>12, <3>1
    <3>. QED
      BY <1>2, <2>12, <3>1, <3>2 DEF Keyed
  <2>14. \A i, j \in 1..Len(s) : s[i].id = s[j].id => i = j
    BY <2>1, <2>2, <2>12 DEF Chained, L
  <2>15. Len(s) \in Nat /\ Len(s) >= 1
    BY <2>2, <2>12
  <2>. QED
    BY <1>7, <2>11, <2>12, <2>13, <2>14, <2>15 DEF L, Ordering
<1>. QED
  BY <1>6, <1>7

\* The head of the rows linked along an order.
HeadOf(s) == [latest |-> Bodies(s), length |-> Len(s), genesis |-> s[1].id]

\* Rows linked along an order are a chain and nothing else.
LEMMA Relinked ==
    ASSUME NEW R \in SUBSET Row, NEW s \in Seq(R), Len(s) >= 1,
           \A i, j \in 1..Len(s) : s[i].id = s[j].id => i = j
    PROVE  /\ Bodies(s) \in Seq(Link) /\ Len(Bodies(s)) = Len(s) /\ Bodies(s) # <<>>
           /\ \A i \in 1..Len(s) : Bodies(s)[i].id = s[i].id
           /\ HeadOf(s) # NoHead /\ Linked(Relink(s), HeadOf(s))
           /\ \A t \in Relink(s) : \E i \in 1..Len(s) : t.id = s[i].id /\ t.sig = s[i].sig
<1> DEFINE b == Bodies(s)
           n == Len(s)
           at(i) == [s[i] EXCEPT !.prev = SubSeq(b, 1, i - 1)]
           Q == Relink(s)
<1>1. n \in Nat /\ DOMAIN s = 1..n /\ \A i \in 1..n : s[i] \in Row
  OBVIOUS
<1>2. \A i \in 1..n : Body(s[i]) \in Link /\ Body(s[i]).id = s[i].id /\ Body(s[i]).sig = s[i].sig
  BY <1>1, HashOf DEF Body
<1>3. /\ b \in Seq(Link) /\ Len(b) = n /\ b # <<>> /\ DOMAIN b = 1..n
      /\ \A i \in 1..n : b[i] = Body(s[i])
  <2>1. b = [i \in 1..n |-> Body(s[i])]
    BY <1>1 DEF Bodies
  <2>2. b \in Seq(Link) /\ Len(b) = n /\ DOMAIN b = 1..n
    BY <1>1, <1>2, <2>1
  <2>. QED
    BY <1>1, <2>1, <2>2
<1> HIDE DEF b
<1>4. ASSUME NEW i \in 1..n
      PROVE  /\ at(i) \in Row /\ at(i).id = s[i].id /\ at(i).sig = s[i].sig
             /\ at(i).prev = SubSeq(b, 1, i - 1)
  <2>1. SubSeq(b, 1, i - 1) \in Seq(Link)
    <3>1. i - 1 \in 0..Len(b)
      BY <1>1, <1>3
    <3>. QED
      BY <1>3, <3>1, Initial
  <2>2. s[i] \in Row
    BY <1>1
  <2>. QED
    BY <2>1, <2>2 DEF Row
<1>5. Q = {at(i) : i \in 1..n}
  BY <1>1 DEF Relink, b
<1> HIDE DEF at, Q
<1>6. Keyed(Q)
  <2>1. Q \in SUBSET Row
    BY <1>4, <1>5
  <2>2. IsFiniteSet(Q)
    <3>1. [i \in 1..n |-> at(i)] \in Surjection(1..n, Q)
      BY <1>5 DEF Surjection
    <3>2. IsFiniteSet(1..n)
      BY <1>1, FS_Interval
    <3>. QED
      BY <3>1, <3>2, FS_Surjection
  <2>3. \A t, q \in Q : t.id = q.id => t = q
    <3> SUFFICES ASSUME NEW i \in 1..n, NEW j \in 1..n, at(i).id = at(j).id PROVE at(i) = at(j)
      BY <1>5
    <3>1. i = j
      BY <1>4
    <3>. QED
      BY <3>1
  <2>. QED
    BY <2>1, <2>2, <2>3 DEF Keyed
<1>7. Chained(Q, b)
  <2>1. \A i, j \in 1..n : b[i].id = b[j].id => i = j
    BY <1>2, <1>3
  <2>2. ASSUME NEW i \in 1..n PROVE \E t \in Q : Placed(t, b, i) /\ Signed(t, b, i)
    <3>1. at(i) \in Q
      BY <1>5
    <3>2. b[i].id = s[i].id /\ b[i].sig = s[i].sig
      BY <1>2, <1>3
    <3>3. Placed(at(i), b, i) /\ Signed(at(i), b, i)
      BY <1>4, <3>2 DEF Placed, Signed
    <3>. QED
      BY <3>1, <3>3
  <2>3. \A t \in Q : \E i \in 1..n : t.id = b[i].id
    <3>1. \A i \in 1..n : at(i).id = b[i].id
      BY <1>2, <1>3, <1>4
    <3>. QED
      BY <1>5, <3>1
  <2>. QED
    BY <1>3, <2>1, <2>2, <2>3 DEF Chained
<1>8. Heads(HeadOf(s))
  <2>1. 1 \in 1..n /\ s[1].id = b[1].id /\ s[1].id \in Nat
    <3>1. 1 \in 1..n
      BY <1>1
    <3>2. s[1] \in Row
      BY <1>1, <3>1
    <3>. QED
      BY <1>2, <1>3, <3>1, <3>2 DEF Row
  <2>2. HeadOf(s) = [latest |-> b, length |-> n, genesis |-> s[1].id]
    BY DEF HeadOf, b
  <2>. QED
    BY <1>1, <1>3, <2>1, <2>2 DEF Heads, Tip
<1>9. HeadOf(s) # NoHead /\ HeadOf(s).latest = b
  BY <1>8, HeadsExist DEF HeadOf, b
<1>10. Linked(Q, HeadOf(s))
  BY <1>6, <1>7, <1>8, <1>9 DEF Linked
<1>11. \A t \in Q : \E i \in 1..n : t.id = s[i].id /\ t.sig = s[i].sig
  BY <1>4, <1>5
<1>12. \A i \in 1..n : b[i].id = s[i].id
  BY <1>2, <1>3
<1>. QED
  BY <1>3, <1>9, <1>10, <1>11, <1>12 DEF b, Q

\* apply_re_sign.
LEMMA ReSignApplyStep ==
    ASSUME IInv, NEW p \in Procs, ReSignApply(p)
    PROVE  /\ IInv' /\ head' # NoHead /\ Invalid(rows') = {}
           /\ head # NoHead => head'.length > head.length
<1>. PICK ids : ids = proc[p].ids
  OBVIOUS
<1>. PICK R : R = Resigned(ids)
  OBVIOUS
<1>. PICK s : s = RebuildOrder(R)
  OBVIOUS
<1>. PICK M : M = [id |-> Fresh, sig |-> Sign, prev |-> Bodies(s)]
  OBVIOUS
<1>1. /\ proc[p].pc = "resignApply" /\ Clear(rows) /\ s # <<>>
      /\ rows' = (R \ Range(s)) \cup Relink(s) \cup {M}
      /\ head' = [latest |-> Hash(M), length |-> Len(s) + 1, genesis |-> s[1].id]
      /\ used' = Fresh
      /\ proc' = [proc EXCEPT ![p] = Idle]
      /\ UNCHANGED <<manifests, key, exports, copies>>
  BY DEF ReSignApply
<1>2. /\ \A r \in Invalid(rows) : r.id \in ids
      /\ Invalid(rows) # {} => \A i \in ids : \E r \in Invalid(rows) : r.id = i
  BY <1>1 DEF IInv, Readers, Repairing
<1>3. /\ s \in Seq(R) /\ Len(s) \in Nat /\ Len(s) >= 1
      /\ \A t \in R : \E i \in 1..Len(s) : s[i] = t
      /\ \A i, j \in 1..Len(s) : s[i].id = s[j].id => i = j
      /\ head # NoHead => Numbers(s, R, head.latest)
      /\ head = NoHead => Len(s) = 1
  <2>1. Ordering(s, R, head)
    BY <1>1, <1>2, Rebuilt
  <2>. QED
    BY <2>1 DEF Ordering
<1>4. /\ Keyed(R) /\ Invalid(R) = {}
      /\ \A t \in R : \E r \in rows : t.id = r.id
  <2>1. \A r \in rows : Anew(r, ids).id = r.id
    BY <1>2, Resigning
  <2>. QED
    BY <1>2, <2>1, Resigning
<1>5. R \in SUBSET Row
  BY <1>4 DEF Keyed
<1> DEFINE b == Bodies(s)
           Q == Relink(s)
           n == Len(s)
<1>6. /\ b \in Seq(Link) /\ Len(b) = n /\ b # <<>>
      /\ \A i \in 1..n : b[i].id = s[i].id
      /\ HeadOf(s) # NoHead /\ Linked(Q, HeadOf(s))
      /\ \A t \in Q : \E i \in 1..n : t.id = s[i].id /\ t.sig = s[i].sig
  BY <1>3, <1>5, Relinked
<1>7. \A i \in 1..n : s[i] \in R
  BY <1>3
<1>8. rows' = Q \cup {M}
  BY <1>1, <1>3 DEF Range
<1> HIDE DEF b, Q
<1>9. /\ used \in Nat /\ key \in Keys /\ Known(rows) /\ Linked(rows, head)
      /\ rows \in SUBSET Row
  BY DEF IInv, Images, Types, Linked, Keyed
<1>10. /\ M \in Row /\ M.id = Fresh /\ M.sig = Sign /\ M.prev = b /\ Fresh = used + 1
       /\ M.sig.key # Broken
  <2>1. Sign \in Sig /\ Sign.key # Broken
    BY <1>9, ChainAssumption DEF Sign, Sig
  <2>. QED
    BY <1>6, <1>9, <2>1 DEF Row, Fresh, b
<1>11. \A t \in Q : t.id \in Nat /\ t.id <= used /\ t.sig.key # Broken
  <2> SUFFICES ASSUME NEW t \in Q PROVE t.id \in Nat /\ t.id <= used /\ t.sig.key # Broken
    OBVIOUS
  <2>1. PICK i \in 1..n : t.id = s[i].id /\ t.sig = s[i].sig
    BY <1>6
  <2>2. PICK r \in rows : s[i].id = r.id
    BY <1>4, <1>7
  <2>3. s[i].sig.key # Broken
    BY <1>4, <1>7 DEF Invalid
  <2>4. r.id \in Nat /\ r.id <= used
    BY <1>9 DEF Known, Row
  <2>. QED
    BY <2>1, <2>2, <2>3, <2>4
<1>12. HeadAfter(HeadOf(s), M) = head'
  BY <1>1, <1>6 DEF HeadAfter, HeadOf
<1>13. \A t \in Q : t.id # M.id
  BY <1>9, <1>10, <1>11
<1>14. M.prev = IF HeadOf(s) = NoHead THEN NoHash ELSE HeadOf(s).latest
  BY <1>6, <1>10 DEF HeadOf, b
<1>15. /\ head' # NoHead /\ Heads(head') /\ Linked(rows', head')
       /\ Longer(head'.latest, b) /\ head'.latest[n + 1] = Body(M)
  <2>. PICK h : h = HeadOf(s)
    OBVIOUS
  <2>1. Linked(Q, h) /\ M \in Row /\ M.prev = (IF h = NoHead THEN NoHash ELSE h.latest)
    BY <1>6, <1>10, <1>14
  <2>2. /\ HeadAfter(h, M) # NoHead /\ Heads(HeadAfter(h, M))
        /\ Linked(Q \cup {M}, HeadAfter(h, M))
        /\ Longer(HeadAfter(h, M).latest, M.prev)
        /\ HeadAfter(h, M).latest[Len(M.prev) + 1] = Body(M)
    BY <1>13, <2>1, Appended
  <2>3. head' = HeadAfter(h, M)
    BY <1>12
  <2>. QED
    BY <1>6, <1>8, <1>10, <2>2, <2>3
<1>16. Invalid(rows') = {}
  BY <1>8, <1>10, <1>11 DEF Invalid
<1>17. manifests = <<>>
  <2> SUFFICES ASSUME manifests # <<>> PROVE FALSE
    OBVIOUS
  <2>1. head # NoHead /\ Left(rows, head) # {}
    BY DEF IInv, Images, Attested
  <2>. QED
    BY <1>1, <1>9, <2>1, ClearOne
<1>18. Images'
  <2>1. Attested(rows', head', manifests')
    BY <1>1, <1>17 DEF Attested
  <2>2. Known(rows)'
    BY <1>1, <1>8, <1>9, <1>10, <1>11 DEF Known
  <2>3. Repairable(rows, head)'
    BY <1>16 DEF Repairable
  <2>4. ASSUME NEW c \in copies' PROVE Whole(c)'
    <3>1. Whole(c)
      BY <1>1 DEF IInv, Images
    <3>2. \A r \in c.rows : r.id \in Nat
      BY <3>1 DEF Whole, Linked, Keyed, Row
    <3>. QED
      BY <1>1, <1>9, <1>10, <3>1, <3>2 DEF Whole, Known
  <2>. QED
    BY <1>15, <2>1, <2>2, <2>3, <2>4 DEF Images
<1>19. Len(Latest') = n + 1 /\ (head # NoHead => Len(Latest) = n)
  <2>1. Len(Latest') = n + 1
    BY <1>6, <1>15 DEF Latest, Longer
  <2>2. head # NoHead => Len(Latest) = n
    BY <1>3 DEF Latest, Numbers
  <2>. QED
    BY <2>1, <2>2
<1>20. ASSUME NEW q \in Procs PROVE Repairing(q)' /\ Adopting(q)'
  <2>1. CASE q = p
    BY <1>1, <2>1, EndedReader
  <2>2. CASE q # p
    <3>1. proc'[q] = proc[q]
      BY <1>1, <2>2 DEF IInv, Types
    <3>2. Repairing(q)'
      BY <1>16, <3>1 DEF Repairing, Invalid
    <3>3. Adopting(q)'
      <4>1. CASE proc[q].pc # "adopt"
        BY <3>1, <4>1 DEF Adopting
      <4>2. CASE proc[q].pc = "adopt"
        <5> DEFINE h == proc[q].plan.head
        <5>1. /\ proc[q].head = h /\ h # NoHash
              /\ Latest = h \/ Len(Latest) > Len(h)
          BY <4>2 DEF IInv, Readers, Adopting
        <5>2. h \in Seq(Link) /\ Len(h) \in Nat
          <6>1. h \in Seq(Link)
            BY <4>2, Readings
          <6>. QED
            BY <6>1
        <5>3. head # NoHead
          <6> SUFFICES ASSUME head = NoHead PROVE FALSE
            OBVIOUS
          <6>1. Latest = NoHash /\ Len(Latest) = 0
            BY DEF Latest, NoHash
          <6>. QED
            BY <5>1, <5>2, <6>1
        <5>4. Len(Latest') > Len(h)
          BY <1>3, <1>19, <5>1, <5>2, <5>3
        <5>5. Latest' # h
          BY <5>2, <5>4
        <5>. QED
          BY <3>1, <5>1, <5>4, <5>5 DEF Adopting
      <4>. QED
        BY <4>1, <4>2
    <3>. QED
      BY <3>2, <3>3
  <2>. QED
    BY <2>1, <2>2
<1>21. Apart'
  <2>1. \A q \in Loose' : q \in Loose /\ q.id <= used
    <3>1. \A q \in Loose' : q \in Loose
      BY <1>1, <1>15 DEF Loose
    <3>. QED
      BY <3>1, LooseKnown
  <2>2. \A L \in Chains' : L \in Chains \/ L = head'.latest
    BY <1>1 DEF Chains
  <2>3. ASSUME NEW q \in Loose', NEW i \in 2..Len(head'.latest) PROVE head'.latest[i].id # q.id
    <3>1. Len(head'.latest) = n + 1
      BY <1>6, <1>15 DEF Longer
    <3>2. CASE i = n + 1
      <4>1. head'.latest[i].id = used + 1
        BY <1>10, <1>15, <3>2 DEF Body
      <4>. QED
        BY <1>9, <2>1, <4>1
    <3>3. CASE i # n + 1
      <4>1. i \in 1..n /\ i \in 2..n /\ n # 1
        <5>1. i \in 2..(n + 1)
          BY <3>1
        <5>2. n \in Nat
          BY <1>3
        <5>. HIDE DEF n
        <5>. QED
          BY <3>3, <5>1, <5>2
      <4>2. head # NoHead /\ Numbers(s, R, head.latest)
        BY <1>3, <4>1
      <4>3. head'.latest[i].id = head.latest[i].id
        BY <1>6, <1>15, <4>1, <4>2 DEF Longer, Numbers
      <4>4. head.latest \in Chains /\ i \in 2..Len(head.latest)
        BY <4>1, <4>2 DEF Chains, Numbers
      <4>. QED
        BY <2>1, <4>3, <4>4 DEF IInv, Apart
    <3>. QED
      BY <3>2, <3>3
  <2>4. ASSUME NEW q \in Loose', NEW L \in Chains', NEW i \in 2..Len(L) PROVE L[i].id # q.id
    <3>1. CASE L \in Chains
      BY <2>1, <3>1 DEF IInv, Apart
    <3>2. CASE L = head'.latest
      BY <2>3, <3>2
    <3>. QED
      BY <2>2, <3>1, <3>2
  <2>. QED
    BY <2>4 DEF Apart
<1>22. Types'
  <2>1. used' \in Nat
    BY <1>1, <1>9, <1>10
  <2>2. proc' \in [Procs -> States]
    BY <1>1, EndedReader
  <2>. QED
    BY <1>1, <2>1, <2>2 DEF IInv, Types
<1>23. head # NoHead => head'.length > head.length
  <2> SUFFICES ASSUME head # NoHead PROVE head'.length > head.length
    OBVIOUS
  <2>1. head.length = n
    BY <1>3, Tips DEF Heads, Numbers
  <2>. QED
    BY <1>1, <1>3, <2>1
<1>. QED
  BY <1>15, <1>16, <1>18, <1>20, <1>21, <1>22, <1>23 DEF IInv, Readers

-----------------------------------------------------------------------------
(* The theorems.                                                           *)

\* A ledger from an earlier release is in order.
LEMMA InitOrder == Init => IInv /\ Marks
<1> SUFFICES ASSUME Init PROVE IInv /\ Marks
  OBVIOUS
<1>1. PICK k \in Keys, l \in 0..Legacy, n \in 0..Old :
        LET body(i) == [id |-> i, sig |-> [key |-> k, ver |-> 1]]
            chain == [i \in 1..n |-> body(l + i)]
        IN  /\ rows = {[id |-> i, sig |-> body(i).sig, prev |-> NoHash] : i \in 1..l}
                      \cup {[id |-> l + i, sig |-> body(i).sig, prev |-> SubSeq(chain, 1, i - 1)] : i \in 1..n}
            /\ head = IF n = 0 THEN NoHead
                      ELSE [latest |-> chain, length |-> n, genesis |-> l + 1]
            /\ used = l + n /\ key = k
  BY DEF Init
<1>2. /\ manifests = <<>> /\ exports = {} /\ copies = {} /\ proc = [p \in Procs |-> Idle]
      /\ damage = 0
  BY DEF Init
<1> DEFINE g == [key |-> k, ver |-> 1]
           chain == [i \in 1..n |-> [id |-> l + i, sig |-> g]]
           old(i) == [id |-> i, sig |-> g, prev |-> NoHash]
           new(i) == [id |-> l + i, sig |-> g, prev |-> SubSeq(chain, 1, i - 1)]
           A == {old(i) : i \in 1..l}
           B == {new(i) : i \in 1..n}
<1>3. /\ rows = A \cup B
      /\ head = IF n = 0 THEN NoHead ELSE [latest |-> chain, length |-> n, genesis |-> l + 1]
      /\ used = l + n /\ key = k
  BY <1>1
<1>4. l \in Nat /\ n \in Nat
  BY ChainAssumption
<1>5. g \in Sig /\ g.key # Broken
  BY ChainAssumption DEF Sig
<1> HIDE DEF g
<1>6. /\ chain \in Seq(Link) /\ Len(chain) = n /\ DOMAIN chain = 1..n
      /\ \A i \in 1..n : chain[i] = [id |-> l + i, sig |-> g]
  BY <1>4, <1>5 DEF Link
<1> HIDE DEF chain
<1>7. ASSUME NEW i \in 1..l
      PROVE  /\ old(i) \in Row /\ old(i).id = i /\ old(i).prev = NoHash /\ old(i).sig = g
  BY <1>5 DEF Row, NoHash
<1>8. ASSUME NEW i \in 1..n
      PROVE  /\ new(i) \in Row /\ new(i).id = l + i /\ new(i).sig = g
             /\ new(i).prev = SubSeq(chain, 1, i - 1)
  <2>1. i - 1 \in 0..Len(chain)
    BY <1>4, <1>6
  <2>2. SubSeq(chain, 1, i - 1) \in Seq(Link)
    BY <1>6, <2>1, Initial
  <2>. QED
    BY <1>4, <1>5, <2>2 DEF Row
<1> HIDE DEF old, new
<1>9. Keyed(rows) /\ Known(rows)
  <2>1. IsFiniteSet(A)
    <3>1. [i \in 1..l |-> old(i)] \in Surjection(1..l, A)
      BY DEF Surjection
    <3>2. IsFiniteSet(1..l)
      BY <1>4, FS_Interval
    <3>. QED
      BY <3>1, <3>2, FS_Surjection
  <2>2. IsFiniteSet(B)
    <3>1. [i \in 1..n |-> new(i)] \in Surjection(1..n, B)
      BY DEF Surjection
    <3>2. IsFiniteSet(1..n)
      BY <1>4, FS_Interval
    <3>. QED
      BY <3>1, <3>2, FS_Surjection
  <2>3. IsFiniteSet(rows)
    BY <1>3, <2>1, <2>2, FS_Union
  <2>4. \A r \in rows : r \in Row /\ r.id <= used
    BY <1>3, <1>4, <1>7, <1>8
  <2>5. ASSUME NEW i \in 1..l, NEW r \in rows, r.id = i PROVE r = old(i)
    <3>1. CASE r \in A
      BY <1>7, <2>5, <3>1
    <3>2. CASE r \in B
      BY <1>4, <1>8, <2>5, <3>2
    <3>. QED
      BY <1>3, <3>1, <3>2
  <2>6. ASSUME NEW i \in 1..n, NEW r \in rows, r.id = l + i PROVE r = new(i)
    <3>1. CASE r \in A
      BY <1>4, <1>7, <2>6, <3>1
    <3>2. CASE r \in B
      <4>1. PICK j \in 1..n : r = new(j)
        BY <3>2
      <4>2. j = i
        BY <1>4, <1>8, <2>6, <4>1
      <4>. QED
        BY <4>1, <4>2
    <3>. QED
      BY <1>3, <3>1, <3>2
  <2>7. \A r, q \in rows : r.id = q.id => r = q
    <3> SUFFICES ASSUME NEW r \in rows, NEW q \in rows, r.id = q.id PROVE r = q
      OBVIOUS
    <3>1. CASE r \in A
      BY <1>7, <2>5, <3>1
    <3>2. CASE r \in B
      BY <1>8, <2>6, <3>2
    <3>. QED
      BY <1>3, <3>1, <3>2
  <2>. QED
    BY <2>3, <2>4, <2>7 DEF Keyed, Known
<1>10. Invalid(rows) = {}
  BY <1>3, <1>5, <1>7, <1>8 DEF Invalid
<1>11. ASSUME n = 0 PROVE IInv
  <2>1. head = NoHead /\ B = {}
    BY <1>3, <1>11
  <2>2. Linked(rows, head)
    <3>1. head # NoHead => FALSE
      BY <2>1
    <3>2. \A r \in rows : r.prev = NoHash
      BY <1>3, <1>7, <2>1
    <3>. QED
      BY <1>9, <3>1, <3>2 DEF Linked
  <2>3. Chains = {}
    BY <1>2, <2>1 DEF Chains
  <2>4. Apart
    BY <2>3 DEF Apart
  <2>5. Images
    BY <1>2, <1>9, <1>10, <2>2 DEF Images, Attested, Repairable
  <2>6. Types /\ Readers
    BY <1>2, <1>3, <1>4 DEF Types, Readers, Repairing, Adopting, Idle, States
  <2>. QED
    BY <2>4, <2>5, <2>6 DEF IInv
<1>12. ASSUME n # 0 PROVE IInv
  <2>1. head = [latest |-> chain, length |-> n, genesis |-> l + 1]
    BY <1>3, <1>12
  <2>2. 1 \in 1..n /\ chain[1].id = l + 1 /\ chain # <<>> /\ l + 1 \in Nat
    <3>1. 1 \in 1..n
      BY <1>4, <1>12
    <3>. QED
      BY <1>4, <1>6, <3>1
  <2>3. Heads(head)
    BY <1>4, <1>6, <2>1, <2>2 DEF Heads, Tip
  <2>4. head # NoHead /\ head.latest = chain
    BY <2>1, <2>3, HeadsExist
  <2>5. Chained(rows, chain)
    <3>1. \A i, j \in DOMAIN chain : chain[i].id = chain[j].id => i = j
      BY <1>4, <1>6
    <3>2. ASSUME NEW i \in 1..n PROVE \E r \in rows : Placed(r, chain, i) /\ Signed(r, chain, i)
      <4>1. chain[i].id = l + i /\ chain[i].sig = g
        BY <1>6
      <4>2. Placed(new(i), chain, i) /\ Signed(new(i), chain, i)
        BY <1>8, <4>1 DEF Placed, Signed
      <4>. QED
        BY <1>3, <4>2
    <3>3. ASSUME NEW r \in rows PROVE r.prev = NoHash \/ \E i \in DOMAIN chain : r.id = chain[i].id
      <4>1. CASE r \in A
        BY <1>7, <4>1
      <4>2. CASE r \in B
        <5>1. PICK j \in 1..n : r = new(j)
          BY <4>2
        <5>2. r.id = chain[j].id
          BY <1>6, <1>8, <5>1
        <5>. QED
          BY <1>6, <5>2
      <4>. QED
        BY <1>3, <4>1, <4>2
    <3>. QED
      BY <1>6, <3>1, <3>2, <3>3 DEF Chained
  <2>6. Linked(rows, head)
    BY <1>9, <2>3, <2>4, <2>5 DEF Linked
  <2>7. Loose = {}
    BY <1>2, <2>4 DEF Loose
  <2>8. Apart
    BY <2>7 DEF Apart
  <2>9. Images
    BY <1>2, <1>9, <1>10, <2>6 DEF Images, Attested, Repairable
  <2>10. Types /\ Readers
    BY <1>2, <1>3, <1>4 DEF Types, Readers, Repairing, Adopting, Idle, States
  <2>. QED
    BY <2>8, <2>9, <2>10 DEF IInv
<1>13. Marks
  BY <1>2, <1>10, ChainAssumption DEF Marks
<1>. QED
  BY <1>11, <1>12, <1>13

\* The rows that are broken are at most those that were damaged.
LEMMA MarksStep == IInv /\ Marks /\ [Next]_vars => Marks'
<1> SUFFICES ASSUME IInv, Marks, [Next]_vars PROVE Marks'
  OBVIOUS
<1>1. ASSUME NEW r \in rows, Damage(r) PROVE Marks'
  <2>1. /\ rows' = (rows \ {r}) \cup {Spoilt(r)} /\ r.sig.key # Broken
        /\ damage < MaxDamage /\ damage' = damage + 1
    BY <1>1 DEF Damage, Spoilt
  <2>2. Linked(rows, head)
    BY DEF IInv, Images
  <2>3. Invalid(rows') = Invalid(rows) \cup {Spoilt(r)}
    BY <2>1, <2>2, Damaged
  <2>4. damage' \in Nat /\ damage' <= MaxDamage /\ damage' # 0 /\ (damage' <= 1 => damage = 0)
    BY <2>1, ChainAssumption DEF Marks
  <2>. QED
    BY <2>3, <2>4 DEF Marks
<1>2. CASE Invalid(rows') = Invalid(rows) /\ damage' = damage
  BY <1>2 DEF Marks, Invalid
<1>3. CASE Invalid(rows') = {} /\ damage' = damage
  BY <1>3 DEF Marks, Invalid
<1>4. AppendEntry => Invalid(rows') = Invalid(rows) /\ damage' = damage
  BY AppendEntryStep DEF AppendEntry, bounds
<1>5. ASSUME NEW p \in Procs
      PROVE  /\ AdoptApply(p) => Invalid(rows') = Invalid(rows) /\ damage' = damage
             /\ ReSignApply(p) => Invalid(rows') = {} /\ damage' = damage
             /\ ReSignPreview(p) \/ ReSignBackup(p) \/ AdoptCheck(p) \/ Abort(p) =>
                   rows' = rows /\ damage' = damage
  <2>1. AdoptApply(p) => Invalid(rows') = Invalid(rows) /\ damage' = damage
    BY AdoptApplyStep DEF AdoptApply, bounds
  <2>2. ReSignApply(p) => Invalid(rows') = {} /\ damage' = damage
    BY ReSignApplyStep DEF ReSignApply, bounds
  <2>3. ReSignPreview(p) \/ ReSignBackup(p) \/ AdoptCheck(p) \/ Abort(p) =>
           rows' = rows /\ damage' = damage
    BY DEF ReSignPreview, ReSignBackup, AdoptCheck, Abort, db, bounds
  <2>. QED
    BY <2>1, <2>2, <2>3
<1>6. ASSUME NEW c \in copies, Restore(c) PROVE Invalid(rows') = {} /\ damage' = damage
  BY <1>6 DEF Restore, bounds
<1>7. ExportHead \/ AdoptPlan \/ (\E k \in Keys : RotateKey(k)) \/ UNCHANGED vars =>
         rows' = rows /\ damage' = damage
  BY DEF ExportHead, AdoptPlan, RotateKey, vars, db, bounds
<1>. QED
  BY <1>1, <1>2, <1>3, <1>4, <1>5, <1>6, <1>7 DEF Next

\* What every step keeps.
LEMMA Steps ==
    ASSUME OneByOne, IInv, Marks, [Next]_vars
    PROVE  /\ IInv'
           /\ head # NoHead /\ head' # head =>
                \/ head' # NoHead /\ head'.length > head.length
                \/ [rows |-> rows', head |-> head', manifests |-> manifests'] \in copies
<1>1. CASE AppendEntry
  BY <1>1, AppendEntryStep
<1>2. CASE ExportHead
  BY <1>2, ExportHeadStep
<1>3. CASE AdoptPlan
  BY <1>3, AdoptPlanStep
<1>4. CASE \E r \in rows : Damage(r)
  BY <1>4, DamageStep
<1>5. CASE \E k \in Keys : RotateKey(k)
  BY <1>5, RotateKeyStep
<1>6. CASE \E c \in copies : Restore(c)
  BY <1>6, RestoreStep
<1>7. ASSUME NEW p \in Procs, ReSignPreview(p) PROVE IInv' /\ head' = head
  BY <1>7, ReSignPreviewStep
<1>8. ASSUME NEW p \in Procs, ReSignBackup(p) PROVE IInv' /\ head' = head
  BY <1>8, ReSignBackupStep
<1>9. ASSUME NEW p \in Procs, ReSignApply(p)
      PROVE  /\ IInv' /\ head' # NoHead
             /\ head # NoHead => head'.length > head.length
  BY <1>9, ReSignApplyStep
<1>10. ASSUME NEW p \in Procs, AdoptCheck(p) PROVE IInv' /\ head' = head
  BY <1>10, AdoptCheckStep
<1>11. ASSUME NEW p \in Procs, AdoptApply(p)
       PROVE  IInv' /\ head' # NoHead /\ head'.length > head.length
  BY <1>11, AdoptApplyStep
<1>12. ASSUME NEW p \in Procs, Abort(p) PROVE IInv' /\ head' = head
  BY <1>12, AbortStep
<1>13. CASE UNCHANGED vars
  <2>1. UNCHANGED <<rows, head, manifests, used, key, proc, exports, copies>>
    BY <1>13 DEF vars, db
  <2>2. Readers'
    BY <2>1, SameReader DEF Readers
  <2>3. Types'
    BY <2>1 DEF IInv, Types
  <2>. QED
    BY <2>1, <2>2, <2>3, Kept DEF IInv
<1>. QED
  BY <1>1, <1>2, <1>3, <1>4, <1>5, <1>6, <1>7, <1>8, <1>9, <1>10, <1>11, <1>12, <1>13 DEF Next

\* In every ledger, and in every backup of one, each position of the chain
\* has its row with the hash of its predecessor, every other row is a genesis
\* row, and what has been attested or can be repaired is still there, whatever
\* re-sign, adoption and restored backups did in between (append_to_chain_with_cas,
\* apply_re_sign, apply_attestation).
THEOREM ChainInvariant == ASSUME OneByOne PROVE Spec => [](IInv /\ Marks)
<1>1. IInv /\ Marks /\ [Next]_vars => (IInv /\ Marks)'
  BY Steps, MarksStep
<1>. QED
  BY <1>1, InitOrder, PTL DEF Spec

\* Once no signature is broken, the ledger verifies but for genesis rows
\* nobody adopted: re-sign has left no row off the chain (apply_re_sign).
THEOREM RepairsAreWhole == ASSUME OneByOne PROVE Spec => []RepairIsWhole
<1>. QED
  BY Wholeness, ChainInvariant, PTL

\* verify --chain passes only if every row is valid, and on the chain or
\* attested by a row on the chain (verify_chain_integrity, decide_adoption).
THEOREM VerifiedIsSound == ASSUME OneByOne PROVE Spec => []VerifyIsSound
<1>. QED
  BY Soundness, ChainInvariant, PTL

\* A checkpoint passes exactly as long as the rows it covered are the first
\* rows of the chain, unchanged (classify_checkpoint).
THEOREM CheckpointsTell == ASSUME OneByOne PROVE Spec => []CheckpointTells
<1>. QED
  BY Telling, ChainInvariant, PTL

\* What was attested is accepted after any appends and repairs
\* (decide_adoption).
THEOREM AdoptionsStand == ASSUME OneByOne PROVE Spec => []AdoptionStands
<1>. QED
  BY Standing, ChainInvariant, PTL

\* Every step that moves the head makes the chain longer, but for a backup
\* put back (apply_re_sign).
THEOREM ChainOnlyGrows == ASSUME OneByOne PROVE Spec => ChainGrows
<1>1. IInv /\ Marks /\ [Next]_vars =>
         [head # NoHead /\ head' # head =>
             \/ head' # NoHead /\ head'.length > head.length
             \/ [rows |-> rows', head |-> head', manifests |-> manifests'] \in copies]_vars
  BY Steps
<1>. QED
  BY <1>1, ChainInvariant, PTL DEF Spec, ChainGrows
=============================================================================
