--------------------------- MODULE RetrievalProofs ---------------------------
(***************************************************************************)
(* Proofs about Retrieval, for any documents, texts, rankings and limits:  *)
(* an answer shows only what its scope held, a quiet scope is answered, a  *)
(* fusion keeps what its rankings agree on, a chunk has its own vector.    *)
(***************************************************************************)
EXTENDS Retrieval, SequenceTheorems, FiniteSetTheorems, WellFoundedInduction, TLAPS

-----------------------------------------------------------------------------
(* The inductive invariant *)

Active == {"encode", "search", "words", "cite", "check", "list", "read"}
Kinds == {"plain", "document", "compare"}
Passage == [doc : Document, n : Nat, text : Text]
Request ==
    [pc : Active \cup {"graph", "idle"}, kind : Kinds, each : BOOLEAN, session : Session \cup {None}, at : Place \cup {None},
     taste : Taste \cup {None}, provider : Providers, tries : 0..Attempts, sem : Seq(Text) \cup {None}, words : Seq(Text),
     chunks : Seq(Text), left : Seq(Document), read : Seq(Passage), sections : Seq(Cites), context : Seq(Cites),
     sources : Seq(Cites), names : SUBSET Document, out : {"none", "answer", "error"}]

\* A chunk of the store is one of its document, with its own vector.
Sound(e) == e.n \in DOMAIN Body[e.doc] /\ e.text = Body[e.doc][e.n] /\ e.vec = e.text
StoreInv ==
    /\ index \in Seq(Chunks) /\ \A e \in Range(index) : Sound(e)
    /\ rows \in Seq(Document) /\ place \in [Document -> Place]
    /\ faults \in 0..MaxFaults /\ changes \in 0..MaxChanges /\ calm \in BOOLEAN

\* What fits a step of the request.
Fits ==
    /\ req.pc \in Active => req.taste \in Taste /\ req.out = "none"
    /\ req.session # None => req.at = None
    /\ req.pc \in {"list", "read"} => req.session # None
    /\ req.pc \in Active /\ req.each => req.pc \in {"list", "read"}
    /\ req.pc = "graph" => req.out = "none"
    /\ req.pc \in {"graph", "idle"} => req.sem = None /\ req.chunks = <<>> /\ req.left = <<>> /\ req.read = <<>> /\ req.sections = <<>>
    /\ req.pc = "idle" /\ req.out = "none" => req.context = <<>> /\ req.sources = <<>>
    /\ \A d \in Range(req.left) : d \in Mine /\ Home[d] = req.session

\* The chunks of the scope have been seen, and texts, passages and citations
\* are of them.
SeenText(t) == \E c \in seen : Body[c.doc][c.n] = t
SeenPassage(b) == \E c \in seen : Body[c.doc][c.n] = b.text /\ c.doc = b.doc /\ (c.n = b.n \/ req.each)
SeenCite(b) == \E c \in seen : Body[c.doc][c.n] = b.text /\ (b.label # 0 => c.doc = b.doc /\ (c.n = b.n \/ req.each))
SeenInv ==
    /\ req.pc \in Active => Allowed(index, req.session, req.at) \subseteq seen
    /\ req.pc = "words" => req.sem \in Seq(Text) /\ \A t \in Range(req.sem) : SeenText(t)
    /\ \A t \in Range(req.chunks) : SeenText(t)
    /\ \A b \in Range(req.read) : SeenPassage(b)
    /\ \A b \in Range(req.sections) \cup Range(req.context) \cup Range(req.sources) : SeenCite(b)

\* The scope of a calm request keeps a chunk, so that each way of answering
\* finds one.
CalmInv ==
    calm =>
      /\ req.out # "error" /\ (req.out = "answer" => req.context # <<>>)
      /\ req.pc \in Active => \E e \in Range(index) : BuildFilter(e, req.session, req.at) /\ e.doc \in Range(rows)
      /\ req.pc = "graph" \/ (req.pc \in {"check", "list", "read"} /\ ~req.each) => req.context # <<>>
      /\ req.pc = "list" /\ req.each => Len(ListSession(req.session)) >= 2
      /\ req.pc = "read" /\ req.each =>
           /\ req.read # <<>> => req.sections # <<>>
           /\ req.sections # <<>> \/ \E e \in Range(index) : e.doc \in Range(req.left)

\* What was fused are two rankings of at most SearchK texts.
FusionInv ==
    /\ req.pc = "words" => Len(req.sem) <= SearchK
    /\ req.pc = "encode" /\ req.sem # None =>
         /\ req.sem \in Seq(Text) /\ Len(req.sem) <= SearchK /\ Len(req.words) <= SearchK
         /\ req.chunks = Fused(req.sem, req.words)

RetrievalInv == StoreInv /\ req \in Request /\ Fits /\ SeenInv /\ CalmInv /\ FusionInv

-----------------------------------------------------------------------------
(* Induction over the first numbers, and the functions defined by it *)

\* A set of the first numbers that holds 0 and the number after each of its own
\* holds them all.
LEMMA FirstNumbers ==
    ASSUME NEW n \in Nat, NEW S, 0 \in S, \A k \in 1..n : k - 1 \in S => k \in S
    PROVE  0..n \subseteq S
<1> SUFFICES ASSUME ~ (0..n \subseteq S) PROVE FALSE
  OBVIOUS
<1> DEFINE T == {k \in 0..n : k \notin S}
<1>1. T \subseteq Nat /\ T # {}
  OBVIOUS
<1>2. PICK x \in T : \A y \in T : ~ (<<y, x>> \in OpToRel(<, Nat))
  BY <1>1, NatLessThanWellFounded, WFMin, Zenon
<1>3. \A y \in T : <<y, x>> \in OpToRel(<, Nat) <=> y < x
  BY <1>1 DEF OpToRel
<1>4. x \in 1..n /\ x - 1 \in 0..n /\ x - 1 < x
  OBVIOUS
<1>5. x - 1 \in S
  BY <1>2, <1>3, <1>4
<1> QED
  BY <1>4, <1>5

\* A step on a set of values, taken n times.
Iterates(f, n, V, a, step) == f \in [0..n -> V] /\ f[0] = a /\ \A k \in 1..n : f[k] = step[k][f[k - 1]]

\* A function that begins with a and goes on with each step exists, and has its
\* values in V.
LEMMA Iterated ==
    ASSUME NEW n \in Nat, NEW V, NEW a \in V, NEW step \in [1..n -> [V -> V]]
    PROVE  \E f : Iterates(f, n, V, a, step)
<1> DEFINE Good(m, f) == f[0] = a /\ \A k \in 1..m : f[k] = step[k][f[k - 1]]
           S == {m \in 0..n : \E f \in [0..m -> V] : Good(m, f)}
<1>1. 0 \in S
  <2> DEFINE z == [k \in 0..0 |-> a]
  <2>1. z \in [0..0 -> V] /\ z[0] = a
    OBVIOUS
  <2> HIDE DEF z
  <2>2. \E f \in [0..0 -> V] : Good(0, f)
    BY <2>1
  <2>3. 0 \in 0..n
    OBVIOUS
  <2> QED
    BY <2>2, <2>3
<1>2. ASSUME NEW m \in 1..n, m - 1 \in S PROVE m \in S
  <2>1. PICK f \in [0..(m - 1) -> V] : Good(m - 1, f)
    BY <1>2
  <2> DEFINE g == [k \in 0..m |-> IF k = m THEN step[m][f[m - 1]] ELSE f[k]]
  <2>2. m - 1 \in 0..(m - 1) /\ f[m - 1] \in V /\ step[m][f[m - 1]] \in V
    <3>1. m - 1 \in 0..(m - 1)
      OBVIOUS
    <3>2. f[m - 1] \in V /\ step[m] \in [V -> V]
      BY <3>1
    <3> QED
      BY <3>1, <3>2
  <2>3. g \in [0..m -> V]
    BY <2>2
  <2>4. \A k \in 0..(m - 1) : g[k] = f[k]
    OBVIOUS
  <2>5. g[m] = step[m][f[m - 1]]
    OBVIOUS
  <2> HIDE DEF g
  <2>6. g[0] = a
    BY <2>1, <2>4
  <2>7. \A k \in 1..m : g[k] = step[k][g[k - 1]]
    <3> SUFFICES ASSUME NEW k \in 1..m PROVE g[k] = step[k][g[k - 1]]
      OBVIOUS
    <3>1. k - 1 \in 0..(m - 1) /\ g[k - 1] = f[k - 1]
      BY <2>4
    <3>2. CASE k = m
      BY <2>5, <3>1, <3>2
    <3>3. CASE k # m
      <4>1. k \in 1..(m - 1) /\ g[k] = f[k]
        BY <2>4, <3>3
      <4> QED
        BY <2>1, <3>1, <4>1
    <3> QED
      BY <3>2, <3>3
  <2>8. m \in 0..n /\ Good(m, g)
    BY <2>6, <2>7
  <2> QED
    BY <2>3, <2>8
<1> HIDE DEF S
<1>3. 0..n \subseteq S
  BY <1>1, <1>2, FirstNumbers
<1>4. n \in S
  BY <1>3
<1>5. PICK f \in [0..n -> V] : Good(n, f)
  BY <1>4 DEF S
<1>6. Iterates(f, n, V, a, step)
  BY <1>5 DEF Iterates
<1> QED
  BY <1>6

-----------------------------------------------------------------------------
(* Sequences *)

\* A function on the first positive numbers is a sequence.
LEMMA FunctionIsSeq ==
    ASSUME NEW n \in Nat, NEW S, NEW f \in [1..n -> S]
    PROVE  f \in Seq(S) /\ Len(f) = n /\ DOMAIN f = 1..n /\ (f = <<>> <=> n = 0)
<1>1. f \in Seq(S)
  OBVIOUS
<1>2. DOMAIN f = 1..Len(f) /\ Len(f) \in Nat
  BY <1>1, LenProperties
<1>3. Len(f) = n
  BY <1>2
<1> QED
  BY <1>1, <1>3, EmptySeq

\* What a sequence holds.
LEMMA Positions ==
    ASSUME NEW S, NEW s \in Seq(S)
    PROVE  /\ Len(s) \in Nat /\ DOMAIN s = 1..Len(s) /\ s \in [1..Len(s) -> S]
           /\ \A i \in DOMAIN s : s[i] \in S /\ s[i] \in Range(s)
           /\ \A x : x \in Range(s) <=> \E i \in DOMAIN s : s[i] = x
           /\ Range(s) \subseteq S /\ (s = <<>> <=> Len(s) = 0) /\ (s = <<>> <=> Range(s) = {})
<1>1. Len(s) \in Nat /\ DOMAIN s = 1..Len(s) /\ s \in [1..Len(s) -> S]
  BY LenProperties
<1>2. s = <<>> <=> Len(s) = 0
  BY <1>1, EmptySeq
<1>3. \A x : x \in Range(s) <=> \E i \in DOMAIN s : s[i] = x
  BY DEF Range
<1>4. \A i \in DOMAIN s : s[i] \in S
  BY <1>1
<1>5. Len(s) # 0 => 1 \in DOMAIN s
  BY <1>1
<1>6. Len(s) = 0 => DOMAIN s = {}
  BY <1>1
<1>7. s = <<>> <=> Range(s) = {}
  BY <1>2, <1>3, <1>5, <1>6
<1> QED
  BY <1>1, <1>2, <1>3, <1>4, <1>7

\* The first k of a sequence.
LEMMA TopIs ==
    ASSUME NEW S, NEW s \in Seq(S), NEW k \in Nat
    PROVE  /\ Top(s, k) \in Seq(S) /\ Len(Top(s, k)) = (IF k < Len(s) THEN k ELSE Len(s))
           /\ \A i \in DOMAIN Top(s, k) : i \in DOMAIN s /\ Top(s, k)[i] = s[i]
           /\ Range(Top(s, k)) \subseteq Range(s) /\ (s # <<>> /\ k # 0 => Top(s, k) # <<>>)
<1> DEFINE n == IF k < Len(s) THEN k ELSE Len(s)
<1>1. Len(s) \in Nat /\ n \in 0..Len(s) /\ \A i \in 1..n : s[i] \in S
  BY Positions
<1> HIDE DEF n
<1>2. /\ SubSeq(s, 1, n) \in Seq(S) /\ Len(SubSeq(s, 1, n)) = n
      /\ \A i \in 1..n : SubSeq(s, 1, n)[i] = s[i]
  BY <1>1, SubSeqProperties
<1>3. Top(s, k) = SubSeq(s, 1, n)
  BY DEF Top, n
<1>4. DOMAIN Top(s, k) = 1..n
  BY <1>2, <1>3, Positions
<1>5. \A i \in DOMAIN Top(s, k) : i \in DOMAIN s /\ Top(s, k)[i] = s[i]
  BY <1>1, <1>2, <1>3, <1>4, Positions
<1>6. Range(Top(s, k)) \subseteq Range(s)
  BY <1>5 DEF Range
<1>7. s # <<>> /\ k # 0 => n # 0
  BY Positions DEF n
<1>8. s # <<>> /\ k # 0 => Top(s, k) # <<>>
  BY <1>2, <1>3, <1>7, EmptySeq
<1> QED
  BY <1>2, <1>3, <1>5, <1>6, <1>8 DEF n

\* An order of positions by their keys, equal keys by position.
Before(I, key, i) == {j \in I : key[j] < key[i] \/ (key[j] = key[i] /\ j <= i)}
Orders(I, key, at) ==
    /\ at \in [1..Cardinality(I) -> I]
    /\ \A i \in I : \E k \in 1..Cardinality(I) : at[k] = i
    /\ \A i \in I : Cardinality(Before(I, key, i)) \in 1..Cardinality(I) /\ at[Cardinality(Before(I, key, i))] = i
    /\ \A k, l \in 1..Cardinality(I) :
         k < l => key[at[k]] < key[at[l]] \/ (key[at[k]] = key[at[l]] /\ at[k] < at[l])

\* What SortedBy gives is the sequence read along such an order.
LEMMA SortedByIs ==
    ASSUME NEW I, IsFiniteSet(I), I \subseteq Int, NEW key \in [I -> Int], NEW s
    PROVE  /\ Cardinality(I) \in Nat
           /\ \E at : Orders(I, key, at) /\ SortedBy(s, key) = [k \in 1..Cardinality(I) |-> s[at[k]]]
<1> DEFINE n == Cardinality(I)
           before(i) == Before(I, key, i)
           spot(i) == Cardinality(before(i))
           at == [k \in 1..n |-> CHOOSE i \in I : spot(i) = k]
           f == [i \in I |-> spot(i)]
<1>1. n \in Nat
  BY FS_CardinalityType
<1>2. \A i \in I : key[i] \in Int /\ i \in Int
  OBVIOUS
<1>3. \A i \in I : IsFiniteSet(before(i)) /\ spot(i) \in 1..n
  <2> SUFFICES ASSUME NEW i \in I PROVE IsFiniteSet(before(i)) /\ spot(i) \in 1..n
    OBVIOUS
  <2>1. before(i) \in SUBSET I /\ i \in before(i)
    BY <1>2 DEF Before
  <2> HIDE DEF before
  <2>2. IsFiniteSet(before(i)) /\ spot(i) <= n
    BY <2>1, FS_Subset
  <2>3. spot(i) \in Nat /\ spot(i) # 0
    BY <2>1, <2>2, FS_CardinalityType, FS_EmptySet
  <2> QED
    BY <1>1, <2>2, <2>3
<1>4. \A i, j \in I : key[i] < key[j] \/ (key[i] = key[j] /\ i < j) => spot(i) < spot(j)
  <2> SUFFICES ASSUME NEW i \in I, NEW j \in I, key[i] < key[j] \/ (key[i] = key[j] /\ i < j)
               PROVE  spot(i) < spot(j)
    OBVIOUS
  <2>a. key[i] \in Int /\ key[j] \in Int /\ i \in Int /\ j \in Int
    BY <1>2
  <2>b. \A x \in before(i) : x \in before(j)
    BY <1>2, <2>a DEF Before
  <2>1. before(i) \subseteq before(j) /\ j \in before(j) /\ j \notin before(i)
    <3>1. before(i) \subseteq before(j)
      BY <2>b
    <3>2. j \in before(j)
      BY <2>a DEF Before
    <3>3. j \notin before(i)
      BY <2>a DEF Before
    <3> QED
      BY <3>1, <3>2, <3>3
  <2>2. spot(i) \in Nat /\ spot(j) \in Nat /\ IsFiniteSet(before(j))
    BY <1>3
  <2> HIDE DEF before
  <2>3. before(i) \in SUBSET before(j) /\ before(i) # before(j)
    BY <2>1
  <2>4. spot(i) <= spot(j) /\ spot(j) # spot(i)
    BY <2>2, <2>3, FS_Subset
  <2> QED
    BY <2>2, <2>4
<1> HIDE DEF before
<1>5. \A i, j \in I : i # j => spot(i) # spot(j)
  BY <1>2, <1>3, <1>4
<1> HIDE DEF spot
<1>6. f \in [I -> 1..n] /\ IsInjective(f)
  BY <1>3, <1>5 DEF IsInjective
<1>7. IsFiniteSet(1..n) /\ Cardinality(1..n) = n
  BY <1>1, FS_Interval
<1>8. f \in Injection(I, 1..n)
  BY <1>6 DEF Injection
<1>9. f \in Surjection(I, 1..n)
  BY <1>7, <1>8, FS_Injection
<1>10. \A k \in 1..n : \E i \in I : spot(i) = k
  BY <1>9 DEF Surjection
<1>11. \A k \in 1..n : at[k] \in I /\ spot(at[k]) = k
  BY <1>10
<1>12. at \in [1..n -> I]
  BY <1>11
<1>13. \A i \in I : spot(i) \in 1..n /\ at[spot(i)] = i
  BY <1>3, <1>5, <1>11
<1>14. SortedBy(s, key) = [k \in 1..n |-> s[at[k]]]
  <2>1. SortedBy(s, key) = [k \in 1..n |-> s[CHOOSE i \in I : spot(i) = k]]
    BY DEF SortedBy, spot, before, Before
  <2> QED
    BY <2>1
<1> HIDE DEF at
<1>15. \A k, l \in 1..n : k < l => key[at[k]] < key[at[l]] \/ (key[at[k]] = key[at[l]] /\ at[k] < at[l])
  <2> SUFFICES ASSUME NEW k \in 1..n, NEW l \in 1..n, k < l
               PROVE  key[at[k]] < key[at[l]] \/ (key[at[k]] = key[at[l]] /\ at[k] < at[l])
    OBVIOUS
  <2>1. at[k] \in I /\ at[l] \in I /\ spot(at[k]) = k /\ spot(at[l]) = l
    BY <1>11
  <2>2. at[k] # at[l]
    BY <2>1
  <2>3. ~ (key[at[l]] < key[at[k]] \/ (key[at[l]] = key[at[k]] /\ at[l] < at[k]))
    <3>1. ~ (spot(at[l]) < spot(at[k]))
      BY <2>1
    <3> QED
      BY <1>4, <2>1, <3>1
  <2>4. at[k] \in Int /\ at[l] \in Int /\ key[at[k]] \in Int /\ key[at[l]] \in Int
    BY <1>2, <2>1
  <2> QED
    BY <2>2, <2>3, <2>4
<1>16. \A i \in I : Cardinality(Before(I, key, i)) \in 1..n /\ at[Cardinality(Before(I, key, i))] = i
  BY <1>3, <1>13 DEF spot, before
<1>17. \A i \in I : \E k \in 1..n : at[k] = i
  BY <1>13
<1>18. Orders(I, key, at)
  BY <1>12, <1>15, <1>16, <1>17 DEF Orders
<1> QED
  BY <1>1, <1>14, <1>18

\* Some positions of a sequence, in any order of a key.
LEMMA SortedByHolds ==
    ASSUME NEW S, NEW s \in Seq(S), NEW I, I \subseteq DOMAIN s, NEW key \in [I -> Int]
    PROVE  /\ SortedBy(s, key) \in Seq(S) /\ Len(SortedBy(s, key)) = Cardinality(I)
           /\ Cardinality(I) \in 0..Len(s) /\ (I = DOMAIN s => Cardinality(I) = Len(s))
           /\ \A x : x \in Range(SortedBy(s, key)) <=> \E i \in I : s[i] = x
           /\ (SortedBy(s, key) = <<>> <=> I = {})
<1>1. DOMAIN s = 1..Len(s) /\ Len(s) \in Nat /\ (\A i \in DOMAIN s : s[i] \in S)
  BY Positions
<1>2. IsFiniteSet(DOMAIN s) /\ Cardinality(DOMAIN s) = Len(s)
  <2>1. Cardinality(1..Len(s)) = IF 1 > Len(s) THEN 0 ELSE Len(s) - 1 + 1
    BY <1>1, FS_Interval
  <2> QED
    BY <1>1, <2>1, FS_Interval
<1>3. IsFiniteSet(I) /\ Cardinality(I) <= Len(s)
  BY <1>2, FS_Subset
<1>4. Cardinality(I) \in Nat /\ (Cardinality(I) = 0 <=> I = {})
  BY <1>3, FS_CardinalityType, FS_EmptySet
<1>5. PICK at : Orders(I, key, at) /\ SortedBy(s, key) = [k \in 1..Cardinality(I) |-> s[at[k]]]
  <2>1. I \subseteq Int
    BY <1>1
  <2> QED
    BY <1>3, <2>1, SortedByIs
<1>a. at \in [1..Cardinality(I) -> I] /\ \A i \in I : \E k \in 1..Cardinality(I) : at[k] = i
  BY <1>5 DEF Orders
<1>6. SortedBy(s, key) \in [1..Cardinality(I) -> S] /\ \A k \in 1..Cardinality(I) : SortedBy(s, key)[k] = s[at[k]]
  BY <1>1, <1>5, <1>a
<1>7. /\ SortedBy(s, key) \in Seq(S) /\ Len(SortedBy(s, key)) = Cardinality(I)
      /\ DOMAIN SortedBy(s, key) = 1..Cardinality(I) /\ (SortedBy(s, key) = <<>> <=> Cardinality(I) = 0)
  <2> DEFINE r == SortedBy(s, key)
             n == Cardinality(I)
  <2>1. r \in [1..n -> S] /\ n \in Nat
    BY <1>4, <1>6
  <2> HIDE DEF r, n
  <2>2. r \in Seq(S) /\ Len(r) = n /\ DOMAIN r = 1..n /\ (r = <<>> <=> n = 0)
    BY <2>1, FunctionIsSeq
  <2> QED
    BY <2>2 DEF r, n
<1>8. \A x : x \in Range(SortedBy(s, key)) <=> \E k \in 1..Cardinality(I) : SortedBy(s, key)[k] = x
  BY <1>7 DEF Range
<1>9. \A x : x \in Range(SortedBy(s, key)) <=> \E i \in I : s[i] = x
  BY <1>6, <1>8, <1>a
<1> QED
  BY <1>1, <1>2, <1>3, <1>4, <1>7, <1>9

\* How many numbers there are from 1.
LEMMA CountTo ==
    ASSUME NEW n \in Nat
    PROVE  IsFiniteSet(1..n) /\ Cardinality(1..n) = n
<1>1. IsFiniteSet(1..n) /\ Cardinality(1..n) = IF 1 > n THEN 0 ELSE n - 1 + 1
  BY FS_Interval
<1> QED
  BY <1>1

\* Some positions of a sequence, in their order.
LEMMA SublistHolds ==
    ASSUME NEW S, NEW s \in Seq(S), NEW I, I \subseteq DOMAIN s
    PROVE  /\ Sublist(s, I) \in Seq(S) /\ Len(Sublist(s, I)) \in 0..Len(s)
           /\ \A x : x \in Range(Sublist(s, I)) <=> \E i \in I : s[i] = x
           /\ (Sublist(s, I) = <<>> <=> I = {})
<1> DEFINE key == [i \in I |-> 0]
<1>1. key \in [I -> Int]
  OBVIOUS
<1>2. Sublist(s, I) = SortedBy(s, key)
  BY DEF Sublist
<1> HIDE DEF key
<1> QED
  <2>1. /\ SortedBy(s, key) \in Seq(S) /\ Len(SortedBy(s, key)) = Cardinality(I)
        /\ Cardinality(I) \in 0..Len(s)
        /\ \A x : x \in Range(SortedBy(s, key)) <=> \E i \in I : s[i] = x
        /\ (SortedBy(s, key) = <<>> <=> I = {})
    BY <1>1, SortedByHolds
  <2> QED
    BY <1>2, <2>1

\* All positions of a sequence, with equal keys, are the sequence.
LEMMA EqualKeys ==
    ASSUME NEW S, NEW s \in Seq(S), NEW I, I = DOMAIN s, NEW key \in [I -> {0}]
    PROVE  SortedBy(s, key) = s
<1>1. I = 1..Len(s) /\ Len(s) \in Nat /\ s \in [I -> S] /\ key \in [I -> Int]
  BY Positions
<1>2. IsFiniteSet(I) /\ I \subseteq Int /\ Cardinality(I) = Len(s)
  <2>1. IsFiniteSet(1..Len(s)) /\ Cardinality(1..Len(s)) = Len(s)
    BY <1>1, CountTo
  <2> QED
    BY <1>1, <2>1
<1>3. PICK at : Orders(I, key, at) /\ SortedBy(s, key) = [k \in 1..Cardinality(I) |-> s[at[k]]]
  BY <1>1, <1>2, SortedByIs
<1>4. \A i \in I : Cardinality(Before(I, key, i)) = i
  <2> SUFFICES ASSUME NEW i \in I PROVE Cardinality(Before(I, key, i)) = i
    OBVIOUS
  <2>1. Before(I, key, i) = 1..i
    BY <1>1 DEF Before
  <2>2. i \in Nat /\ Cardinality(1..i) = i
    BY <1>1, CountTo
  <2> QED
    BY <2>1, <2>2
<1>5. \A i \in I : at[i] = i
  <2>1. \A i \in I : at[Cardinality(Before(I, key, i))] = i
    BY <1>3 DEF Orders
  <2> QED
    BY <1>4, <2>1
<1>6. SortedBy(s, key) = [k \in I |-> s[k]]
  BY <1>1, <1>2, <1>3, <1>5
<1> QED
  BY <1>1, <1>6

\* The positions that are all there are.
LEMMA SublistOfAll ==
    ASSUME NEW S, NEW s \in Seq(S)
    PROVE  Sublist(s, DOMAIN s) = s
<1> DEFINE key == [i \in DOMAIN s |-> 0]
<1>1. key \in [DOMAIN s -> {0}]
  OBVIOUS
<1>2. SortedBy(s, key) = s
  BY <1>1, EqualKeys
<1> QED
  BY <1>2 DEF Sublist

\* A ranking has what it ranks.
LEMMA RankedHolds ==
    ASSUME NEW S, NEW s \in Seq(S), NEW texts \in [DOMAIN s -> Text], NEW rank \in [Text -> Nat]
    PROVE  /\ Ranked(s, texts, rank) \in Seq(S) /\ Len(Ranked(s, texts, rank)) = Len(s)
           /\ Range(Ranked(s, texts, rank)) = Range(s) /\ (Ranked(s, texts, rank) = <<>> <=> s = <<>>)
<1> DEFINE key == [i \in DOMAIN s |-> rank[texts[i]]]
<1>1. key \in [DOMAIN s -> Int]
  OBVIOUS
<1>2. Ranked(s, texts, rank) = SortedBy(s, key)
  BY DEF Ranked
<1> HIDE DEF key
<1>3. /\ SortedBy(s, key) \in Seq(S) /\ Len(SortedBy(s, key)) = Len(s)
      /\ \A x : x \in Range(SortedBy(s, key)) <=> \E i \in DOMAIN s : s[i] = x
      /\ (SortedBy(s, key) = <<>> <=> DOMAIN s = {})
  BY <1>1, SortedByHolds
<1>4. Range(SortedBy(s, key)) = Range(s)
  BY <1>3, Positions
<1>5. DOMAIN s = {} <=> s = <<>>
  BY Positions
<1> QED
  BY <1>2, <1>3, <1>4, <1>5

\* The texts of a sequence.
LEMMA TextsHold ==
    ASSUME NEW S, \A e \in S : e.text \in Text, NEW s \in Seq(S)
    PROVE  /\ Texts(s) \in Seq(Text) /\ Len(Texts(s)) = Len(s) /\ DOMAIN Texts(s) = DOMAIN s
           /\ \A i \in DOMAIN s : Texts(s)[i] = s[i].text
           /\ \A t : t \in Range(Texts(s)) <=> \E e \in Range(s) : e.text = t
           /\ (Texts(s) = <<>> <=> s = <<>>)
<1>1. Len(s) \in Nat /\ DOMAIN s = 1..Len(s) /\ (\A i \in DOMAIN s : s[i] \in S) /\ (s = <<>> <=> Len(s) = 0)
  BY Positions
<1>2. Texts(s) \in [1..Len(s) -> Text] /\ \A i \in DOMAIN s : Texts(s)[i] = s[i].text
  BY <1>1 DEF Texts
<1>3. Texts(s) \in Seq(Text) /\ Len(Texts(s)) = Len(s) /\ DOMAIN Texts(s) = DOMAIN s /\ (Texts(s) = <<>> <=> Len(s) = 0)
  BY <1>1, <1>2, FunctionIsSeq
<1>4. \A t : t \in Range(Texts(s)) <=> \E i \in DOMAIN s : s[i].text = t
  BY <1>2, <1>3 DEF Range
<1>5. \A t : (\E i \in DOMAIN s : s[i].text = t) <=> \E e \in Range(s) : e.text = t
  BY Positions
<1> QED
  BY <1>1, <1>2, <1>3, <1>4, <1>5

\* What the reranker keeps.
LEMMA RerankedHolds ==
    ASSUME NEW texts \in Seq(Text), NEW taste \in Taste, NEW k \in Nat
    PROVE  /\ Reranked(texts, taste, k) \in Seq(Text) /\ Range(Reranked(texts, taste, k)) \subseteq Range(texts)
           /\ Len(Reranked(texts, taste, k)) <= Len(texts)
           /\ (texts # <<>> /\ k # 0 => Reranked(texts, taste, k) # <<>>)
<1>1. taste.rerank \in [Text -> Nat]
  BY RetrievalConstants
<1>2. texts \in [DOMAIN texts -> Text] /\ Len(texts) \in Nat
  BY Positions
<1> DEFINE r == Ranked(texts, texts, taste.rerank)
<1>3. r \in Seq(Text) /\ Len(r) = Len(texts) /\ Range(r) = Range(texts) /\ (r = <<>> <=> texts = <<>>)
  BY <1>1, <1>2, RankedHolds
<1> HIDE DEF r
<1>4. Reranked(texts, taste, k) = Top(r, k)
  BY DEF Reranked, r
<1>5. /\ Top(r, k) \in Seq(Text) /\ Len(Top(r, k)) = (IF k < Len(r) THEN k ELSE Len(r))
      /\ Range(Top(r, k)) \subseteq Range(r) /\ (r # <<>> /\ k # 0 => Top(r, k) # <<>>)
  BY <1>3, TopIs
<1>6. Len(Top(r, k)) <= Len(texts)
  BY <1>2, <1>3, <1>5
<1> QED
  BY <1>3, <1>4, <1>5, <1>6

\* Citations, in the order of what they cite.
LEMMA CitedHolds ==
    ASSUME NEW s \in Seq(Passage \cup Chunks \cup Cites), \A i \in DOMAIN s : s[i].doc \in Document
    PROVE  /\ Cited(s) \in Seq(Cites) /\ (Cited(s) = <<>> <=> s = <<>>)
           /\ \A b \in Range(Cited(s)) : \E e \in Range(s) : b.doc = e.doc /\ b.n = e.n /\ b.text = e.text
<1>1. /\ Len(s) \in Nat /\ DOMAIN s = 1..Len(s) /\ (\A i \in DOMAIN s : s[i] \in Passage \cup Chunks \cup Cites)
      /\ (\A i \in DOMAIN s : s[i] \in Range(s)) /\ (s = <<>> <=> Len(s) = 0)
  BY Positions
<1>2. \A i \in DOMAIN s : s[i].n \in Nat /\ s[i].text \in Text
  BY <1>1 DEF Passage, Chunks, Cites
<1>3. Cited(s) = [i \in 1..Len(s) |-> Cite(i, s[i])]
  BY <1>1 DEF Cited
<1>4. \A i \in 1..Len(s) : Cite(i, s[i]) \in Cites
  BY <1>1, <1>2 DEF Cite, Cites
<1>5. Cited(s) \in [1..Len(s) -> Cites]
  BY <1>3, <1>4
<1>6. Cited(s) \in Seq(Cites) /\ DOMAIN Cited(s) = 1..Len(s) /\ (Cited(s) = <<>> <=> Len(s) = 0)
  BY <1>1, <1>5, FunctionIsSeq
<1>7. \A b \in Range(Cited(s)) : \E i \in 1..Len(s) : b = Cite(i, s[i])
  BY <1>3, <1>6 DEF Range
<1>8. \A i \in 1..Len(s) : Cite(i, s[i]).doc = s[i].doc /\ Cite(i, s[i]).n = s[i].n /\ Cite(i, s[i]).text = s[i].text
  BY DEF Cite
<1>9. \A b \in Range(Cited(s)) : \E i \in 1..Len(s) : b.doc = s[i].doc /\ b.n = s[i].n /\ b.text = s[i].text
  BY <1>7, <1>8
<1>10. \A b \in Range(Cited(s)) : \E e \in Range(s) : b.doc = e.doc /\ b.n = e.n /\ b.text = e.text
  BY <1>1, <1>9
<1> QED
  BY <1>1, <1>6, <1>10

\* A set of natural numbers has a least.
LEMMA Least ==
    ASSUME NEW S, S \subseteq Nat, S # {}
    PROVE  \E x \in S : \A y \in S : x <= y
<1>1. PICK x \in S : \A y \in S : ~ (<<y, x>> \in OpToRel(<, Nat))
  BY NatLessThanWellFounded, WFMin, Zenon
<1>2. \A y \in S : <<y, x>> \in OpToRel(<, Nat) <=> y < x
  BY DEF OpToRel
<1>3. \A y \in S : ~ (y < x)
  BY <1>1, <1>2
<1> QED
  BY <1>3

\* Sources are cited for texts, each of them one that was found.
LEMMA SourcesOfHold ==
    ASSUME NEW S, \A e \in S : e.text \in Text, NEW texts \in Seq(Text), NEW sources \in Seq(S)
    PROVE  SourcesOf(texts, sources) \in Seq(S) /\ Range(SourcesOf(texts, sources)) \subseteq Range(sources)
<1> DEFINE I == {i \in DOMAIN texts : texts[i] \in Range(Texts(sources))}
           known == Sublist(texts, I)
           at(t) == CHOOSE i \in DOMAIN sources : sources[i].text = t /\ \A j \in 1..(i - 1) : sources[j].text # t
<1>1. DOMAIN sources = 1..Len(sources) /\ Len(sources) \in Nat /\ \A i \in DOMAIN sources : sources[i] \in S
  BY Positions
<1>2. /\ known \in Seq(Text) /\ \A x : x \in Range(known) <=> \E i \in I : texts[i] = x
  BY SublistHolds
<1> HIDE DEF known
<1>3. DOMAIN known = 1..Len(known) /\ Len(known) \in Nat /\ \A i \in DOMAIN known : known[i] \in Range(known)
  BY <1>2, Positions
<1>4. \A i \in DOMAIN known : known[i] \in Range(Texts(sources))
  BY <1>2, <1>3
<1>5. \A t \in Range(Texts(sources)) : at(t) \in DOMAIN sources
  <2> SUFFICES ASSUME NEW t \in Range(Texts(sources)) PROVE at(t) \in DOMAIN sources
    OBVIOUS
  <2> DEFINE J == {i \in DOMAIN sources : sources[i].text = t}
  <2>1. \E i \in DOMAIN sources : sources[i].text = t
    <3>1. \E e \in Range(sources) : e.text = t
      BY TextsHold
    <3> QED
      BY <3>1, Positions
  <2>2. J \subseteq Nat /\ J # {}
    BY <1>1, <2>1
  <2> HIDE DEF J
  <2>3. PICK x \in J : \A y \in J : x <= y
    BY <2>2, Least
  <2>4. x \in DOMAIN sources /\ sources[x].text = t /\ \A j \in 1..(x - 1) : sources[j].text # t
    <3>1. x \in DOMAIN sources /\ sources[x].text = t
      BY DEF J
    <3>2. \A j \in 1..(x - 1) : j \in DOMAIN sources /\ ~ (x <= j)
      BY <1>1, <3>1
    <3>3. \A j \in 1..(x - 1) : j \notin J
      BY <2>3, <3>2
    <3> QED
      BY <3>1, <3>2, <3>3 DEF J
  <2> QED
    BY <2>4
<1>6. SourcesOf(texts, sources) = [i \in DOMAIN known |-> sources[at(known[i])]]
  BY DEF SourcesOf, known
<1> HIDE DEF at
<1>7. \A i \in DOMAIN known : sources[at(known[i])] \in S /\ sources[at(known[i])] \in Range(sources)
  BY <1>1, <1>4, <1>5, Positions
<1>8. SourcesOf(texts, sources) \in [1..Len(known) -> S]
  BY <1>3, <1>6, <1>7
<1>9. SourcesOf(texts, sources) \in Seq(S) /\ DOMAIN SourcesOf(texts, sources) = DOMAIN known
  BY <1>3, <1>8, FunctionIsSeq
<1>10. Range(SourcesOf(texts, sources)) \subseteq Range(sources)
  BY <1>6, <1>7, <1>9 DEF Range
<1> QED
  BY <1>9, <1>10

\* Where a position that is kept goes: it is counted among those up to it.
UpTo(P, i) == {j \in P : j <= i}

\* A position that is kept is found after those kept before it.
LEMMA KeptPosition ==
    ASSUME NEW S, NEW s \in Seq(S), NEW P, P \subseteq DOMAIN s, NEW key \in [P -> {0}], NEW i \in P
    PROVE  /\ Cardinality(UpTo(P, i)) \in 1..Len(SortedBy(s, key))
           /\ SortedBy(s, key)[Cardinality(UpTo(P, i))] = s[i]
<1>1. DOMAIN s = 1..Len(s) /\ Len(s) \in Nat
  BY Positions
<1>2. P \subseteq Int /\ IsFiniteSet(P) /\ key \in [P -> Int]
  <2>1. IsFiniteSet(DOMAIN s)
    BY <1>1, CountTo
  <2>2. P \in SUBSET DOMAIN s
    OBVIOUS
  <2> QED
    BY <1>1, <2>1, <2>2, FS_Subset
<1>3. PICK at : Orders(P, key, at) /\ SortedBy(s, key) = [n \in 1..Cardinality(P) |-> s[at[n]]]
  BY <1>2, SortedByIs
<1>4. Before(P, key, i) = UpTo(P, i)
  BY DEF Before, UpTo
<1>5. Cardinality(UpTo(P, i)) \in 1..Cardinality(P) /\ at[Cardinality(UpTo(P, i))] = i
  BY <1>3, <1>4 DEF Orders
<1>6. Len(SortedBy(s, key)) = Cardinality(P)
  BY <1>2, SortedByHolds
<1> QED
  BY <1>3, <1>5, <1>6

\* ... in a part of a sequence.
LEMMA KeptInSublist ==
    ASSUME NEW S, NEW s \in Seq(S), NEW P, P \subseteq DOMAIN s, NEW i \in P
    PROVE  /\ Cardinality(UpTo(P, i)) \in 1..Len(Sublist(s, P))
           /\ Sublist(s, P)[Cardinality(UpTo(P, i))] = s[i]
<1> DEFINE key == [j \in P |-> 0]
<1>1. key \in [P -> {0}] /\ Sublist(s, P) = SortedBy(s, key)
  BY DEF Sublist
<1> HIDE DEF key
<1>2. /\ Cardinality(UpTo(P, i)) \in 1..Len(SortedBy(s, key))
      /\ SortedBy(s, key)[Cardinality(UpTo(P, i))] = s[i]
  BY <1>1, KeptPosition
<1> QED
  BY <1>1, <1>2

\* Cached and encoded vectors come together in the order of the texts.
LEMMA EncodeTextsFits ==
    ASSUME NEW texts \in Seq(Text), NEW hits
    PROVE  EncodeTexts(texts, hits, Sublist(texts, {i \in DOMAIN texts : texts[i] \notin hits})) = texts
<1> DEFINE P == {i \in DOMAIN texts : texts[i] \notin hits}
           encoded == Sublist(texts, P)
           pending(i) == Cardinality({j \in 1..i : texts[j] \notin hits})
           result == [i \in DOMAIN texts |->
             IF texts[i] \in hits THEN texts[i]
             ELSE IF pending(i) <= Len(encoded) THEN encoded[pending(i)] ELSE None]
<1>1. /\ DOMAIN texts = 1..Len(texts) /\ Len(texts) \in Nat /\ texts \in [1..Len(texts) -> Text]
      /\ \A i \in DOMAIN texts : texts[i] \in Text
  BY Positions
<1>2. P \subseteq Int /\ P \subseteq DOMAIN texts /\ IsFiniteSet(P)
  <2>1. IsFiniteSet(DOMAIN texts)
    BY <1>1, CountTo
  <2>2. P \in SUBSET DOMAIN texts
    OBVIOUS
  <2> QED
    BY <1>1, <2>1, <2>2, FS_Subset
<1>3. \A i \in P : texts[i] = encoded[pending(i)] /\ pending(i) <= Len(encoded)
  <2> SUFFICES ASSUME NEW i \in P PROVE texts[i] = encoded[pending(i)] /\ pending(i) <= Len(encoded)
    OBVIOUS
  <2> DEFINE c == Cardinality(UpTo(P, i))
  <2>1. {j \in 1..i : texts[j] \notin hits} = UpTo(P, i)
    BY <1>1, <1>2 DEF UpTo
  <2>2. pending(i) = c
    BY <2>1
  <2>3. Len(encoded) \in Nat
    <3>1. encoded \in Seq(Text)
      BY <1>2, SublistHolds
    <3> QED
      BY <3>1, Positions
  <2> HIDE DEF P
  <2>4. c \in 1..Len(encoded) /\ encoded[c] = texts[i]
    BY <1>2, KeptInSublist
  <2> HIDE DEF encoded, c, pending
  <2> QED
    BY <2>2, <2>3, <2>4
<1> HIDE DEF encoded, pending
<1>4. \A i \in DOMAIN texts : result[i] = texts[i]
  BY <1>3
<1>5. result = texts
  BY <1>1, <1>4
<1>6. {i \in DOMAIN result : result[i] # None} = DOMAIN texts
  BY <1>1, <1>5, RetrievalConstants
<1>7. EncodeTexts(texts, hits, encoded) = Sublist(result, {i \in DOMAIN result : result[i] # None})
  BY DEF EncodeTexts, pending
<1> HIDE DEF result
<1>8. EncodeTexts(texts, hits, encoded) = Sublist(texts, DOMAIN texts)
  BY <1>5, <1>6, <1>7
<1>9. EncodeTexts(texts, hits, encoded) = texts
  BY <1>8, SublistOfAll
<1> QED
  BY <1>9 DEF encoded

\* Whatever the order of an answer of the API, its vectors are those of the texts.
LEMMA ByIndexFits ==
    ASSUME NEW texts \in Seq(Text), NEW response \in Responses(texts)
    PROVE  ByIndex(response) = texts
<1> DEFINE D == DOMAIN texts
<1>1. texts = [i \in D |-> texts[i]]
  BY Positions
<1>2. PICK p \in Bijection(D, D) : response = [i \in D |-> [index |-> p[i], vec |-> texts[p[i]]]]
  BY DEF Responses
<1>3. p \in [D -> D] /\ \A i \in D : \E j \in D : p[j] = i
  BY DEF Bijection, Surjection
<1>4. DOMAIN response = D /\ \A i \in D : response[i].index = p[i] /\ response[i].vec = texts[p[i]]
  BY <1>2, <1>3
<1> HIDE DEF D
<1>5. \A i \in D : response[CHOOSE j \in D : response[j].index = i].vec = texts[i]
  <2> SUFFICES ASSUME NEW i \in D PROVE response[CHOOSE j \in D : response[j].index = i].vec = texts[i]
    OBVIOUS
  <2>1. \E j \in D : response[j].index = i
    BY <1>3, <1>4
  <2>2. (CHOOSE j \in D : response[j].index = i) \in D /\ response[CHOOSE j \in D : response[j].index = i].index = i
    BY <2>1
  <2> QED
    BY <1>4, <2>2
<1>6. ByIndex(response) = [i \in D |-> response[CHOOSE j \in D : response[j].index = i].vec]
  BY <1>4 DEF ByIndex, D
<1> QED
  BY <1>1, <1>5, <1>6

-----------------------------------------------------------------------------
(* Fusion *)

IsProduct(f) == f = [n \in 0..SearchK |-> IF n = 0 THEN 1 ELSE (RRFK + n) * f[n - 1]]

\* The unit of the scores is a product of the denominators.
LEMMA UnitIsProduct ==
    \E f \in [0..SearchK -> Nat \ {0}] :
            Unit = f[SearchK] /\ f[0] = 1 /\ \A n \in 1..SearchK : f[n] = (RRFK + n) * f[n - 1]
<1> DEFINE V == Nat \ {0}
           step == [n \in 1..SearchK |-> [v \in V |-> (RRFK + n) * v]]
           p == CHOOSE f : IsProduct(f)
<1>1. SearchK \in Nat \ {0} /\ RRFK \in Nat
  BY RetrievalConstants
<1>2. Unit = p[SearchK]
  BY DEF Unit, IsProduct
<1>3. \A n \in 1..SearchK, v \in V : (RRFK + n) * v \in V
  BY <1>1
<1>4. step \in [1..SearchK -> [V -> V]] /\ 1 \in V
  BY <1>3
<1>5. \A n \in 1..SearchK, v \in V : step[n][v] = (RRFK + n) * v
  OBVIOUS
<1> HIDE DEF step, V
<1>a. PICK f : Iterates(f, SearchK, V, 1, step)
  BY <1>1, <1>4, Iterated
<1>6. f \in [0..SearchK -> V] /\ f[0] = 1 /\ \A k \in 1..SearchK : f[k] = step[k][f[k - 1]]
  BY <1>a DEF Iterates
<1>7. \A k \in 1..SearchK : f[k - 1] \in V /\ f[k] = (RRFK + k) * f[k - 1]
  BY <1>1, <1>5, <1>6
<1>8. IsProduct(f)
  BY <1>1, <1>6, <1>7 DEF IsProduct
<1>9. IsProduct(p)
  BY <1>8
<1> HIDE DEF p
<1>10. p[0] = 1 /\ DOMAIN p = 0..SearchK /\ \A k \in 1..SearchK : p[k] = (RRFK + k) * p[k - 1]
  BY <1>1, <1>9 DEF IsProduct
<1>11. 0..SearchK \subseteq {k \in 0..SearchK : p[k] \in V}
  <2> DEFINE G == {k \in 0..SearchK : p[k] \in V}
  <2>1. 0 \in G
    BY <1>1, <1>4, <1>10
  <2>2. \A k \in 1..SearchK : k - 1 \in G => k \in G
    BY <1>1, <1>3, <1>10
  <2> HIDE DEF G
  <2>3. 0..SearchK \subseteq G
    BY <1>1, <2>1, <2>2, FirstNumbers
  <2> QED
    BY <2>3 DEF G
<1>12. p = [k \in 0..SearchK |-> p[k]]
  BY <1>9 DEF IsProduct
<1>13. p \in [0..SearchK -> V]
  BY <1>11, <1>12
<1> QED
  BY <1>2, <1>10, <1>13 DEF V

\* Each denominator divides it.
LEMMA UnitDivides ==
    /\ Unit \in Nat \ {0}
    /\ \A i \in 1..SearchK : \E q \in Nat \ {0} : Unit = (RRFK + i) * q
<1>1. SearchK \in Nat \ {0} /\ RRFK \in Nat
  BY RetrievalConstants
<1>2. PICK f \in [0..SearchK -> Nat \ {0}] :
        Unit = f[SearchK] /\ f[0] = 1 /\ \A n \in 1..SearchK : f[n] = (RRFK + n) * f[n - 1]
  BY UnitIsProduct
<1>3. ASSUME NEW i \in 1..SearchK PROVE \E q \in Nat \ {0} : Unit = (RRFK + i) * q
  <2> DEFINE G == {k \in 0..SearchK : k >= i => \E q \in Nat \ {0} : f[k] = (RRFK + i) * q}
  <2>1. 0 \in G
    BY <1>1
  <2>2. ASSUME NEW k \in 1..SearchK, k - 1 \in G PROVE k \in G
    <3> SUFFICES ASSUME k >= i PROVE \E q \in Nat \ {0} : f[k] = (RRFK + i) * q
      BY <1>1
    <3>1. k - 1 \in 0..SearchK /\ f[k] = (RRFK + k) * f[k - 1] /\ f[k - 1] \in Nat \ {0}
      BY <1>1, <1>2
    <3>2. CASE k = i
      BY <3>1, <3>2
    <3>3. CASE k # i
      <4>1. k - 1 >= i
        BY <1>1, <3>3
      <4>2. PICK q \in Nat \ {0} : f[k - 1] = (RRFK + i) * q
        BY <2>2, <4>1
      <4>3. (RRFK + k) * q \in Nat \ {0}
        <5>1. \A a, b \in Nat \ {0} : a * b \in Nat \ {0}
          OBVIOUS
        <5>2. RRFK + k \in Nat \ {0}
          BY <1>1
        <5> QED
          BY <5>1, <5>2
      <4>4. f[k] = (RRFK + i) * ((RRFK + k) * q)
        <5>1. \A a, b, c \in Nat : a * (b * c) = b * (a * c)
          OBVIOUS
        <5>2. RRFK + k \in Nat /\ RRFK + i \in Nat /\ q \in Nat
          BY <1>1
        <5> QED
          BY <3>1, <4>2, <5>1, <5>2
      <4> QED
        BY <4>3, <4>4
    <3> QED
      BY <3>2, <3>3
  <2> HIDE DEF G
  <2>3. 0..SearchK \subseteq G
    BY <1>1, <2>1, <2>2, FirstNumbers
  <2>4. SearchK \in G
    BY <1>1, <2>3
  <2> QED
    BY <1>1, <1>2, <2>4 DEF G
<1>4. Unit \in Nat \ {0}
  BY <1>1, <1>2
<1> QED
  BY <1>3, <1>4

\* A better rank has a greater share.
LEMMA SharesFall ==
    /\ \A i \in 1..SearchK : Unit \div (RRFK + i) \in Nat \ {0}
    /\ \A i, j \in 1..SearchK : i < j => Unit \div (RRFK + j) < Unit \div (RRFK + i)
<1>1. SearchK \in Nat \ {0} /\ RRFK \in Nat
  BY RetrievalConstants
<1>2. \A i \in 1..SearchK : \E q \in Nat \ {0} : Unit = (RRFK + i) * q /\ Unit \div (RRFK + i) = q
  <2> SUFFICES ASSUME NEW i \in 1..SearchK PROVE \E q \in Nat \ {0} : Unit = (RRFK + i) * q /\ Unit \div (RRFK + i) = q
    OBVIOUS
  <2>1. PICK q \in Nat \ {0} : Unit = (RRFK + i) * q
    BY UnitDivides
  <2>2. \A d, c \in Nat \ {0} : (d * c) \div d = c
    OBVIOUS
  <2>3. RRFK + i \in Nat \ {0}
    BY <1>1
  <2> QED
    BY <2>1, <2>2, <2>3
<1>3. ASSUME NEW i \in 1..SearchK, NEW j \in 1..SearchK, i < j
      PROVE  Unit \div (RRFK + j) < Unit \div (RRFK + i)
  <2>1. PICK q \in Nat \ {0} : Unit = (RRFK + i) * q /\ Unit \div (RRFK + i) = q
    BY <1>2
  <2>2. PICK r \in Nat \ {0} : Unit = (RRFK + j) * r /\ Unit \div (RRFK + j) = r
    BY <1>2
  <2>3. \A a, b, c, d \in Nat \ {0} : a * c = b * d /\ a < b => d < c
    OBVIOUS
  <2>4. RRFK + i \in Nat \ {0} /\ RRFK + j \in Nat \ {0} /\ RRFK + i < RRFK + j
    BY <1>1, <1>3
  <2> QED
    BY <2>1, <2>2, <2>3, <2>4
<1>4. \A i \in 1..SearchK : Unit \div (RRFK + i) \in Nat \ {0}
  BY <1>2
<1> QED
  BY <1>3, <1>4

IsSum(s, f) == f = [n \in 0..Len(s) |-> IF n = 0 THEN 0 ELSE s[n] + f[n - 1]]

\* A sum is built one number after the other.
LEMMA SumIsBuilt ==
    ASSUME NEW s \in Seq(Nat)
    PROVE  \E f \in [0..Len(s) -> Nat] : SumOf(s) = f[Len(s)] /\ f[0] = 0 /\ \A n \in 1..Len(s) : f[n] = s[n] + f[n - 1]
<1> DEFINE m == Len(s)
           step == [n \in 1..m |-> [v \in Nat |-> s[n] + v]]
           p == CHOOSE f : IsSum(s, f)
<1>1. m \in Nat /\ \A n \in 1..m : s[n] \in Nat
  BY Positions
<1>2. SumOf(s) = p[m]
  BY DEF SumOf, IsSum
<1>3. step \in [1..m -> [Nat -> Nat]]
  BY <1>1
<1>4. \A n \in 1..m, v \in Nat : step[n][v] = s[n] + v
  OBVIOUS
<1> HIDE DEF step
<1>5. PICK f : Iterates(f, m, Nat, 0, step)
  BY <1>1, <1>3, Iterated
<1>6. f \in [0..m -> Nat] /\ f[0] = 0 /\ \A k \in 1..m : f[k] = step[k][f[k - 1]]
  BY <1>5 DEF Iterates
<1>7. \A k \in 1..m : f[k - 1] \in Nat /\ f[k] = s[k] + f[k - 1]
  <2>1. \A k \in 1..m : k - 1 \in 0..m
    BY <1>1
  <2>2. \A k \in 1..m : f[k - 1] \in Nat
    BY <1>6, <2>1
  <2> QED
    BY <1>4, <1>6, <2>2
<1>8. IsSum(s, f)
  BY <1>1, <1>6, <1>7 DEF IsSum
<1>9. IsSum(s, p)
  BY <1>8
<1> HIDE DEF p
<1>10. p[0] = 0 /\ DOMAIN p = 0..m /\ \A k \in 1..m : p[k] = s[k] + p[k - 1]
  BY <1>1, <1>9 DEF IsSum
<1>11. 0..m \subseteq {k \in 0..m : p[k] \in Nat}
  <2> DEFINE G == {k \in 0..m : p[k] \in Nat}
  <2>1. 0 \in G
    BY <1>1, <1>10
  <2>2. \A k \in 1..m : k - 1 \in G => k \in G
    BY <1>1, <1>10
  <2> HIDE DEF G
  <2>3. 0..m \subseteq G
    BY <1>1, <2>1, <2>2, FirstNumbers
  <2> QED
    BY <2>3 DEF G
<1>12. p = [k \in 0..m |-> p[k]]
  BY <1>9 DEF IsSum
<1>13. p \in [0..m -> Nat]
  BY <1>11, <1>12
<1> QED
  BY <1>2, <1>10, <1>13

\* A sum with one term at most that is not 0 is that term.
LEMMA SumOfOne ==
    ASSUME NEW s \in Seq(Nat)
    PROVE  /\ SumOf(s) \in Nat
           /\ (\A i \in DOMAIN s : s[i] = 0) => SumOf(s) = 0
           /\ \A at \in DOMAIN s : (\A i \in DOMAIN s : i # at => s[i] = 0) => SumOf(s) = s[at]
<1>1. DOMAIN s = 1..Len(s) /\ Len(s) \in Nat /\ \A i \in DOMAIN s : s[i] \in Nat
  BY Positions
<1>2. PICK f \in [0..Len(s) -> Nat] : SumOf(s) = f[Len(s)] /\ f[0] = 0 /\ \A n \in 1..Len(s) : f[n] = s[n] + f[n - 1]
  BY SumIsBuilt
<1>3. SumOf(s) \in Nat
  BY <1>1, <1>2
<1>4. ASSUME \A i \in DOMAIN s : s[i] = 0 PROVE SumOf(s) = 0
  <2> DEFINE G == {k \in 0..Len(s) : f[k] = 0}
  <2>1. 0 \in G /\ \A k \in 1..Len(s) : k - 1 \in G => k \in G
    BY <1>1, <1>2, <1>4
  <2> HIDE DEF G
  <2>2. 0..Len(s) \subseteq G
    BY <1>1, <2>1, FirstNumbers
  <2> QED
    BY <1>1, <1>2, <2>2 DEF G
<1>5. ASSUME NEW at \in DOMAIN s, \A i \in DOMAIN s : i # at => s[i] = 0 PROVE SumOf(s) = s[at]
  <2> DEFINE G == {k \in 0..Len(s) : f[k] = IF k < at THEN 0 ELSE s[at]}
  <2>1. 0 \in G
    BY <1>1, <1>2
  <2>2. ASSUME NEW k \in 1..Len(s), k - 1 \in G PROVE k \in G
    <3>1. f[k] = s[k] + f[k - 1] /\ f[k - 1] = IF k - 1 < at THEN 0 ELSE s[at]
      BY <1>2, <2>2
    <3>2. s[at] \in Nat /\ at \in 1..Len(s)
      BY <1>1
    <3>3. CASE k < at
      <4>1. s[k] = 0
        BY <1>1, <1>5, <3>3
      <4> QED
        BY <1>1, <3>1, <3>3, <4>1
    <3>4. CASE k = at
      BY <1>1, <3>1, <3>2, <3>4
    <3>5. CASE k > at
      <4>1. s[k] = 0 /\ ~ (k - 1 < at) /\ ~ (k < at)
        BY <1>1, <1>5, <3>5
      <4> QED
        BY <1>1, <3>1, <3>2, <4>1
    <3> QED
      BY <1>1, <3>2, <3>3, <3>4, <3>5
  <2> HIDE DEF G
  <2>3. 0..Len(s) \subseteq G
    BY <1>1, <2>1, <2>2, FirstNumbers
  <2>4. Len(s) \in G /\ ~ (Len(s) < at)
    BY <1>1, <2>3
  <2> QED
    BY <1>2, <2>4 DEF G
<1> QED
  BY <1>3, <1>4, <1>5

\* What a rank is worth; a text that is not ranked is worth nothing.
Share(i) == IF i <= SearchK THEN Unit \div (RRFK + i) ELSE 0
Pos(s, t) == IF t \in Range(s) THEN CHOOSE i \in DOMAIN s : s[i] = t ELSE SearchK + 1

\* A better rank is worth more.
LEMMA SharesOrdered ==
    \A i, j \in 1..(SearchK + 1) : Share(i) \in Nat /\ (i < j => Share(j) < Share(i))
<1>1. SearchK \in Nat \ {0}
  BY RetrievalConstants
<1>2. \A i \in 1..(SearchK + 1) : i <= SearchK => i \in 1..SearchK /\ Share(i) = Unit \div (RRFK + i) /\ Share(i) \in Nat \ {0}
  BY <1>1, SharesFall DEF Share
<1>3. \A i \in 1..(SearchK + 1) : ~ (i <= SearchK) => i = SearchK + 1 /\ Share(i) = 0
  BY <1>1 DEF Share
<1> QED
  BY <1>1, <1>2, <1>3, SharesFall

\* The weight of a text is a number, and follows its rank when there is one.
LEMMA WeighedIs ==
    ASSUME NEW s \in Seq(Text), Len(s) <= SearchK, NEW t, NEW w \in Nat
    PROVE  /\ Weighed(s, t, w) \in Nat
           /\ IsInjective(s) => Pos(s, t) \in 1..(SearchK + 1) /\ Weighed(s, t, w) = w * Share(Pos(s, t))
<1> DEFINE g == [i \in DOMAIN s |-> IF s[i] = t THEN w * (Unit \div (RRFK + i)) ELSE 0]
<1>1. DOMAIN s = 1..Len(s) /\ Len(s) \in Nat /\ SearchK \in Nat \ {0} /\ DOMAIN s \subseteq 1..SearchK
  BY Positions, RetrievalConstants
<1>2. \A i \in DOMAIN s : w * (Unit \div (RRFK + i)) \in Nat
  <2>1. \A a, b \in Nat : a * b \in Nat
    OBVIOUS
  <2> QED
    BY <1>1, <2>1, SharesFall
<1>3. g \in [1..Len(s) -> Nat] /\ Weighed(s, t, w) = SumOf(g)
  BY <1>1, <1>2 DEF Weighed
<1>4. \A i \in DOMAIN s : g[i] = IF s[i] = t THEN w * (Unit \div (RRFK + i)) ELSE 0
  OBVIOUS
<1> HIDE DEF g
<1>5. g \in Seq(Nat) /\ DOMAIN g = DOMAIN s
  BY <1>1, <1>3, FunctionIsSeq
<1>6. SumOf(g) \in Nat
  BY <1>5, SumOfOne
<1>7. ASSUME IsInjective(s) PROVE Pos(s, t) \in 1..(SearchK + 1) /\ SumOf(g) = w * Share(Pos(s, t))
  <2>1. CASE t \in Range(s)
    <3> DEFINE at == CHOOSE i \in DOMAIN s : s[i] = t
    <3>1. at \in DOMAIN s /\ s[at] = t
      BY <2>1, Positions
    <3>2. Pos(s, t) = at
      BY <2>1 DEF Pos
    <3> HIDE DEF at
    <3>3. \A i \in DOMAIN s : i # at => g[i] = 0
      BY <1>4, <1>7, <3>1 DEF IsInjective
    <3>4. SumOf(g) = g[at]
      BY <1>5, <3>1, <3>3, SumOfOne
    <3>5. g[at] = w * Share(at) /\ at \in 1..(SearchK + 1)
      BY <1>1, <1>4, <3>1 DEF Share
    <3> QED
      BY <3>2, <3>4, <3>5
  <2>2. CASE t \notin Range(s)
    <3>1. Pos(s, t) = SearchK + 1 /\ Share(Pos(s, t)) = 0
      BY <1>1, <2>2 DEF Pos, Share
    <3>2. \A i \in DOMAIN g : g[i] = 0
      BY <1>4, <1>5, <2>2, Positions
    <3>3. SumOf(g) = 0
      BY <1>5, <3>2, SumOfOne
    <3> QED
      BY <1>1, <3>1, <3>3
  <2> QED
    BY <2>1, <2>2
<1> QED
  BY <1>3, <1>6, <1>7

\* What is ahead in a sorted sequence has no greater key.
LEMMA SortedByOrders ==
    ASSUME NEW S, NEW s \in Seq(S), NEW key \in [DOMAIN s -> Int]
    PROVE  \A k, l \in DOMAIN SortedBy(s, key) : k < l =>
             \E i, j \in DOMAIN s : SortedBy(s, key)[k] = s[i] /\ SortedBy(s, key)[l] = s[j] /\ key[i] <= key[j]
<1>1. DOMAIN s = 1..Len(s) /\ Len(s) \in Nat
  BY Positions
<1>2. IsFiniteSet(DOMAIN s) /\ DOMAIN s \subseteq Int
  BY <1>1, CountTo
<1>3. PICK at : Orders(DOMAIN s, key, at) /\ SortedBy(s, key) = [k \in 1..Cardinality(DOMAIN s) |-> s[at[k]]]
  BY <1>2, SortedByIs
<1>4. /\ \A k \in 1..Cardinality(DOMAIN s) : at[k] \in DOMAIN s /\ key[at[k]] \in Int
      /\ \A k, l \in 1..Cardinality(DOMAIN s) :
           k < l => key[at[k]] < key[at[l]] \/ (key[at[k]] = key[at[l]] /\ at[k] < at[l])
  BY <1>3 DEF Orders
<1>5. /\ DOMAIN SortedBy(s, key) = 1..Cardinality(DOMAIN s)
      /\ \A k \in DOMAIN SortedBy(s, key) : SortedBy(s, key)[k] = s[at[k]]
  BY <1>3
<1> SUFFICES ASSUME NEW k \in DOMAIN SortedBy(s, key), NEW l \in DOMAIN SortedBy(s, key), k < l
             PROVE  \E i, j \in DOMAIN s : SortedBy(s, key)[k] = s[i] /\ SortedBy(s, key)[l] = s[j] /\ key[i] <= key[j]
  OBVIOUS
<1>6. key[at[k]] <= key[at[l]]
  BY <1>4, <1>5
<1> QED
  BY <1>4, <1>5, <1>6

\* A fusion holds texts of its rankings, and of two of them the one with the
\* greater score is ahead.
LEMMA FusedOrders ==
    ASSUME NEW sem \in Seq(Text), NEW words \in Seq(Text), Len(sem) <= SearchK, Len(words) <= SearchK
    PROVE  /\ Fused(sem, words) \in Seq(Text)
           /\ Range(Fused(sem, words)) \subseteq Range(sem) \cup Range(words)
           /\ \A t : Score(sem, words, t) \in Nat
           /\ \A k, l \in DOMAIN Fused(sem, words) :
                Score(sem, words, Fused(sem, words)[l]) < Score(sem, words, Fused(sem, words)[k]) => k < l
<1> DEFINE both == sem \o words
           all == Distinct(both)
           key == [i \in DOMAIN all |-> -Score(sem, words, all[i])]
           sorted == SortedBy(all, key)
           fused == Top(sorted, SearchK)
<1>1. SearchK \in Nat
  BY RetrievalConstants
<1>2. \A t : Score(sem, words, t) \in Nat
  <2> SUFFICES ASSUME NEW t PROVE Score(sem, words, t) \in Nat
    OBVIOUS
  <2>1. Weighed(sem, t, 13) \in Nat /\ Weighed(words, t, 7) \in Nat
    BY WeighedIs
  <2> QED
    BY <2>1 DEF Score
<1>3. both \in Seq(Text) /\ Range(both) = Range(sem) \cup Range(words)
  BY ConcatProperties, RangeConcatenation
<1>4. Fused(sem, words) = fused
  BY DEF Fused
<1> HIDE DEF both
<1>5. all \in Seq(Text) /\ Range(all) \subseteq Range(both)
  <2> DEFINE I == {i \in DOMAIN both : \A j \in 1..(i - 1) : both[j] # both[i]}
  <2>1. I \subseteq DOMAIN both /\ all = Sublist(both, I)
    BY DEF Distinct
  <2> HIDE DEF I, all
  <2>2. Sublist(both, I) \in Seq(Text) /\ \A x : x \in Range(Sublist(both, I)) <=> \E i \in I : both[i] = x
    BY <1>3, <2>1, SublistHolds
  <2>3. \A i \in I : both[i] \in Range(both)
    BY <1>3, <2>1, Positions
  <2> QED
    BY <2>1, <2>2, <2>3
<1> HIDE DEF all
<1>6. key \in [DOMAIN all -> Int]
  <2>1. \A t : -Score(sem, words, t) \in Int
    BY <1>2
  <2> QED
    BY <2>1
<1>7. \A i \in DOMAIN all : key[i] = -Score(sem, words, all[i])
  OBVIOUS
<1> HIDE DEF key
<1>8. sorted \in Seq(Text) /\ \A x : x \in Range(sorted) <=> \E i \in DOMAIN all : all[i] = x
  BY <1>5, <1>6, SortedByHolds
<1>9. \A k, l \in DOMAIN sorted : k < l => \E i, j \in DOMAIN all : sorted[k] = all[i] /\ sorted[l] = all[j] /\ key[i] <= key[j]
  BY <1>5, <1>6, SortedByOrders
<1>10. \A k, l \in DOMAIN sorted : k < l => -Score(sem, words, sorted[k]) <= -Score(sem, words, sorted[l])
  BY <1>7, <1>9
<1>11. Range(sorted) \subseteq Range(all)
  BY <1>5, <1>8, Positions
<1> HIDE DEF sorted
<1>12. /\ fused \in Seq(Text) /\ Range(fused) \subseteq Range(sorted)
       /\ \A i \in DOMAIN fused : i \in DOMAIN sorted /\ fused[i] = sorted[i]
  BY <1>1, <1>8, TopIs
<1> HIDE DEF fused
<1>13. DOMAIN fused \subseteq Nat
  BY <1>12, Positions
<1>14. \A k, l \in DOMAIN fused : Score(sem, words, fused[l]) < Score(sem, words, fused[k]) => k < l
  <2> SUFFICES ASSUME NEW k \in DOMAIN fused, NEW l \in DOMAIN fused,
                      Score(sem, words, fused[l]) < Score(sem, words, fused[k])
               PROVE  k < l
    OBVIOUS
  <2>1. Score(sem, words, fused[k]) \in Nat /\ Score(sem, words, fused[l]) \in Nat
    BY <1>2
  <2>2. k # l
    BY <2>1
  <2>3. ~ (l < k)
    <3> SUFFICES ASSUME l < k PROVE FALSE
      OBVIOUS
    <3>1. -Score(sem, words, fused[l]) <= -Score(sem, words, fused[k])
      BY <1>10, <1>12
    <3> QED
      BY <2>1, <3>1
  <2> QED
    BY <1>13, <2>2, <2>3
<1> QED
  BY <1>2, <1>3, <1>4, <1>5, <1>11, <1>12, <1>14

\* A text that is ahead in one ranking and not behind in the other has the
\* greater score.
LEMMA AheadScoresMore ==
    ASSUME NEW sem \in Seq(Text), NEW words \in Seq(Text), Len(sem) <= SearchK, Len(words) <= SearchK,
           IsInjective(sem), IsInjective(words), NEW a, NEW b,
           \/ Pos(sem, a) < Pos(sem, b) /\ ~ (Pos(words, b) < Pos(words, a))
           \/ Pos(words, a) < Pos(words, b) /\ ~ (Pos(sem, b) < Pos(sem, a))
    PROVE  Score(sem, words, b) < Score(sem, words, a)
<1>1. \A t : Pos(sem, t) \in 1..(SearchK + 1) /\ Weighed(sem, t, 13) = 13 * Share(Pos(sem, t))
  BY WeighedIs
<1>2. \A t : Pos(words, t) \in 1..(SearchK + 1) /\ Weighed(words, t, 7) = 7 * Share(Pos(words, t))
  BY WeighedIs
<1>3. SearchK \in Nat
  BY RetrievalConstants
<1>4. /\ Share(Pos(sem, a)) \in Nat /\ Share(Pos(sem, b)) \in Nat
      /\ Share(Pos(words, a)) \in Nat /\ Share(Pos(words, b)) \in Nat
  BY <1>1, <1>2, SharesOrdered
<1>5. /\ Score(sem, words, a) = 13 * Share(Pos(sem, a)) + 7 * Share(Pos(words, a))
      /\ Score(sem, words, b) = 13 * Share(Pos(sem, b)) + 7 * Share(Pos(words, b))
  BY <1>1, <1>2 DEF Score
<1>6. /\ Pos(sem, a) < Pos(sem, b) => Share(Pos(sem, b)) < Share(Pos(sem, a))
      /\ Pos(words, a) < Pos(words, b) => Share(Pos(words, b)) < Share(Pos(words, a))
  BY <1>1, <1>2, SharesOrdered
<1>7. /\ ~ (Pos(sem, b) < Pos(sem, a)) => Share(Pos(sem, b)) <= Share(Pos(sem, a))
      /\ ~ (Pos(words, b) < Pos(words, a)) => Share(Pos(words, b)) <= Share(Pos(words, a))
  <2>1. ~ (Pos(sem, b) < Pos(sem, a)) => Pos(sem, a) = Pos(sem, b) \/ Pos(sem, a) < Pos(sem, b)
    BY <1>1, <1>3
  <2>2. ~ (Pos(words, b) < Pos(words, a)) => Pos(words, a) = Pos(words, b) \/ Pos(words, a) < Pos(words, b)
    BY <1>2, <1>3
  <2> QED
    BY <1>4, <1>6, <2>1, <2>2
<1> QED
  BY <1>4, <1>5, <1>6, <1>7

\* What was fused is fair.
LEMMA FusedIsFair ==
    ASSUME FusionInv, req.words \in Seq(Text)
    PROVE  FusionIsFair
<1> DEFINE Ahead(s, a, b) == Pos(s, a) < Pos(s, b)
<1>1. FusionIsFair <=>
        (req.pc = "encode" /\ req.sem # None /\ IsInjective(req.sem) /\ IsInjective(req.words) =>
           \A a, b \in Range(req.chunks) :
             (Ahead(req.sem, a, b) /\ ~ Ahead(req.words, b, a)) \/ (Ahead(req.words, a, b) /\ ~ Ahead(req.sem, b, a))
               => Ahead(req.chunks, a, b))
  BY DEF FusionIsFair, Pos
<1>2. SUFFICES ASSUME req.pc = "encode", req.sem # None, IsInjective(req.sem), IsInjective(req.words),
                      NEW a \in Range(req.chunks), NEW b \in Range(req.chunks),
                      \/ Ahead(req.sem, a, b) /\ ~ Ahead(req.words, b, a)
                      \/ Ahead(req.words, a, b) /\ ~ Ahead(req.sem, b, a)
               PROVE  Ahead(req.chunks, a, b)
  <2> HIDE DEF Ahead
  <2> QED
    BY <1>1, Zenon
<1> DEFINE sem == req.sem
           words == req.words
<1>3. sem \in Seq(Text) /\ words \in Seq(Text) /\ Len(sem) <= SearchK /\ Len(words) <= SearchK /\ req.chunks = Fused(sem, words)
  BY <1>2 DEF FusionInv
<1>4. Score(sem, words, b) < Score(sem, words, a)
  <2>1. IsInjective(sem) /\ IsInjective(words)
    BY <1>2
  <2>2. \/ Pos(sem, a) < Pos(sem, b) /\ ~ (Pos(words, b) < Pos(words, a))
        \/ Pos(words, a) < Pos(words, b) /\ ~ (Pos(sem, b) < Pos(sem, a))
    BY <1>2
  <2> HIDE DEF sem, words
  <2> QED
    BY <1>3, <2>1, <2>2, AheadScoresMore
<1> DEFINE fused == Fused(sem, words)
<1>5. a \in Range(fused) /\ b \in Range(fused) /\ Pos(req.chunks, a) = Pos(fused, a) /\ Pos(req.chunks, b) = Pos(fused, b)
  BY <1>2, <1>3
<1> HIDE DEF sem, words
<1>6. fused \in Seq(Text) /\ \A k, l \in DOMAIN fused : Score(sem, words, fused[l]) < Score(sem, words, fused[k]) => k < l
  BY <1>3, FusedOrders
<1> HIDE DEF fused
<1>7. \A t \in Range(fused) : Pos(fused, t) \in DOMAIN fused /\ fused[Pos(fused, t)] = t
  BY <1>6, Positions DEF Pos
<1>8. Pos(fused, a) < Pos(fused, b)
  BY <1>4, <1>5, <1>6, <1>7
<1> QED
  BY <1>5, <1>8

-----------------------------------------------------------------------------
(* Requests *)

\* A request goes to another step, with what that step found.
LEMMA WithPc ==
    ASSUME NEW r \in Request, NEW pc \in Active
    PROVE  [r EXCEPT !.pc = pc] \in Request
  BY ZenonT(60) DEF Request

\* ... with the calls of the API counted anew.
LEMMA WithStep ==
    ASSUME NEW r \in Request, NEW pc \in Active, NEW tries \in 0..Attempts
    PROVE  [r EXCEPT !.pc = pc, !.tries = tries] \in Request
  BY ZenonT(60) DEF Request

\* ... or one more.
LEMMA WithTries ==
    ASSUME NEW r \in Request, NEW tries \in 0..Attempts
    PROVE  [r EXCEPT !.tries = tries] \in Request
  BY ZenonT(60) DEF Request

\* ... with the ranking by meaning.
LEMMA WithSem ==
    ASSUME NEW r \in Request, NEW pc \in Active, NEW sem \in Seq(Text)
    PROVE  [r EXCEPT !.pc = pc, !.sem = sem] \in Request
  BY ZenonT(60) DEF Request

\* ... with the ranking by words and the fusion.
LEMMA WithWords ==
    ASSUME NEW r \in Request, NEW pc \in Active, NEW words \in Seq(Text), NEW chunks \in Seq(Text)
    PROVE  [r EXCEPT !.pc = pc, !.words = words, !.chunks = chunks] \in Request
  BY ZenonT(60) DEF Request

\* ... with citations.
LEMMA WithCited ==
    ASSUME NEW r \in Request, NEW pc \in Active, NEW sources \in Seq(Cites), NEW context \in Seq(Cites)
    PROVE  [r EXCEPT !.pc = pc, !.sources = sources, !.context = context] \in Request
  BY ZenonT(60) DEF Request

\* ... with the documents to read.
LEMMA WithList ==
    ASSUME NEW r \in Request, NEW pc \in Active, NEW left \in Seq(Document), NEW read \in Seq(Passage), NEW sections \in Seq(Cites)
    PROVE  [r EXCEPT !.pc = pc, !.left = left, !.read = read, !.sections = sections] \in Request
  BY ZenonT(60) DEF Request

\* ... with one read.
LEMMA WithRead ==
    ASSUME NEW r \in Request, NEW left \in Seq(Document), NEW read \in Seq(Passage), NEW sections \in Seq(Cites)
    PROVE  [r EXCEPT !.left = left, !.read = read, !.sections = sections] \in Request
  BY ZenonT(60) DEF Request

\* ... with one skipped.
LEMMA WithLeft ==
    ASSUME NEW r \in Request, NEW left \in Seq(Document)
    PROVE  [r EXCEPT !.left = left] \in Request
  BY ZenonT(60) DEF Request

\* A request without a question.
AtRest(pc, provider, tries, each, out, context, sources, names, empty) ==
    [pc |-> pc, kind |-> "plain", each |-> each, session |-> None, at |-> None, taste |-> None,
     provider |-> provider, tries |-> tries, sem |-> None, words |-> empty, chunks |-> empty, left |-> empty,
     read |-> empty, sections |-> empty, context |-> context, sources |-> sources, names |-> names, out |-> out]
Rests(r, pc, each, out, context, sources, names, empty) ==
    /\ r \in Request /\ r.pc = pc /\ r.session = None /\ r.at = None /\ r.sem = None /\ r.chunks = empty
    /\ r.left = empty /\ r.read = empty /\ r.sections = empty /\ r.each = each /\ r.out = out
    /\ r.context = context /\ r.sources = sources /\ r.names = names

\* ... is one.
LEMMA AtRestIs ==
    ASSUME NEW pc \in {"graph", "idle"}, NEW provider \in Providers, NEW each \in BOOLEAN, NEW out \in {"none", "answer", "error"},
           NEW context \in Seq(Cites), NEW sources \in Seq(Cites), NEW names \in SUBSET Document, NEW tries \in 0..Attempts,
           NEW empty, empty \in Seq(Text), empty \in Seq(Document), empty \in Seq(Passage), empty \in Seq(Cites)
    PROVE  Rests(AtRest(pc, provider, tries, each, out, context, sources, names, empty),
                 pc, each, out, context, sources, names, empty)
<1> DEFINE r == AtRest(pc, provider, tries, each, out, context, sources, names, empty)
<1>1. /\ pc \in Active \cup {"graph", "idle"} /\ "plain" \in Kinds /\ None \in Session \cup {None} /\ None \in Place \cup {None}
      /\ None \in Taste \cup {None} /\ None \in Seq(Text) \cup {None}
  BY DEF Kinds
<1>2. r \in Request
  BY <1>1, ZenonT(60) DEF Request, AtRest
<1>3. /\ r.pc = pc /\ r.session = None /\ r.at = None /\ r.sem = None /\ r.chunks = empty
      /\ r.left = empty /\ r.read = empty /\ r.sections = empty /\ r.each = each /\ r.out = out
      /\ r.context = context /\ r.sources = sources /\ r.names = names
  BY DEF AtRest
<1> QED
  BY <1>2, <1>3, Zenon DEF Rests

\* The blank request.
Cleared(pc, provider, each, out, context, sources, names) ==
    [Blank EXCEPT !.provider = provider, !.each = each, !.pc = pc,
                  !.context = context, !.sources = sources, !.names = names, !.out = out]
LEMMA BlankIs ==
    ASSUME NEW pc \in {"graph", "idle"}, NEW provider \in Providers, NEW each \in BOOLEAN, NEW out \in {"none", "answer", "error"},
           NEW context \in Seq(Cites), NEW sources \in Seq(Cites), NEW names \in SUBSET Document
    PROVE  Rests(Cleared(pc, provider, each, out, context, sources, names), pc, each, out, context, sources, names, <<>>)
<1>1. Cleared(pc, provider, each, out, context, sources, names)
        = AtRest(pc, provider, 0, each, out, context, sources, names, <<>>)
  <2> SUFFICES ASSUME NEW r, r = Cleared(pc, provider, each, out, context, sources, names)
               PROVE  r = AtRest(pc, provider, 0, each, out, context, sources, names, <<>>)
    OBVIOUS
  <2> QED
    BY DEF Cleared, Blank, AtRest
<1>2. /\ 0 \in 0..Attempts /\ <<>> \in Seq(Text) /\ <<>> \in Seq(Document) /\ <<>> \in Seq(Passage) /\ <<>> \in Seq(Cites)
  BY EmptySeq, RetrievalConstants
<1>3. Rests(AtRest(pc, provider, 0, each, out, context, sources, names, <<>>), pc, each, out, context, sources, names, <<>>)
  BY <1>2, AtRestIs
<1> QED
  BY <1>1, <1>3

\* The request has found what it shows, or is over.
LEMMA HasKeeps ==
    ASSUME RetrievalInv, NEW pc \in {"graph", "idle"}, NEW out \in {"none", "answer", "error"}, pc = "graph" <=> out = "none",
           NEW context \in Seq(Cites), NEW sources \in Seq(Cites), NEW names \in SUBSET Document,
           Has(pc, context, sources, names, out), StoreInv', seen' = seen,
           \A b \in Range(context) \cup Range(sources) : SeenCite(b),
           calm' => out # "error" /\ context # <<>>
    PROVE  RetrievalInv'
<1>1. req \in Request /\ req.provider \in Providers /\ req.each \in BOOLEAN
  BY DEF RetrievalInv, Request
<1>2. req' = Cleared(pc, req.provider, req.each, out, context, sources, names)
  BY DEF Has, Cleared
<1>3. /\ req' \in Request /\ req'.pc = pc /\ req'.session = None /\ req'.at = None /\ req'.sem = None /\ req'.chunks = <<>>
      /\ req'.left = <<>> /\ req'.read = <<>> /\ req'.sections = <<>> /\ req'.each = req.each /\ req'.out = out
      /\ req'.context = context /\ req'.sources = sources
  <2>1. Rests(req', pc, req.each, out, context, sources, names, <<>>)
    <3> DEFINE Is(r) == Rests(r, pc, req.each, out, context, sources, names, <<>>)
    <3>1. Is(Cleared(pc, req.provider, req.each, out, context, sources, names))
      BY <1>1, BlankIs
    <3> HIDE DEF Is
    <3>2. Is(req')
      BY <1>2, <3>1
    <3> QED
      BY <3>2 DEF Is
  <2> QED
    BY <2>1, Zenon DEF Rests
<1>4. Range(<<>>) = {}
  BY DEF Range
<1>5. Fits'
  BY <1>3, <1>4 DEF Fits, Active
<1>6. \A b : SeenCite(b) => SeenCite(b)'
  BY <1>3 DEF SeenCite
<1>7. SeenInv'
  BY <1>3, <1>4, <1>6 DEF SeenInv, Active
<1>8. CalmInv'
  BY <1>3 DEF CalmInv, Active
<1>9. FusionInv'
  BY <1>3 DEF FusionInv
<1> QED
  BY <1>3, <1>5, <1>7, <1>8, <1>9 DEF RetrievalInv

\* What the answer shows is found.
LEMMA AnswersKeeps ==
    ASSUME RetrievalInv, NEW context \in Seq(Cites), NEW sources \in Seq(Cites), Answers(context, sources), StoreInv', seen' = seen,
           \A b \in Range(context) \cup Range(sources) : SeenCite(b), calm' => context # <<>>
    PROVE  RetrievalInv'
<1>1. Has("graph", context, sources, {}, "none") /\ {} \in SUBSET Document
  BY DEF Answers
<1> QED
  BY <1>1, HasKeeps

-----------------------------------------------------------------------------
(* Steps that leave the store as it is *)

\* What a request says of the store holds while both stay.
LEMMA StoreStays ==
    ASSUME StoreInv, Quiet
    PROVE  StoreInv'
  BY DEF StoreInv, Quiet, Sound, Chunks

\* The question is encoded.
LEMMA EncodedKeeps ==
    ASSUME RetrievalInv, Encoded
    PROVE  RetrievalInv'
<1>1. /\ StoreInv /\ req \in Request /\ Fits /\ SeenInv /\ CalmInv /\ FusionInv
      /\ req.pc = "encode" /\ req' = [req EXCEPT !.pc = AfterEncode, !.tries = 0] /\ Quiet
  BY DEF RetrievalInv, Encoded, At
<1>2. AfterEncode \in {"search", "cite"} /\ (AfterEncode = "search" <=> req.sem = None)
  BY DEF AfterEncode
<1> HIDE DEF AfterEncode
<1>3. 0 \in 0..Attempts /\ AfterEncode \in Active
  BY <1>2, RetrievalConstants DEF Active
<1>4. req' \in Request
  BY <1>1, <1>3, WithStep
<1>5. /\ req'.pc = AfterEncode /\ req'.kind = req.kind /\ req'.each = req.each /\ req'.session = req.session
      /\ req'.at = req.at /\ req'.taste = req.taste /\ req'.sem = req.sem /\ req'.words = req.words
      /\ req'.chunks = req.chunks /\ req'.left = req.left /\ req'.read = req.read /\ req'.sections = req.sections
      /\ req'.context = req.context /\ req'.sources = req.sources /\ req'.out = req.out
  BY <1>1 DEF Request
<1>6. StoreInv'
  BY <1>1, StoreStays
<1>7. Fits'
  BY <1>1, <1>2, <1>5 DEF Fits, Active
<1>8. SeenInv'
  BY <1>1, <1>2, <1>5 DEF SeenInv, Active, Quiet, Allowed, SeenText, SeenPassage, SeenCite
<1>9. CalmInv'
  BY <1>1, <1>2, <1>5 DEF CalmInv, Active, Quiet, Fits, BuildFilter
<1>10. FusionInv'
  BY <1>2, <1>5 DEF FusionInv
<1> QED
  BY <1>4, <1>6, <1>7, <1>8, <1>9, <1>10 DEF RetrievalInv

\* The chunks of the scope, as the store lists them.
LEMMA ScopedHolds ==
    ASSUME StoreInv
    PROVE  /\ Scoped \in Seq(Chunks)
           /\ \A e : e \in Range(Scoped) <=> e \in Range(index) /\ BuildFilter(e, req.session, req.at)
           /\ ((\E e \in Range(index) : BuildFilter(e, req.session, req.at)) => Scoped # <<>>)
<1> DEFINE I == {i \in DOMAIN index : BuildFilter(index[i], req.session, req.at)}
<1>1. index \in Seq(Chunks) /\ I \subseteq DOMAIN index /\ Scoped = Sublist(index, I)
  BY DEF StoreInv, Scoped
<1>2. \A e : e \in Range(index) <=> \E i \in DOMAIN index : index[i] = e
  BY <1>1, Positions
<1>3. \A i : i \in I <=> i \in DOMAIN index /\ BuildFilter(index[i], req.session, req.at)
  OBVIOUS
<1> HIDE DEF I
<1>4. /\ Sublist(index, I) \in Seq(Chunks) /\ \A x : x \in Range(Sublist(index, I)) <=> \E i \in I : index[i] = x
  BY <1>1, SublistHolds
<1>5. \A e : e \in Range(Scoped) <=> e \in Range(index) /\ BuildFilter(e, req.session, req.at)
  BY <1>1, <1>2, <1>3, <1>4
<1>6. Scoped = <<>> => Range(Scoped) = {}
  BY DEF Range
<1> QED
  BY <1>1, <1>4, <1>5, <1>6

\* What a search of the scope finds.
LEMMA SearchFinds ==
    ASSUME StoreInv, req.taste \in Taste, NEW k \in Nat \ {0}
    PROVE  /\ SemanticSearch(k) \in Seq(Chunks) /\ Range(SemanticSearch(k)) \subseteq Range(Scoped)
           /\ Len(SemanticSearch(k)) <= k /\ (Scoped # <<>> => SemanticSearch(k) # <<>>)
<1> DEFINE vecs == [i \in DOMAIN Scoped |-> Scoped[i].vec]
           r == Ranked(Scoped, vecs, req.taste.sem)
<1>1. Scoped \in Seq(Chunks) /\ \A i \in DOMAIN Scoped : Scoped[i] \in Chunks
  BY ScopedHolds, Positions
<1>2. vecs \in [DOMAIN Scoped -> Text] /\ req.taste.sem \in [Text -> Nat]
  BY <1>1, RetrievalConstants DEF Chunks
<1> HIDE DEF vecs
<1>3. r \in Seq(Chunks) /\ Len(r) = Len(Scoped) /\ Range(r) = Range(Scoped) /\ (r = <<>> <=> Scoped = <<>>)
  BY <1>1, <1>2, RankedHolds
<1>4. SemanticSearch(k) = Top(r, k)
  BY DEF SemanticSearch, vecs
<1> HIDE DEF r
<1>5. /\ Top(r, k) \in Seq(Chunks) /\ Range(Top(r, k)) \subseteq Range(r) /\ (r # <<>> => Top(r, k) # <<>>)
      /\ Len(Top(r, k)) = (IF k < Len(r) THEN k ELSE Len(r)) /\ Len(r) \in Nat
  BY <1>3, TopIs, Positions
<1> QED
  BY <1>3, <1>4, <1>5

\* ... by words.
LEMMA Bm25Finds ==
    ASSUME StoreInv, req.taste \in Taste
    PROVE  Bm25Search \in Seq(Chunks) /\ Range(Bm25Search) \subseteq Range(Scoped) /\ Len(Bm25Search) <= SearchK
<1> DEFINE r == Ranked(Scoped, Texts(Scoped), req.taste.words)
<1>1. Scoped \in Seq(Chunks) /\ \A e \in Chunks : e.text \in Text
  BY ScopedHolds DEF Chunks
<1>2. Texts(Scoped) \in Seq(Text) /\ DOMAIN Texts(Scoped) = DOMAIN Scoped
  BY <1>1, TextsHold
<1>3. Texts(Scoped) \in [DOMAIN Scoped -> Text] /\ req.taste.words \in [Text -> Nat] /\ SearchK \in Nat
  BY <1>2, Positions, RetrievalConstants
<1>4. r \in Seq(Chunks) /\ Len(r) = Len(Scoped) /\ Range(r) = Range(Scoped)
  BY <1>1, <1>3, RankedHolds
<1>5. Bm25Search = Top(r, SearchK)
  BY DEF Bm25Search
<1> HIDE DEF r
<1>6. /\ Top(r, SearchK) \in Seq(Chunks) /\ Range(Top(r, SearchK)) \subseteq Range(r)
      /\ Len(Top(r, SearchK)) = (IF SearchK < Len(r) THEN SearchK ELSE Len(r)) /\ Len(r) \in Nat
  BY <1>3, <1>4, TopIs, Positions
<1> QED
  BY <1>3, <1>4, <1>5, <1>6

\* A chunk of the scope has been seen, with its text.
LEMMA ScopeIsSeen ==
    ASSUME StoreInv, SeenInv, req.pc \in Active, NEW e \in Range(index), BuildFilter(e, req.session, req.at)
    PROVE  /\ [doc |-> e.doc, n |-> e.n] \in seen /\ Body[e.doc][e.n] = e.text
           /\ SeenText(e.text) /\ \A b : b.doc = e.doc /\ b.n = e.n /\ b.text = e.text => SeenPassage(b) /\ SeenCite(b)
<1>1. [doc |-> e.doc, n |-> e.n] \in seen
  BY DEF SeenInv, Allowed, BuildFilter
<1>2. Body[e.doc][e.n] = e.text
  BY DEF StoreInv, Sound
<1>3. SeenText(e.text)
  BY <1>1, <1>2 DEF SeenText
<1>4. \A b : b.doc = e.doc /\ b.n = e.n /\ b.text = e.text => SeenPassage(b) /\ SeenCite(b)
  BY <1>1, <1>2 DEF SeenPassage, SeenCite
<1> QED
  BY <1>1, <1>2, <1>3, <1>4

\* The search by meaning.
LEMMA SearchKeeps ==
    ASSUME RetrievalInv, Search
    PROVE  RetrievalInv'
<1> DEFINE sem == Texts(SemanticSearch(SearchK))
<1>1. /\ StoreInv /\ req \in Request /\ Fits /\ SeenInv /\ CalmInv /\ FusionInv
      /\ req.pc = "search" /\ req' = [req EXCEPT !.pc = "words", !.sem = sem] /\ Quiet
  BY DEF RetrievalInv, Search, At
<1>2. req.taste \in Taste /\ req.pc \in Active /\ "words" \in Active /\ SearchK \in Nat \ {0}
  BY <1>1, RetrievalConstants DEF Fits, Active
<1>3. /\ SemanticSearch(SearchK) \in Seq(Chunks) /\ Range(SemanticSearch(SearchK)) \subseteq Range(Scoped)
      /\ Len(SemanticSearch(SearchK)) <= SearchK
  BY <1>1, <1>2, SearchFinds
<1>4. /\ sem \in Seq(Text) /\ Len(sem) = Len(SemanticSearch(SearchK))
      /\ \A t : t \in Range(sem) <=> \E e \in Range(SemanticSearch(SearchK)) : e.text = t
  <2>1. \A e \in Chunks : e.text \in Text
    BY DEF Chunks
  <2> QED
    BY <1>3, <2>1, TextsHold
<1>5. \A t \in Range(sem) : SeenText(t)
  <2> SUFFICES ASSUME NEW t \in Range(sem) PROVE SeenText(t)
    OBVIOUS
  <2>1. PICK e \in Range(index) : BuildFilter(e, req.session, req.at) /\ e.text = t
    BY <1>1, <1>3, <1>4, ScopedHolds
  <2> QED
    BY <1>1, <1>2, <2>1, ScopeIsSeen
<1> HIDE DEF sem
<1>6. req' \in Request
  BY <1>1, <1>2, <1>4, WithSem
<1>7. /\ req'.pc = "words" /\ req'.kind = req.kind /\ req'.each = req.each /\ req'.session = req.session
      /\ req'.at = req.at /\ req'.taste = req.taste /\ req'.sem = sem /\ req'.words = req.words
      /\ req'.chunks = req.chunks /\ req'.left = req.left /\ req'.read = req.read /\ req'.sections = req.sections
      /\ req'.context = req.context /\ req'.sources = req.sources /\ req'.out = req.out
  BY <1>1 DEF Request
<1>8. StoreInv'
  BY <1>1, StoreStays
<1>9. Fits'
  BY <1>1, <1>7 DEF Fits, Active
<1>10. SeenInv'
  BY <1>1, <1>4, <1>5, <1>7 DEF SeenInv, Active, Quiet, Allowed, SeenText, SeenPassage, SeenCite
<1>11. CalmInv'
  BY <1>1, <1>7 DEF CalmInv, Active, Quiet, Fits, BuildFilter
<1>12. FusionInv'
  BY <1>3, <1>4, <1>7 DEF FusionInv
<1> QED
  BY <1>6, <1>8, <1>9, <1>10, <1>11, <1>12 DEF RetrievalInv

\* The search by words, and the fusion.
LEMMA WordsKeeps ==
    ASSUME RetrievalInv, Words
    PROVE  RetrievalInv'
<1> DEFINE words == Texts(Bm25Search)
           fused == Fused(req.sem, words)
<1>1. /\ StoreInv /\ req \in Request /\ Fits /\ SeenInv /\ CalmInv /\ FusionInv
      /\ req.pc = "words" /\ req' = [req EXCEPT !.pc = "encode", !.words = words, !.chunks = fused] /\ Quiet
  BY DEF RetrievalInv, Words, At
<1>2. /\ req.taste \in Taste /\ req.pc \in Active /\ "encode" \in Active
      /\ req.sem \in Seq(Text) /\ Len(req.sem) <= SearchK /\ \A t \in Range(req.sem) : SeenText(t)
  BY <1>1 DEF Fits, Active, SeenInv, FusionInv
<1>3. Bm25Search \in Seq(Chunks) /\ Range(Bm25Search) \subseteq Range(Scoped) /\ Len(Bm25Search) <= SearchK
  BY <1>1, <1>2, Bm25Finds
<1>4. /\ words \in Seq(Text) /\ Len(words) = Len(Bm25Search)
      /\ \A t : t \in Range(words) <=> \E e \in Range(Bm25Search) : e.text = t
  <2>1. \A e \in Chunks : e.text \in Text
    BY DEF Chunks
  <2> QED
    BY <1>3, <2>1, TextsHold
<1>5. \A t \in Range(words) : SeenText(t)
  <2> SUFFICES ASSUME NEW t \in Range(words) PROVE SeenText(t)
    OBVIOUS
  <2>1. PICK e \in Range(index) : BuildFilter(e, req.session, req.at) /\ e.text = t
    BY <1>1, <1>3, <1>4, ScopedHolds
  <2> QED
    BY <1>1, <1>2, <2>1, ScopeIsSeen
<1> HIDE DEF words
<1>6. fused \in Seq(Text) /\ Range(fused) \subseteq Range(req.sem) \cup Range(words)
  BY <1>2, <1>3, <1>4, FusedOrders
<1>a. fused = Fused(req.sem, words)
  OBVIOUS
<1> HIDE DEF fused
<1>7. req' \in Request
  BY <1>1, <1>2, <1>4, <1>6, WithWords
<1>8. /\ req'.pc = "encode" /\ req'.kind = req.kind /\ req'.each = req.each /\ req'.session = req.session
      /\ req'.at = req.at /\ req'.taste = req.taste /\ req'.sem = req.sem /\ req'.words = words
      /\ req'.chunks = fused /\ req'.left = req.left /\ req'.read = req.read /\ req'.sections = req.sections
      /\ req'.context = req.context /\ req'.sources = req.sources /\ req'.out = req.out
  BY <1>1 DEF Request
<1>9. StoreInv'
  BY <1>1, StoreStays
<1>10. Fits'
  BY <1>1, <1>8 DEF Fits, Active
<1>11. SeenInv'
  BY <1>1, <1>2, <1>5, <1>6, <1>8 DEF SeenInv, Active, Quiet, Allowed, SeenText, SeenPassage, SeenCite
<1>12. CalmInv'
  BY <1>1, <1>8 DEF CalmInv, Active, Quiet, Fits, BuildFilter
<1>13. FusionInv'
  BY <1>2, <1>3, <1>4, <1>8, <1>a DEF FusionInv
<1> QED
  BY <1>7, <1>9, <1>10, <1>11, <1>12, <1>13 DEF RetrievalInv

\* Chunks that go without a citation.
LEMMA UncitedHolds ==
    ASSUME NEW texts \in Seq(Text), NEW s, s = [i \in DOMAIN texts |-> Uncited(texts[i])]
    PROVE  /\ s \in Seq(Cites) /\ (s = <<>> <=> texts = <<>>)
           /\ \A b \in Range(s) : b.label = 0 /\ b.text \in Range(texts)
<1>1. /\ DOMAIN texts = 1..Len(texts) /\ Len(texts) \in Nat /\ (texts = <<>> <=> Len(texts) = 0)
      /\ \A i \in DOMAIN texts : texts[i] \in Text /\ texts[i] \in Range(texts)
  BY Positions
<1>2. \A i \in DOMAIN texts : Uncited(texts[i]) \in Cites /\ Uncited(texts[i]).label = 0 /\ Uncited(texts[i]).text \in Range(texts)
  BY <1>1 DEF Uncited, Cites
<1>3. s \in [1..Len(texts) -> Cites]
  BY <1>1, <1>2
<1>4. s \in Seq(Cites) /\ DOMAIN s = DOMAIN texts /\ (s = <<>> <=> Len(texts) = 0)
  BY <1>1, <1>3, FunctionIsSeq
<1>5. \A b \in Range(s) : \E i \in DOMAIN texts : b = Uncited(texts[i])
  BY <1>4 DEF Range
<1> QED
  BY <1>1, <1>2, <1>4, <1>5

\* The sources are cited.
LEMMA CiteDetailsKeeps ==
    ASSUME RetrievalInv, CiteDetails
    PROVE  RetrievalInv'
<1> DEFINE sources == SemanticSearch(SourceK)
           chunks == IF req.chunks = <<>> THEN Texts(sources) ELSE req.chunks
           best == Reranked(chunks, req.taste, RerankK)
           known == SourcesOf(best, sources)
           cited == Cited(known)
           bare == [i \in DOMAIN best |-> Uncited(best[i])]
           context == IF cited # <<>> THEN cited ELSE bare
<1>1. /\ StoreInv /\ req \in Request /\ Fits /\ SeenInv /\ CalmInv /\ FusionInv
      /\ req.pc = "cite" /\ req' = [req EXCEPT !.pc = "check", !.sources = cited, !.context = context] /\ Quiet
  BY DEF RetrievalInv, CiteDetails, At
<1>2. /\ req.taste \in Taste /\ req.pc \in Active /\ "check" \in Active /\ SourceK \in Nat \ {0} /\ RerankK \in Nat \ {0}
      /\ req.chunks \in Seq(Text) /\ ~ req.each
  BY <1>1, RetrievalConstants DEF Fits, Active, Request
<1>3. /\ sources \in Seq(Chunks) /\ Range(sources) \subseteq Range(Scoped) /\ (Scoped # <<>> => sources # <<>>)
      /\ \A e \in Chunks : e.text \in Text
  BY <1>1, <1>2, SearchFinds DEF Chunks
<1>4. \A e \in Range(sources) : e \in Chunks /\ e \in Range(index) /\ BuildFilter(e, req.session, req.at)
  BY <1>1, <1>3, ScopedHolds, Positions
<1>5. calm => sources # <<>>
  BY <1>1, <1>2, <1>3, ScopedHolds DEF CalmInv
<1> HIDE DEF sources
<1>6. /\ Texts(sources) \in Seq(Text) /\ (Texts(sources) = <<>> <=> sources = <<>>)
      /\ \A t : t \in Range(Texts(sources)) <=> \E e \in Range(sources) : e.text = t
  BY <1>3, TextsHold
<1>7. chunks \in Seq(Text) /\ \A t \in Range(chunks) : SeenText(t)
  <2>1. \A t \in Range(Texts(sources)) : SeenText(t)
    <3> SUFFICES ASSUME NEW t \in Range(Texts(sources)) PROVE SeenText(t)
      OBVIOUS
    <3>1. PICK e \in Range(sources) : e.text = t
      BY <1>6
    <3>2. SeenText(e.text)
      BY <1>1, <1>2, <1>4, <3>1, ScopeIsSeen
    <3> QED
      BY <3>1, <3>2
  <2>2. \A t \in Range(req.chunks) : SeenText(t)
    BY <1>1 DEF SeenInv
  <2> QED
    BY <1>2, <1>6, <2>1, <2>2
<1>8. calm => chunks # <<>>
  BY <1>5, <1>6
<1> HIDE DEF chunks
<1>9. best \in Seq(Text) /\ Range(best) \subseteq Range(chunks) /\ (chunks # <<>> => best # <<>>)
  BY <1>2, <1>7, RerankedHolds
<1> HIDE DEF best
<1>10. known \in Seq(Chunks) /\ Range(known) \subseteq Range(sources)
  BY <1>3, <1>9, SourcesOfHold
<1> HIDE DEF known
<1>11. /\ cited \in Seq(Cites)
       /\ \A b \in Range(cited) : \E e \in Range(known) : b.doc = e.doc /\ b.n = e.n /\ b.text = e.text
  <2>1. known \in Seq(Passage \cup Chunks \cup Cites)
    BY <1>10, SeqMonotonic
  <2>2. \A i \in DOMAIN known : known[i].doc \in Document
    <3>1. \A i \in DOMAIN known : known[i] \in Chunks
      BY <1>10, Positions
    <3> QED
      BY <3>1 DEF Chunks
  <2> QED
    BY <2>1, <2>2, CitedHolds
<1> HIDE DEF cited
<1>12. \A b \in Range(cited) : SeenCite(b)
  <2> SUFFICES ASSUME NEW b \in Range(cited) PROVE SeenCite(b)
    OBVIOUS
  <2>1. PICK e \in Range(sources) : b.doc = e.doc /\ b.n = e.n /\ b.text = e.text
    BY <1>10, <1>11
  <2> QED
    BY <1>1, <1>2, <1>4, <2>1, ScopeIsSeen
<1>13. bare \in Seq(Cites) /\ (bare = <<>> <=> best = <<>>) /\ \A b \in Range(bare) : b.label = 0 /\ b.text \in Range(best)
  BY <1>9, UncitedHolds
<1> HIDE DEF bare
<1>14. \A b \in Range(bare) : SeenCite(b)
  <2> SUFFICES ASSUME NEW b \in Range(bare) PROVE SeenCite(b)
    OBVIOUS
  <2>1. b.label = 0 /\ SeenText(b.text)
    BY <1>7, <1>9, <1>13
  <2> QED
    BY <2>1 DEF SeenText, SeenCite
<1>15. context \in Seq(Cites) /\ (\A b \in Range(context) : SeenCite(b)) /\ (calm => context # <<>>)
  BY <1>8, <1>9, <1>11, <1>12, <1>13, <1>14
<1> HIDE DEF context
<1>16. req' \in Request
  BY <1>1, <1>2, <1>11, <1>15, WithCited
<1>17. /\ req'.pc = "check" /\ req'.kind = req.kind /\ req'.each = req.each /\ req'.session = req.session
       /\ req'.at = req.at /\ req'.taste = req.taste /\ req'.sem = req.sem /\ req'.words = req.words
       /\ req'.chunks = req.chunks /\ req'.left = req.left /\ req'.read = req.read /\ req'.sections = req.sections
       /\ req'.context = context /\ req'.sources = cited /\ req'.out = req.out
  BY <1>1 DEF Request
<1>18. StoreInv'
  BY <1>1, StoreStays
<1>19. Fits'
  BY <1>1, <1>17 DEF Fits, Active
<1>20. SeenInv'
  BY <1>1, <1>12, <1>15, <1>17 DEF SeenInv, Active, Quiet, Allowed, SeenText, SeenPassage, SeenCite
<1>21. CalmInv'
  BY <1>1, <1>2, <1>15, <1>17 DEF CalmInv, Active, Quiet, BuildFilter
<1>22. FusionInv'
  BY <1>17 DEF FusionInv
<1> QED
  BY <1>16, <1>18, <1>19, <1>20, <1>21, <1>22 DEF RetrievalInv

\* What there is of the session is looked at too, or not.
LEMMA CheckKeeps ==
    ASSUME RetrievalInv, Check
    PROVE  RetrievalInv'
<1>1. /\ StoreInv /\ req \in Request /\ Fits /\ SeenInv /\ CalmInv /\ FusionInv /\ req.pc = "check" /\ Quiet
      /\ IF LooksAgain THEN req' = [req EXCEPT !.pc = "list"] ELSE Answers(req.context, req.sources)
  BY DEF RetrievalInv, Check, At, Goes
<1>2. ~ req.each /\ req.context \in Seq(Cites) /\ req.sources \in Seq(Cites) /\ req.pc \in Active /\ "list" \in Active
  BY <1>1 DEF Fits, Active, Request
<1>3. StoreInv'
  BY <1>1, StoreStays
<1>4. CASE ~ LooksAgain
  <2>1. Answers(req.context, req.sources) /\ seen' = seen /\ calm' = calm
    BY <1>1, <1>4 DEF Quiet
  <2>2. \A b \in Range(req.context) \cup Range(req.sources) : SeenCite(b)
    BY <1>1 DEF SeenInv
  <2>3. calm => req.context # <<>>
    BY <1>1, <1>2 DEF CalmInv
  <2> QED
    BY <1>2, <1>3, <2>1, <2>2, <2>3, AnswersKeeps
<1>5. CASE LooksAgain
  <2>1. req.session # None
    BY <1>5 DEF LooksAgain
  <2>2. req' \in Request
    BY <1>1, <1>2, <1>5, WithPc
  <2>3. /\ req'.pc = "list" /\ req'.kind = req.kind /\ req'.each = req.each /\ req'.session = req.session
        /\ req'.at = req.at /\ req'.taste = req.taste /\ req'.sem = req.sem /\ req'.words = req.words
        /\ req'.chunks = req.chunks /\ req'.left = req.left /\ req'.read = req.read /\ req'.sections = req.sections
        /\ req'.context = req.context /\ req'.sources = req.sources /\ req'.out = req.out
    BY <1>1, <1>5 DEF Request
  <2>4. Fits'
    BY <1>1, <2>1, <2>3 DEF Fits, Active
  <2>5. SeenInv'
    BY <1>1, <2>3 DEF SeenInv, Active, Quiet, Allowed, SeenText, SeenPassage, SeenCite
  <2>6. CalmInv'
    BY <1>1, <1>2, <2>3 DEF CalmInv, Active, Quiet, BuildFilter
  <2>7. FusionInv'
    BY <2>3 DEF FusionInv
  <2> QED
    BY <1>3, <2>2, <2>4, <2>5, <2>6, <2>7 DEF RetrievalInv
<1> QED
  BY <1>4, <1>5

\* The documents of a session, as the database lists them.
LEMMA ListHolds ==
    ASSUME rows \in Seq(Document), NEW session
    PROVE  /\ ListSession(session) \in Seq(Document)
           /\ \A d : d \in Range(ListSession(session)) <=> d \in Range(rows) /\ d \in Mine /\ Home[d] = session
<1> DEFINE I == {i \in DOMAIN rows : rows[i] \in Mine /\ Home[rows[i]] = session}
<1>1. I \subseteq DOMAIN rows /\ ListSession(session) = Sublist(rows, I)
  BY DEF ListSession
<1>2. \A d : d \in Range(rows) <=> \E i \in DOMAIN rows : rows[i] = d
  BY Positions
<1>3. \A i : i \in I <=> i \in DOMAIN rows /\ rows[i] \in Mine /\ Home[rows[i]] = session
  OBVIOUS
<1> HIDE DEF I
<1>4. Sublist(rows, I) \in Seq(Document) /\ \A x : x \in Range(Sublist(rows, I)) <=> \E i \in I : rows[i] = x
  BY <1>1, SublistHolds
<1> QED
  BY <1>1, <1>2, <1>3, <1>4

\* The session's documents are listed to be read.
LEMMA ListKeeps ==
    ASSUME RetrievalInv, List
    PROVE  RetrievalInv'
<1> DEFINE found == ListSession(req.session)
<1>1. /\ StoreInv /\ req \in Request /\ Fits /\ SeenInv /\ CalmInv /\ FusionInv /\ req.pc = "list" /\ Quiet
      /\ IF req.each /\ Len(found) < 2 THEN Answers(<<>>, <<>>)
         ELSE req' = [req EXCEPT !.pc = "read", !.left = found, !.read = <<>>, !.sections = <<>>]
  BY DEF RetrievalInv, List, At
<1>2. /\ req.session # None /\ req.at = None /\ req.pc \in Active /\ "read" \in Active
      /\ <<>> \in Seq(Cites) /\ <<>> \in Seq(Passage) /\ Range(<<>>) = {}
  BY <1>1, EmptySeq DEF Fits, Active, Range
<1>3. StoreInv'
  BY <1>1, StoreStays
<1>4. found \in Seq(Document) /\ \A d : d \in Range(found) <=> d \in Range(rows) /\ d \in Mine /\ Home[d] = req.session
  BY <1>1, ListHolds DEF StoreInv
<1>5. Len(found) \in Nat
  BY <1>4, Positions
<1>6. calm /\ req.each => Len(found) >= 2
  BY <1>1 DEF CalmInv
<1>7. calm => \E e \in Range(index) : e.doc \in Range(found)
  BY <1>1, <1>2, <1>4 DEF CalmInv, BuildFilter
<1> HIDE DEF found
<1>8. CASE req.each /\ Len(found) < 2
  <2>1. Answers(<<>>, <<>>) /\ seen' = seen /\ ~ calm'
    BY <1>1, <1>5, <1>6, <1>8 DEF Quiet
  <2>2. \A b \in Range(<<>>) \cup Range(<<>>) : SeenCite(b)
    BY <1>2
  <2> QED
    BY <1>2, <1>3, <2>1, <2>2, AnswersKeeps
<1>9. CASE ~ (req.each /\ Len(found) < 2)
  <2> DEFINE empty == <<>>
  <2>1. req' = [req EXCEPT !.pc = "read", !.left = found, !.read = empty, !.sections = empty]
    BY <1>1, <1>9
  <2>2. empty \in Seq(Cites) /\ empty \in Seq(Passage) /\ Range(empty) = {} /\ empty = <<>>
    BY <1>2
  <2> HIDE DEF empty
  <2>3. req' \in Request
    BY <1>1, <1>2, <1>4, <2>1, <2>2, WithList
  <2>4. /\ req'.pc = "read" /\ req'.kind = req.kind /\ req'.each = req.each /\ req'.session = req.session
        /\ req'.at = req.at /\ req'.taste = req.taste /\ req'.sem = req.sem /\ req'.words = req.words
        /\ req'.chunks = req.chunks /\ req'.left = found /\ req'.read = empty /\ req'.sections = empty
        /\ req'.context = req.context /\ req'.sources = req.sources /\ req'.out = req.out
    BY <1>1, <2>1 DEF Request
  <2>5. Fits'
    BY <1>1, <1>2, <1>4, <2>4 DEF Fits, Active
  <2>6. SeenInv'
    BY <1>1, <2>2, <2>4 DEF SeenInv, Active, Quiet, Allowed, SeenText, SeenPassage, SeenCite
  <2>7. CalmInv'
    BY <1>1, <1>2, <1>7, <2>2, <2>4 DEF CalmInv, Active, Quiet, BuildFilter
  <2>8. FusionInv'
    BY <2>4 DEF FusionInv
  <2> QED
    BY <1>3, <2>3, <2>5, <2>6, <2>7, <2>8 DEF RetrievalInv
<1> QED
  BY <1>8, <1>9

\* The chunks of a document.
LEMMA DocumentHolds ==
    ASSUME index \in Seq(Chunks), NEW d
    PROVE  /\ OfDocument(d) \in Seq(Chunks)
           /\ \A e : e \in Range(OfDocument(d)) <=> e \in Range(index) /\ e.doc = d
<1> DEFINE I == {i \in DOMAIN index : index[i].doc = d}
<1>1. I \subseteq DOMAIN index /\ OfDocument(d) = Sublist(index, I)
  BY DEF OfDocument
<1>2. \A e : e \in Range(index) <=> \E i \in DOMAIN index : index[i] = e
  BY Positions
<1>3. \A i : i \in I <=> i \in DOMAIN index /\ index[i].doc = d
  OBVIOUS
<1> HIDE DEF I
<1>4. Sublist(index, I) \in Seq(Chunks) /\ \A x : x \in Range(Sublist(index, I)) <=> \E i \in I : index[i] = x
  BY <1>1, SublistHolds
<1> QED
  BY <1>1, <1>2, <1>3, <1>4

\* Passages of a document have its chunks' texts; without the reranker also
\* their numbers.
LEMMA RenumberedHolds ==
    ASSUME index \in Seq(Chunks), NEW d \in Document, NEW texts \in Seq(Text), Len(texts) <= Len(OfDocument(d))
    PROVE  /\ Renumbered(d, texts) \in Seq(Passage) /\ (Renumbered(d, texts) = <<>> <=> texts = <<>>)
           /\ \A b \in Range(Renumbered(d, texts)) : b.doc = d /\ b.text \in Range(texts)
           /\ texts = Texts(OfDocument(d)) =>
                \A b \in Range(Renumbered(d, texts)) : \E e \in Range(OfDocument(d)) : b.n = e.n /\ b.text = e.text
<1> DEFINE of == OfDocument(d)
           s == Renumbered(d, texts)
           item(i) == [doc |-> d, n |-> of[i].n, text |-> texts[i]]
<1>1. of \in Seq(Chunks)
  BY DocumentHolds
<1>2. /\ DOMAIN texts = 1..Len(texts) /\ Len(texts) \in Nat /\ (texts = <<>> <=> Len(texts) = 0)
      /\ \A i \in DOMAIN texts : texts[i] \in Text /\ texts[i] \in Range(texts)
  BY Positions
<1>3. /\ DOMAIN of = 1..Len(of) /\ Len(of) \in Nat /\ \A i \in DOMAIN of : of[i] \in Chunks /\ of[i] \in Range(of)
  BY <1>1, Positions
<1>4. \A i \in DOMAIN texts : i \in DOMAIN of /\ of[i].n \in Nat
  BY <1>2, <1>3 DEF Chunks
<1>5. s = [i \in 1..Len(texts) |-> item(i)]
  BY <1>2 DEF Renumbered
<1>6. \A i \in 1..Len(texts) : item(i) \in Passage
  BY <1>2, <1>4 DEF Passage
<1>7. s \in [1..Len(texts) -> Passage]
  BY <1>5, <1>6
<1>8. s \in Seq(Passage) /\ DOMAIN s = 1..Len(texts) /\ (s = <<>> <=> Len(texts) = 0)
  BY <1>2, <1>7, FunctionIsSeq
<1>9. \A b \in Range(s) : \E i \in 1..Len(texts) : b = item(i)
  BY <1>5, <1>8 DEF Range
<1>10. \A b \in Range(s) : b.doc = d /\ b.text \in Range(texts)
  BY <1>2, <1>9
<1>11. ASSUME texts = Texts(of), NEW b \in Range(s) PROVE \E e \in Range(of) : b.n = e.n /\ b.text = e.text
  <2>1. PICK i \in 1..Len(texts) : b = item(i)
    BY <1>9
  <2>2. i \in DOMAIN of /\ of[i] \in Range(of)
    BY <1>2, <1>3, <1>4
  <2>3. texts[i] = of[i].text
    BY <1>11, <2>2 DEF Texts
  <2> QED
    BY <2>1, <2>2, <2>3
<1> QED
  BY <1>2, <1>8, <1>10, <1>11

\* The head of a sequence and the rest of it.
LEMMA HeadAndTail ==
    ASSUME NEW S, NEW s \in Seq(S), s # <<>>
    PROVE  Head(s) \in S /\ Head(s) \in Range(s) /\ Tail(s) \in Seq(S) /\ Range(s) = Range(Tail(s)) \cup {Head(s)}
<1>1. Head(s) \in S /\ Tail(s) \in Seq(S) /\ Len(Tail(s)) = Len(s) - 1 /\ \A i \in 1..Len(Tail(s)) : Tail(s)[i] = s[i + 1]
  BY HeadTailProperties
<1>2. DOMAIN s = 1..Len(s) /\ Len(s) \in Nat \ {0} /\ Head(s) = s[1]
  BY Positions
<1>3. DOMAIN Tail(s) = 1..Len(Tail(s)) /\ \A x : x \in Range(Tail(s)) <=> \E i \in DOMAIN Tail(s) : Tail(s)[i] = x
  BY <1>1, Positions
<1>4. \A x : x \in Range(s) <=> \E i \in 1..Len(s) : s[i] = x
  BY <1>2, Positions
<1>5. ASSUME NEW x \in Range(s) PROVE x \in Range(Tail(s)) \cup {Head(s)}
  <2>1. PICK i \in 1..Len(s) : s[i] = x
    BY <1>4
  <2>2. CASE i = 1
    BY <1>2, <2>1, <2>2
  <2>3. CASE i # 1
    <3>1. i - 1 \in 1..Len(Tail(s)) /\ Tail(s)[i - 1] = s[i]
      BY <1>1, <1>2, <2>3
    <3> QED
      BY <1>3, <2>1, <3>1
  <2> QED
    BY <2>2, <2>3
<1>6. ASSUME NEW x \in Range(Tail(s)) PROVE x \in Range(s)
  <2>1. PICK i \in 1..Len(Tail(s)) : Tail(s)[i] = x
    BY <1>3
  <2>2. i + 1 \in 1..Len(s) /\ s[i + 1] = x
    BY <1>1, <1>2, <2>1
  <2> QED
    BY <1>4, <2>2
<1>7. Head(s) \in Range(s)
  BY <1>2, <1>4
<1> QED
  BY <1>1, <1>5, <1>6, <1>7

\* The next document is read.
LEMMA ReadDocumentKeeps ==
    ASSUME RetrievalInv, ReadDocument
    PROVE  RetrievalInv'
<1> DEFINE d == Head(req.left)
           of == OfDocument(d)
           all == Texts(of)
           best == IF Len(all) > PerDocument THEN Reranked(all, req.taste, PerDocument) ELSE all
           some == Renumbered(d, best)
           whole == Renumbered(d, all)
           read == IF req.each THEN req.read \o some ELSE Top(req.read \o whole, SessionMax)
           sections == IF req.each THEN req.sections \o Cited(some) ELSE req.sections
           left == Tail(req.left)
<1>1. /\ StoreInv /\ req \in Request /\ Fits /\ SeenInv /\ CalmInv /\ FusionInv /\ req.pc = "read" /\ Quiet
      /\ req.left # <<>> /\ req' = [req EXCEPT !.left = left, !.read = read, !.sections = sections]
  BY DEF RetrievalInv, ReadDocument, Reads, At
<1>2. /\ req.session # None /\ req.taste \in Taste /\ req.pc \in Active /\ req.left \in Seq(Document)
      /\ req.read \in Seq(Passage) /\ req.sections \in Seq(Cites) /\ index \in Seq(Chunks)
      /\ PerDocument \in Nat \ {0} /\ SessionMax \in Nat \ {0}
  BY <1>1, RetrievalConstants DEF Fits, Active, Request, StoreInv
<1>3. d \in Document /\ d \in Range(req.left) /\ left \in Seq(Document) /\ Range(req.left) = Range(left) \cup {d}
  BY <1>1, <1>2, HeadAndTail
<1>4. d \in Mine /\ Home[d] = req.session
  BY <1>1, <1>3 DEF Fits
<1> HIDE DEF d, left
<1>5. of \in Seq(Chunks) /\ (\A e : e \in Range(of) <=> e \in Range(index) /\ e.doc = d) /\ (of = <<>> <=> Range(of) = {})
  BY <1>2, DocumentHolds, Positions
<1>6. \A e \in Range(of) : [doc |-> d, n |-> e.n] \in seen /\ Body[d][e.n] = e.text
  <2>1. \A e \in Range(of) : e \in Range(index) /\ e.doc = d /\ BuildFilter(e, req.session, req.at)
    BY <1>1, <1>2, <1>4, <1>5 DEF BuildFilter, Fits
  <2> HIDE DEF of
  <2> QED
    BY <1>1, <1>2, <2>1, ScopeIsSeen
<1>7. /\ all \in Seq(Text) /\ Len(all) = Len(of) /\ (all = <<>> <=> of = <<>>)
      /\ \A t : t \in Range(all) <=> \E e \in Range(of) : e.text = t
  <2>1. \A e \in Chunks : e.text \in Text
    BY DEF Chunks
  <2> QED
    BY <1>5, <2>1, TextsHold
<1>a. all = Texts(OfDocument(d)) /\ Len(of) = Len(OfDocument(d)) /\ Range(of) = Range(OfDocument(d))
  OBVIOUS
<1> HIDE DEF all, of
<1>8. best \in Seq(Text) /\ Range(best) \subseteq Range(all) /\ Len(best) <= Len(all) /\ (all # <<>> => best # <<>>)
  <2>1. Len(all) \in Nat
    BY <1>7, Positions
  <2>2. LET r == Reranked(all, req.taste, PerDocument)
        IN  r \in Seq(Text) /\ Range(r) \subseteq Range(all) /\ Len(r) <= Len(all) /\ (all # <<>> => r # <<>>)
    BY <1>2, <1>7, RerankedHolds
  <2> QED
    BY <1>7, <2>1, <2>2
<1> HIDE DEF best
<1>9. /\ some \in Seq(Passage) /\ (some = <<>> <=> best = <<>>)
      /\ \A b \in Range(some) : b.doc = d /\ b.text \in Range(best)
  BY <1>2, <1>3, <1>7, <1>8, <1>a, RenumberedHolds
<1>10. /\ whole \in Seq(Passage)
       /\ \A b \in Range(whole) : b.doc = d /\ \E e \in Range(of) : b.n = e.n /\ b.text = e.text
  <2>1. Len(all) \in Nat /\ Len(all) <= Len(OfDocument(d))
    BY <1>7, <1>a, Positions
  <2> QED
    BY <1>2, <1>3, <1>7, <1>a, <2>1, RenumberedHolds
<1> HIDE DEF some, whole
<1>11. \A b \in Range(whole) : SeenPassage(b)
  BY <1>6, <1>10 DEF SeenPassage
<1>12. req.each => \A b \in Range(some) : SeenPassage(b)
  <2> SUFFICES ASSUME req.each, NEW b \in Range(some) PROVE SeenPassage(b)
    OBVIOUS
  <2>1. b.doc = d /\ \E e \in Range(of) : b.text = e.text
    BY <1>7, <1>8, <1>9
  <2> QED
    BY <1>6, <2>1 DEF SeenPassage
<1>13. /\ Cited(some) \in Seq(Cites) /\ (Cited(some) = <<>> <=> some = <<>>)
       /\ \A b \in Range(Cited(some)) : \E e \in Range(some) : b.doc = e.doc /\ b.n = e.n /\ b.text = e.text
  <2>1. some \in Seq(Passage \cup Chunks \cup Cites)
    BY <1>9, SeqMonotonic
  <2>2. \A i \in DOMAIN some : some[i].doc \in Document
    <3>1. \A i \in DOMAIN some : some[i] \in Range(some)
      BY <1>9, Positions
    <3> QED
      BY <1>3, <1>9, <3>1
  <2> QED
    BY <2>1, <2>2, CitedHolds
<1>14. req.each => \A b \in Range(Cited(some)) : SeenCite(b)
  BY <1>12, <1>13 DEF SeenPassage, SeenCite
<1>15. /\ read \in Seq(Passage) /\ \A b \in Range(read) : SeenPassage(b)
       /\ req.each => (read = <<>> <=> req.read = <<>> /\ some = <<>>)
  <2>1. \A b \in Range(req.read) : SeenPassage(b)
    BY <1>1 DEF SeenInv
  <2>2. CASE req.each
    <3>1. read = req.read \o some
      BY <2>2
    <3>2. /\ req.read \o some \in Seq(Passage) /\ Range(req.read \o some) = Range(req.read) \cup Range(some)
          /\ (req.read \o some = <<>> <=> req.read = <<>> /\ some = <<>>)
      BY <1>2, <1>9, ConcatProperties, RangeConcatenation, ConcatEqualIffEmpty
    <3> QED
      BY <1>12, <2>1, <2>2, <3>1, <3>2
  <2>3. CASE ~ req.each
    <3> DEFINE both == req.read \o whole
    <3>1. read = Top(both, SessionMax)
      BY <2>3
    <3>2. both \in Seq(Passage) /\ Range(both) = Range(req.read) \cup Range(whole)
      BY <1>2, <1>10, ConcatProperties, RangeConcatenation
    <3> HIDE DEF both
    <3>3. Top(both, SessionMax) \in Seq(Passage) /\ Range(Top(both, SessionMax)) \subseteq Range(both)
      BY <1>2, <3>2, TopIs
    <3> QED
      BY <1>11, <2>1, <2>3, <3>1, <3>2, <3>3
  <2> QED
    BY <2>2, <2>3
<1> HIDE DEF read
<1>16. /\ sections \in Seq(Cites) /\ \A b \in Range(sections) : SeenCite(b)
       /\ req.each => (sections = <<>> <=> req.sections = <<>> /\ some = <<>>)
  <2>1. \A b \in Range(req.sections) : SeenCite(b)
    BY <1>1 DEF SeenInv
  <2>2. CASE req.each
    <3> DEFINE more == Cited(some)
    <3>1. more \in Seq(Cites) /\ (more = <<>> <=> some = <<>>) /\ \A b \in Range(more) : SeenCite(b)
      BY <1>13, <1>14, <2>2
    <3>2. sections = req.sections \o more
      BY <2>2
    <3> HIDE DEF more
    <3>3. /\ req.sections \o more \in Seq(Cites) /\ Range(req.sections \o more) = Range(req.sections) \cup Range(more)
          /\ (req.sections \o more = <<>> <=> req.sections = <<>> /\ more = <<>>)
      BY <1>2, <3>1, ConcatProperties, RangeConcatenation, ConcatEqualIffEmpty
    <3> QED
      BY <2>1, <3>1, <3>2, <3>3
  <2>3. CASE ~ req.each
    BY <1>2, <2>1, <2>3
  <2> QED
    BY <2>2, <2>3
<1> HIDE DEF sections
<1>17. req' \in Request
  BY <1>1, <1>3, <1>15, <1>16, WithRead
<1>18. /\ req'.pc = req.pc /\ req'.kind = req.kind /\ req'.each = req.each /\ req'.session = req.session
       /\ req'.at = req.at /\ req'.taste = req.taste /\ req'.sem = req.sem /\ req'.words = req.words
       /\ req'.chunks = req.chunks /\ req'.left = left /\ req'.read = read /\ req'.sections = sections
       /\ req'.context = req.context /\ req'.sources = req.sources /\ req'.out = req.out
  BY <1>1 DEF Request
<1>19. StoreInv'
  BY <1>1, StoreStays
<1>20. Fits'
  BY <1>1, <1>3, <1>18 DEF Fits, Active
<1>21. SeenInv'
  BY <1>1, <1>15, <1>16, <1>18 DEF SeenInv, Active, Quiet, Allowed, SeenText, SeenPassage, SeenCite
<1>22. ASSUME calm, req.each
       PROVE  (read # <<>> => sections # <<>>) /\ (sections # <<>> \/ \E e \in Range(index) : e.doc \in Range(left))
  <2>1. req.read # <<>> => req.sections # <<>>
    BY <1>1, <1>22 DEF CalmInv
  <2>2. req.sections # <<>> \/ \E e \in Range(index) : e.doc \in Range(req.left)
    BY <1>1, <1>22 DEF CalmInv
  <2>3. (\E e \in Range(index) : e.doc = d) => some # <<>>
    BY <1>5, <1>7, <1>8, <1>9
  <2> QED
    BY <1>3, <1>15, <1>16, <1>22, <2>1, <2>2, <2>3
<1>23. CalmInv'
  BY <1>1, <1>18, <1>22 DEF CalmInv, Active, Quiet, BuildFilter
<1>24. FusionInv'
  BY <1>1, <1>18 DEF FusionInv
<1> QED
  BY <1>17, <1>19, <1>20, <1>21, <1>23, <1>24 DEF RetrievalInv

\* What is read of a session, or of the documents of a comparison, is cited.
LEMMA PassagesCited ==
    ASSUME NEW s \in Seq(Passage), \A b \in Range(s) : SeenPassage(b)
    PROVE  Cited(s) \in Seq(Cites) /\ \A b \in Range(Cited(s)) : SeenCite(b)
<1>1. s \in Seq(Passage \cup Chunks \cup Cites)
  BY SeqMonotonic
<1>2. \A i \in DOMAIN s : s[i].doc \in Document
  <2>1. \A i \in DOMAIN s : s[i] \in Passage
    BY Positions
  <2> QED
    BY <2>1 DEF Passage
<1>3. /\ Cited(s) \in Seq(Cites)
      /\ \A b \in Range(Cited(s)) : \E e \in Range(s) : b.doc = e.doc /\ b.n = e.n /\ b.text = e.text
  BY <1>1, <1>2, CitedHolds
<1> QED
  BY <1>3 DEF SeenPassage, SeenCite

\* The request is done with the documents.
LEMMA FinishKeeps ==
    ASSUME RetrievalInv, Finish
    PROVE  RetrievalInv'
<1> DEFINE texts == Texts(req.read)
           best == IF Len(texts) > Few THEN Reranked(texts, req.taste, SessionTop) ELSE texts
           known == SourcesOf(best, req.read)
           cited == Cited(known)
           first == Top(req.read, Enough)
           parts == Cited(first)
<1>1. /\ StoreInv /\ req \in Request /\ Fits /\ SeenInv /\ CalmInv /\ FusionInv /\ req.pc = "read" /\ Quiet /\ ~ Reads
      /\ IF req.each THEN Answers(req.sections, parts)
         ELSE \/ cited # <<>> /\ Answers(cited, cited)
              \/ (cited = <<>> \/ req.context # <<>>) /\ Answers(req.context, req.sources)
  BY DEF RetrievalInv, Finish, At
<1>2. /\ req.taste \in Taste /\ req.pc \in Active /\ req.read \in Seq(Passage) /\ req.sections \in Seq(Cites)
      /\ req.context \in Seq(Cites) /\ req.sources \in Seq(Cites)
      /\ SessionTop \in Nat \ {0} /\ Enough \in Nat \ {0} /\ SessionMax \in Nat \ {0} /\ seen' = seen /\ calm' = calm
  BY <1>1, RetrievalConstants DEF Fits, Active, Request, Quiet
<1>3. StoreInv'
  BY <1>1, StoreStays
<1>4. /\ \A b \in Range(req.read) : SeenPassage(b)
      /\ \A b \in Range(req.sections) \cup Range(req.context) \cup Range(req.sources) : SeenCite(b)
  BY <1>1 DEF SeenInv
<1>5. CASE req.each
  <2>1. first \in Seq(Passage) /\ Range(first) \subseteq Range(req.read)
    BY <1>2, TopIs
  <2> HIDE DEF first
  <2>2. parts \in Seq(Cites) /\ \A b \in Range(parts) : SeenCite(b)
    BY <1>4, <2>1, PassagesCited
  <2>3. calm => req.sections # <<>>
    <3> SUFFICES ASSUME calm PROVE req.sections # <<>>
      OBVIOUS
    <3>1. /\ req.read # <<>> => req.sections # <<>>
          /\ req.sections # <<>> \/ \E e \in Range(index) : e.doc \in Range(req.left)
      BY <1>1, <1>5 DEF CalmInv
    <3>2. CASE req.left = <<>>
      <4>1. Range(req.left) = {}
        BY <3>2 DEF Range
      <4> QED
        BY <3>1, <4>1
    <3>3. CASE req.left # <<>>
      <4>1. ~ (Len(req.read) < Enough)
        BY <1>1, <1>5, <3>3 DEF Reads, At, Limit
      <4>2. req.read # <<>>
        BY <1>2, <4>1, Positions
      <4> QED
        BY <3>1, <4>2
    <3> QED
      BY <3>2, <3>3
  <2> HIDE DEF parts
  <2>4. Answers(req.sections, parts)
    BY <1>1, <1>5
  <2>5. \A b \in Range(req.sections) \cup Range(parts) : SeenCite(b)
    BY <1>4, <2>2
  <2> QED
    BY <1>2, <1>3, <2>2, <2>3, <2>4, <2>5, AnswersKeeps
<1>6. CASE ~ req.each
  <2>1. \A b \in Passage : b.text \in Text
    BY DEF Passage
  <2>2. texts \in Seq(Text)
    BY <1>2, <2>1, TextsHold
  <2> HIDE DEF texts
  <2>3. best \in Seq(Text)
    <3>1. Reranked(texts, req.taste, SessionTop) \in Seq(Text)
      BY <1>2, <2>2, RerankedHolds
    <3> QED
      BY <2>2, <3>1
  <2> HIDE DEF best
  <2>4. known \in Seq(Passage) /\ Range(known) \subseteq Range(req.read)
    BY <1>2, <2>1, <2>3, SourcesOfHold
  <2> HIDE DEF known
  <2>5. cited \in Seq(Cites) /\ \A b \in Range(cited) : SeenCite(b)
    BY <1>4, <2>4, PassagesCited
  <2> HIDE DEF cited
  <2>6. CASE cited # <<>> /\ Answers(cited, cited)
    <3>1. \A b \in Range(cited) \cup Range(cited) : SeenCite(b)
      BY <2>5
    <3> QED
      BY <1>2, <1>3, <2>5, <2>6, <3>1, AnswersKeeps
  <2>7. CASE Answers(req.context, req.sources)
    <3>1. \A b \in Range(req.context) \cup Range(req.sources) : SeenCite(b)
      BY <1>4
    <3>2. calm => req.context # <<>>
      BY <1>1, <1>6 DEF CalmInv
    <3> QED
      BY <1>2, <1>3, <2>7, <3>1, <3>2, AnswersKeeps
  <2> QED
    BY <1>1, <1>6, <2>6, <2>7
<1> QED
  BY <1>5, <1>6

\* A fault leaves the store as it is.
LEMMA FaultStays ==
    ASSUME StoreInv, Fault, UNCHANGED <<store, changes>>, calm' \in BOOLEAN
    PROVE  StoreInv'
<1>1. faults \in 0..MaxFaults /\ MaxFaults \in Nat /\ faults < MaxFaults /\ faults' = faults + 1
  BY RetrievalConstants DEF StoreInv, Fault
<1>2. faults' \in 0..MaxFaults
  BY <1>1
<1> QED
  BY <1>2 DEF StoreInv, store, Sound, Chunks

\* An error ends the request.
LEMMA ErrsKeeps ==
    ASSUME RetrievalInv, Errs, StoreInv', seen' = seen, ~ calm'
    PROVE  RetrievalInv'
<1>1. <<>> \in Seq(Cites) /\ Range(<<>>) = {}
  BY EmptySeq DEF Range
<1>2. \E e \in Seq(Cites) : e = <<>> /\ Range(e) = {}
  BY <1>1
<1>3. PICK e \in Seq(Cites) : e = <<>> /\ Range(e) = {}
  BY <1>2
<1>4. Has("idle", e, e, {}, "error") /\ {} \in SUBSET Document /\ \A b \in Range(e) \cup Range(e) : SeenCite(b)
  BY <1>3 DEF Errs
<1> QED
  BY <1>4, HasKeeps

\* A part the request depends on raises.
LEMMA BreaksKeeps ==
    ASSUME RetrievalInv, Breaks
    PROVE  RetrievalInv'
<1>1. StoreInv /\ Fault /\ Errs /\ calm' = FALSE /\ UNCHANGED <<store, changes>> /\ seen' = seen
  BY DEF RetrievalInv, Breaks
<1>2. StoreInv'
  BY <1>1, FaultStays
<1> QED
  BY <1>1, <1>2, ErrsKeeps

\* The names of the graph are put before it.
LEMMA PrefixKeeps ==
    ASSUME RetrievalInv, Prefix
    PROVE  RetrievalInv'
<1>1. /\ StoreInv /\ req \in Request /\ Fits /\ SeenInv /\ CalmInv /\ req.pc = "graph" /\ Quiet
      /\ \E names \in NamesOf(graph \cap Mine) : Returns(names)
  BY DEF RetrievalInv, Prefix, At
<1>2. PICK names \in NamesOf(graph \cap Mine) : Returns(names)
  BY <1>1
<1>3. Mine \subseteq Document
  BY RetrievalConstants
<1>4. names \in SUBSET Document /\ Has("idle", req.context, req.sources, names, "answer")
  BY <1>2, <1>3 DEF NamesOf, Returns
<1>5. req.context \in Seq(Cites) /\ req.sources \in Seq(Cites) /\ seen' = seen /\ calm' = calm
  BY <1>1 DEF Request, Quiet
<1>6. /\ \A b \in Range(req.context) \cup Range(req.sources) : SeenCite(b)
      /\ calm => req.context # <<>>
  BY <1>1 DEF SeenInv, CalmInv
<1>7. StoreInv'
  BY <1>1, StoreStays
<1> QED
  BY <1>4, <1>5, <1>6, <1>7, HasKeeps

\* The graph is built.
LEMMA BuildGraphKeeps ==
    ASSUME RetrievalInv, NEW D \in SUBSET Document, BuildGraph(D)
    PROVE  RetrievalInv'
<1>1. /\ StoreInv /\ changes < MaxChanges /\ changes' = changes + 1 /\ index' = index /\ rows' = rows /\ place' = place
      /\ req' = req /\ faults' = faults /\ seen' = seen /\ calm' = calm
  BY DEF RetrievalInv, BuildGraph
<1>2. changes' \in 0..MaxChanges
  BY <1>1, RetrievalConstants DEF StoreInv
<1>3. StoreInv'
  BY <1>1, <1>2 DEF StoreInv, Sound, Chunks
<1>4. req' \in Request /\ Fits' /\ FusionInv'
  BY <1>1 DEF RetrievalInv, Fits, FusionInv
<1>5. SeenInv'
  BY <1>1 DEF RetrievalInv, SeenInv, Allowed, SeenText, SeenPassage, SeenCite
<1>6. CalmInv'
  BY <1>1 DEF RetrievalInv, CalmInv, BuildFilter, ListSession
<1> QED
  BY <1>3, <1>4, <1>5, <1>6 DEF RetrievalInv

\* The embedding API fails.
LEMMA EncodeFailsKeeps ==
    ASSUME RetrievalInv, NEW status \in {"401", "429", "503", "timeout"}, EncodeFails(status)
    PROVE  RetrievalInv'
<1> DEFINE again == req.provider = "huggingface" /\ Retryable(status) /\ req.tries + 1 < Attempts
<1>1. /\ StoreInv /\ req \in Request /\ Fits /\ SeenInv /\ CalmInv /\ FusionInv /\ req.pc = "encode" /\ Fault
      /\ IF again THEN req' = [req EXCEPT !.tries = req.tries + 1] ELSE Errs
      /\ calm' = (calm /\ req.provider = "huggingface" /\ status # "401" /\ req.tries + 1 < Attempts)
      /\ UNCHANGED <<store, changes>> /\ index' = index /\ rows' = rows /\ place' = place /\ seen' = seen
  BY DEF RetrievalInv, EncodeFails, At, store
<1>2. calm' \in BOOLEAN /\ (calm' => calm /\ again)
  BY <1>1 DEF Retryable
<1>3. StoreInv'
  BY <1>1, <1>2, FaultStays
<1>4. CASE ~ again
  <2>1. Errs /\ ~ calm'
    BY <1>1, <1>2, <1>4
  <2> QED
    BY <1>1, <1>3, <2>1, ErrsKeeps
<1>5. CASE again
  <2>1. req.tries \in 0..Attempts /\ Attempts \in Nat
    BY <1>1, RetrievalConstants DEF Request
  <2>2. req.tries + 1 \in 0..Attempts
    BY <1>5, <2>1
  <2>3. req' = [req EXCEPT !.tries = req.tries + 1]
    BY <1>1, <1>5
  <2> HIDE DEF again
  <2>4. req' \in Request
    BY <1>1, <2>2, <2>3, WithTries
  <2>5. /\ req'.pc = req.pc /\ req'.kind = req.kind /\ req'.each = req.each /\ req'.session = req.session
        /\ req'.at = req.at /\ req'.taste = req.taste /\ req'.sem = req.sem /\ req'.words = req.words
        /\ req'.chunks = req.chunks /\ req'.left = req.left /\ req'.read = req.read /\ req'.sections = req.sections
        /\ req'.context = req.context /\ req'.sources = req.sources /\ req'.out = req.out
    BY <1>1, <2>3 DEF Request
  <2>6. Fits'
    BY <1>1, <2>5 DEF Fits, Active
  <2>7. SeenInv'
    BY <1>1, <2>5 DEF SeenInv, Active, Allowed, SeenText, SeenPassage, SeenCite
  <2>8. CalmInv'
    BY <1>1, <1>2, <2>5 DEF CalmInv, Active, BuildFilter
  <2>9. FusionInv'
    BY <1>1, <2>5 DEF FusionInv
  <2> QED
    BY <1>3, <2>4, <2>6, <2>7, <2>8, <2>9 DEF RetrievalInv
<1> QED
  BY <1>4, <1>5

\* A document is skipped.
LEMMA SkipDocumentKeeps ==
    ASSUME RetrievalInv, SkipDocument
    PROVE  RetrievalInv'
<1> DEFINE left == Tail(req.left)
<1>1. /\ StoreInv /\ req \in Request /\ Fits /\ SeenInv /\ CalmInv /\ FusionInv /\ req.pc = "read" /\ req.left # <<>>
      /\ Fault /\ calm' = FALSE /\ req' = [req EXCEPT !.left = left]
      /\ UNCHANGED <<store, changes>> /\ index' = index /\ seen' = seen
  BY DEF RetrievalInv, SkipDocument, Reads, At, store
<1>2. left \in Seq(Document) /\ Range(left) \subseteq Range(req.left)
  <2>1. req.left \in Seq(Document)
    BY <1>1 DEF Request
  <2> QED
    BY <1>1, <2>1, HeadAndTail
<1> HIDE DEF left
<1>3. StoreInv'
  BY <1>1, FaultStays
<1>4. req' \in Request
  BY <1>1, <1>2, WithLeft
<1>5. /\ req'.pc = req.pc /\ req'.kind = req.kind /\ req'.each = req.each /\ req'.session = req.session
      /\ req'.at = req.at /\ req'.taste = req.taste /\ req'.sem = req.sem /\ req'.words = req.words
      /\ req'.chunks = req.chunks /\ req'.left = left /\ req'.read = req.read /\ req'.sections = req.sections
      /\ req'.context = req.context /\ req'.sources = req.sources /\ req'.out = req.out
  BY <1>1 DEF Request
<1>6. Fits'
  BY <1>1, <1>2, <1>5 DEF Fits, Active
<1>7. SeenInv'
  BY <1>1, <1>5 DEF SeenInv, Active, Allowed, SeenText, SeenPassage, SeenCite
<1>8. CalmInv'
  BY <1>1 DEF CalmInv
<1>9. FusionInv'
  BY <1>1, <1>5 DEF FusionInv
<1> QED
  BY <1>3, <1>4, <1>6, <1>7, <1>8, <1>9 DEF RetrievalInv

\* The question.
LEMMA AskKeeps ==
    ASSUME RetrievalInv, NEW kind \in Kinds, NEW session \in Session \cup {None}, NEW at \in Place \cup {None},
           NEW taste \in Taste, Ask(kind, session, at, taste)
    PROVE  RetrievalInv'
<1> DEFINE each == ReadsEach(kind, session)
           pc == IF each THEN "list" ELSE "encode"
           coll == EffectiveCollection(session, at)
<1>1. /\ StoreInv /\ req \in Request /\ Fits /\ SeenInv /\ CalmInv /\ FusionInv /\ req.pc = "idle" /\ req.out = "none"
      /\ req' = [req EXCEPT !.pc = pc, !.kind = kind, !.each = each, !.taste = taste,
                            !.session = session, !.at = coll, !.tries = 0]
      /\ seen' = Allowed(index, session, at) /\ UNCHANGED <<store, faults, changes>>
      /\ index' = index /\ rows' = rows /\ place' = place
      /\ calm' = \E e \in Held(index, session, at) : session # None \/ at = None \/ e.place = place[e.doc]
  BY DEF RetrievalInv, Ask, At, store
<1>2. /\ req.sem = None /\ req.chunks = <<>> /\ req.left = <<>> /\ req.read = <<>> /\ req.sections = <<>>
      /\ req.context = <<>> /\ req.sources = <<>> /\ Range(<<>>) = {}
  BY <1>1 DEF Fits, Range
<1>3. /\ pc \in {"list", "encode"} /\ (pc = "list" <=> each) /\ (each => session # None) /\ each \in BOOLEAN
      /\ (each => Len(ListSession(session)) >= 2)
  BY DEF ReadsEach
<1>4. coll \in Place \cup {None} /\ (session # None => coll = None) /\ (session = None => coll = at)
  BY DEF EffectiveCollection
<1> HIDE DEF each, pc, coll
<1>5. 0 \in 0..Attempts /\ pc \in Active
  BY <1>3, RetrievalConstants DEF Active
<1>6. req' \in Request
  <2>1. /\ req \in Request /\ pc \in Active /\ kind \in Kinds /\ each \in BOOLEAN /\ taste \in Taste
        /\ session \in Session \cup {None} /\ coll \in Place \cup {None} /\ 0 \in 0..Attempts
    BY <1>1, <1>3, <1>4, <1>5
  <2>2. [req EXCEPT !.pc = pc, !.kind = kind, !.each = each, !.taste = taste,
                    !.session = session, !.at = coll, !.tries = 0] \in Request
    BY <2>1, ZenonT(60) DEF Request
  <2> QED
    BY <1>1, <2>2
<1>7. /\ req'.pc = pc /\ req'.kind = kind /\ req'.session = session
      /\ req'.at = coll /\ req'.taste = taste /\ req'.sem = req.sem /\ req'.words = req.words
      /\ req'.chunks = req.chunks /\ req'.left = req.left /\ req'.read = req.read /\ req'.sections = req.sections
      /\ req'.context = req.context /\ req'.sources = req.sources /\ req'.out = req.out
  BY <1>1 DEF Request
<1>8. req'.each <=> each
  BY <1>1, <1>3, Zenon DEF Request
<1>9. StoreInv'
  BY <1>1 DEF StoreInv, store, Sound, Chunks
<1>10. Fits'
  BY <1>1, <1>2, <1>3, <1>4, <1>7, <1>8 DEF Fits, Active
<1>11. Allowed(index, session, coll) \subseteq Allowed(index, session, at)
  BY <1>4 DEF Allowed
<1>12. SeenInv'
  <2>1. Allowed(index, req.session, req.at)' \subseteq seen'
    BY <1>1, <1>7, <1>11 DEF Allowed
  <2> QED
    BY <1>2, <1>3, <1>7, <2>1 DEF SeenInv, Active
<1>13. calm' => \E e \in Range(index) : BuildFilter(e, session, coll) /\ e.doc \in Range(rows)
  BY <1>1, <1>4 DEF Held, InView, BuildFilter
<1>14. ListSession(req.session)' = ListSession(session)
  BY <1>1, <1>7 DEF ListSession
<1>15. CalmInv'
  <2> SUFFICES ASSUME calm' PROVE CalmInv'
    BY DEF CalmInv
  <2>1. (\E e \in Range(index) : BuildFilter(e, req.session, req.at) /\ e.doc \in Range(rows))'
    BY <1>1, <1>7, <1>13 DEF BuildFilter
  <2>2. (req.pc = "list" /\ req.each => Len(ListSession(req.session)) >= 2)'
    BY <1>3, <1>7, <1>8, <1>14
  <2>3. (req.pc \in {"check", "list", "read"} => req.each)' /\ req'.pc # "read" /\ req'.pc # "graph" /\ req'.out = "none"
    BY <1>1, <1>3, <1>7, <1>8
  <2> QED
    BY <2>1, <2>2, <2>3 DEF CalmInv
<1>16. FusionInv'
  BY <1>2, <1>3, <1>7 DEF FusionInv
<1> QED
  BY <1>6, <1>9, <1>10, <1>12, <1>15, <1>16 DEF RetrievalInv

-----------------------------------------------------------------------------
(* Steps of the store *)

\* A change of the store keeps what the request has seen.
LEMMA ChangeKeeps ==
    ASSUME RetrievalInv, req' = req, calm' = FALSE, StoreInv', seen \subseteq seen',
           req.pc \in Active => Allowed(index', req.session, req.at) \subseteq seen'
    PROVE  RetrievalInv'
<1>1. req \in Request /\ Fits /\ SeenInv /\ FusionInv
  BY DEF RetrievalInv
<1>2. req' \in Request /\ Fits' /\ FusionInv'
  BY <1>1 DEF Fits, FusionInv
<1>3. /\ \A t : SeenText(t) => SeenText(t)'
      /\ \A b : (SeenPassage(b) => SeenPassage(b)') /\ (SeenCite(b) => SeenCite(b)')
  BY DEF SeenText, SeenPassage, SeenCite
<1>4. Allowed(index, req.session, req.at)' = Allowed(index', req.session, req.at)
  BY DEF Allowed
<1>5. SeenInv'
  BY <1>1, <1>3, <1>4 DEF SeenInv
<1>6. CalmInv'
  BY DEF CalmInv
<1> QED
  BY <1>2, <1>5, <1>6 DEF RetrievalInv

\* ... when no chunk is added.
LEMMA FewerKeeps ==
    ASSUME RetrievalInv, req' = req, calm' = FALSE, StoreInv', seen' = seen, Range(index') \subseteq Range(index)
    PROVE  RetrievalInv'
<1>1. req.pc \in Active => Allowed(index, req.session, req.at) \subseteq seen
  BY DEF RetrievalInv, SeenInv
<1>2. Allowed(index', req.session, req.at) \subseteq Allowed(index, req.session, req.at)
  BY DEF Allowed
<1> QED
  BY <1>1, <1>2, ChangeKeeps

\* A change is counted.
LEMMA Counted ==
    ASSUME StoreInv, Change
    PROVE  changes' \in 0..MaxChanges /\ calm' = FALSE
  BY RetrievalConstants DEF StoreInv, Change

\* The chunks of a document, as they are stored.
LEMMA EntriesHold ==
    ASSUME place \in [Document -> Place], NEW d \in Document
    PROVE  Entries(d, Body[d]) \in Seq(Chunks) /\ \A e \in Range(Entries(d, Body[d])) : Sound(e)
<1> DEFINE body == Body[d]
           item(i) == [doc |-> d, n |-> i, text |-> body[i], vec |-> body[i], place |-> place[d]]
<1>1. body \in Seq(Text) /\ body = Body[d]
  BY RetrievalConstants
<1> HIDE DEF body
<1>2. DOMAIN body = 1..Len(body) /\ Len(body) \in Nat /\ \A i \in DOMAIN body : body[i] \in Text
  BY <1>1, Positions
<1>3. Entries(d, Body[d]) = [i \in 1..Len(body) |-> item(i)]
  BY <1>1, <1>2 DEF Entries
<1>4. \A i \in 1..Len(body) : item(i) \in Chunks /\ Sound(item(i))
  BY <1>1, <1>2 DEF Chunks, Sound
<1> HIDE DEF item
<1>5. Entries(d, Body[d]) \in [1..Len(body) -> Chunks]
  BY <1>3, <1>4
<1>6. Entries(d, Body[d]) \in Seq(Chunks) /\ DOMAIN Entries(d, Body[d]) = 1..Len(body)
  BY <1>2, <1>5, FunctionIsSeq
<1>7. \A e \in Range(Entries(d, Body[d])) : \E i \in 1..Len(body) : e = item(i)
  BY <1>3, <1>6 DEF Range
<1> QED
  BY <1>4, <1>6, <1>7

\* A document is uploaded.
LEMMA UploadKeeps ==
    ASSUME RetrievalInv, NEW d \in Document, Upload(d)
    PROVE  RetrievalInv'
<1>1. /\ StoreInv /\ Change /\ rows' = <<d>> \o rows /\ index' = index /\ place' = place /\ req' = req
      /\ faults' = faults /\ seen' = seen
  BY DEF RetrievalInv, Upload
<1>2. changes' \in 0..MaxChanges /\ calm' = FALSE
  BY <1>1, Counted
<1>3. rows' \in Seq(Document)
  <2>1. <<d>> \in Seq(Document) /\ rows \in Seq(Document)
    BY <1>1 DEF StoreInv
  <2> QED
    BY <1>1, <2>1, ConcatProperties
<1>4. StoreInv'
  BY <1>1, <1>2, <1>3 DEF StoreInv, Sound, Chunks
<1> QED
  BY <1>1, <1>2, <1>4, FewerKeeps

\* The chunks of a document are stored, with the vectors of their texts.
LEMMA StoreChunksKeeps ==
    ASSUME RetrievalInv, NEW d \in Document, StoreChunks(d)
    PROVE  RetrievalInv'
<1> DEFINE texts == Body[d]
           pending(hits) == Sublist(texts, {i \in DOMAIN texts : texts[i] \notin hits})
           encoded(hits, response) == IF req.provider = "openai" THEN ByIndex(response) ELSE pending(hits)
<1>1. /\ StoreInv /\ req \in Request /\ SeenInv /\ Change /\ rows' = rows /\ place' = place /\ req' = req
      /\ seen' = (IF req.pc = "idle" THEN seen ELSE seen \cup Allowed(index', req.session, req.at))
  BY DEF RetrievalInv, StoreChunks
<1>2. \E hits \in SUBSET Range(texts) :
        \/ \E response \in Responses(pending(hits)) :
             index' = index \o Entries(d, EncodeTexts(texts, hits, encoded(hits, response))) /\ UNCHANGED faults
        \/ pending(hits) # <<>> /\ Fault /\ UNCHANGED index
  BY DEF StoreChunks
<1>3. texts \in Seq(Text) /\ index \in Seq(Chunks) /\ place \in [Document -> Place]
  BY <1>1, RetrievalConstants DEF StoreInv
<1>4. changes' \in 0..MaxChanges /\ calm' = FALSE
  BY <1>1, Counted
<1>5. \A hits : \A response \in Responses(pending(hits)) : EncodeTexts(texts, hits, encoded(hits, response)) = texts
  <2> SUFFICES ASSUME NEW hits, NEW response \in Responses(pending(hits))
               PROVE  EncodeTexts(texts, hits, encoded(hits, response)) = texts
    OBVIOUS
  <2>1. pending(hits) \in Seq(Text)
    BY <1>3, SublistHolds
  <2>2. ByIndex(response) = pending(hits)
    <3> HIDE DEF pending
    <3> QED
      BY <2>1, ByIndexFits
  <2>3. encoded(hits, response) = pending(hits)
    BY <2>2
  <2>4. EncodeTexts(texts, hits, pending(hits)) = texts
    <3> HIDE DEF texts
    <3> QED
      BY <1>3, EncodeTextsFits
  <2> HIDE DEF encoded, pending, texts
  <2> QED
    BY <2>3, <2>4
<1>6. (index' = index \o Entries(d, texts) /\ faults' = faults) \/ (Fault /\ index' = index)
  <2> HIDE DEF encoded, pending, texts
  <2>1. PICK hits \in SUBSET Range(texts) :
          \/ \E response \in Responses(pending(hits)) :
               index' = index \o Entries(d, EncodeTexts(texts, hits, encoded(hits, response))) /\ UNCHANGED faults
          \/ pending(hits) # <<>> /\ Fault /\ UNCHANGED index
    BY <1>2
  <2> QED
    BY <1>5, <2>1
<1>7. Entries(d, texts) \in Seq(Chunks) /\ \A e \in Range(Entries(d, texts)) : Sound(e)
  BY <1>3, EntriesHold
<1> HIDE DEF texts
<1>8. index' \in Seq(Chunks) /\ (\A e \in Range(index') : Sound(e)) /\ faults' \in 0..MaxFaults
  <2>1. \A e \in Range(index) : Sound(e)
    BY <1>1 DEF StoreInv
  <2>2. faults \in 0..MaxFaults /\ MaxFaults \in Nat
    BY <1>1, RetrievalConstants DEF StoreInv
  <2>3. CASE index' = index \o Entries(d, texts) /\ faults' = faults
    <3>1. /\ index \o Entries(d, texts) \in Seq(Chunks)
          /\ Range(index \o Entries(d, texts)) = Range(index) \cup Range(Entries(d, texts))
      BY <1>3, <1>7, ConcatProperties, RangeConcatenation
    <3> QED
      BY <1>7, <2>1, <2>2, <2>3, <3>1
  <2>4. CASE Fault /\ index' = index
    <3>1. faults' \in 0..MaxFaults
      BY <2>2, <2>4 DEF Fault
    <3> QED
      BY <1>3, <2>1, <2>4, <3>1
  <2> QED
    BY <1>6, <2>3, <2>4
<1>9. StoreInv'
  BY <1>1, <1>4, <1>8 DEF StoreInv, Sound, Chunks
<1>10. seen \subseteq seen' /\ (req.pc \in Active => Allowed(index', req.session, req.at) \subseteq seen')
  BY <1>1 DEF Active
<1> QED
  BY <1>1, <1>4, <1>9, <1>10, ChangeKeeps

\* The chunks of a document are deleted.
LEMMA DeleteVectorsKeeps ==
    ASSUME RetrievalInv, NEW d \in Document, DeleteVectors(d)
    PROVE  RetrievalInv'
<1> DEFINE I == {i \in DOMAIN index : index[i].doc # d}
<1>1. /\ StoreInv /\ Change /\ index' = Sublist(index, I) /\ rows' = rows /\ place' = place /\ req' = req
      /\ faults' = faults /\ seen' = seen /\ I \subseteq DOMAIN index
  BY DEF RetrievalInv, DeleteVectors
<1> HIDE DEF I
<1>2. changes' \in 0..MaxChanges /\ calm' = FALSE /\ index \in Seq(Chunks)
  BY <1>1, Counted DEF StoreInv
<1>3. Sublist(index, I) \in Seq(Chunks) /\ \A x : x \in Range(Sublist(index, I)) <=> \E i \in I : index[i] = x
  BY <1>1, <1>2, SublistHolds
<1>4. \A i \in I : index[i] \in Range(index)
  BY <1>1, <1>2, Positions
<1>5. index' \in Seq(Chunks) /\ Range(index') \subseteq Range(index)
  BY <1>1, <1>3, <1>4
<1>6. StoreInv'
  BY <1>1, <1>2, <1>5 DEF StoreInv, Sound, Chunks
<1> QED
  BY <1>1, <1>2, <1>5, <1>6, FewerKeeps

\* The row of a document is deleted.
LEMMA DeleteRowKeeps ==
    ASSUME RetrievalInv, NEW d \in Document, DeleteRow(d)
    PROVE  RetrievalInv'
<1> DEFINE I == {i \in DOMAIN rows : rows[i] # d}
<1>1. /\ StoreInv /\ Change /\ rows' = Sublist(rows, I) /\ index' = index /\ place' = place /\ req' = req
      /\ faults' = faults /\ seen' = seen /\ I \subseteq DOMAIN rows
  BY DEF RetrievalInv, DeleteRow
<1> HIDE DEF I
<1>2. changes' \in 0..MaxChanges /\ calm' = FALSE /\ rows \in Seq(Document)
  BY <1>1, Counted DEF StoreInv
<1>3. rows' \in Seq(Document)
  BY <1>1, <1>2, SublistHolds
<1>4. StoreInv'
  BY <1>1, <1>2, <1>3 DEF StoreInv, Sound, Chunks
<1> QED
  BY <1>1, <1>2, <1>4, FewerKeeps

\* A document moves to another collection.
LEMMA MoveKeeps ==
    ASSUME RetrievalInv, NEW d \in Document, NEW to \in Place, Move(d, to)
    PROVE  RetrievalInv'
<1>1. /\ StoreInv /\ Change /\ rows' = rows /\ index' = index /\ place' = [place EXCEPT ![d] = to] /\ req' = req
      /\ faults' = faults /\ seen' = seen
  BY DEF RetrievalInv, Move
<1>2. changes' \in 0..MaxChanges /\ calm' = FALSE
  BY <1>1, Counted
<1>3. StoreInv'
  BY <1>1, <1>2 DEF StoreInv, Sound, Chunks
<1> QED
  BY <1>1, <1>2, <1>3, FewerKeeps

-----------------------------------------------------------------------------
(* The invariant holds *)

\* A finite set is listed.
LEMMA Listed ==
    ASSUME NEW S, IsFiniteSet(S)
    PROVE  SetToSeq(S) \in Seq(S)
<1>1. Cardinality(S) \in Nat /\ ExistsBijection(1 .. Cardinality(S), S)
  BY FS_CardinalityType
<1>2. \E g \in [1 .. Cardinality(S) -> S] : IsInjective(g)
  BY <1>1, Zenon DEF ExistsBijection, Bijection, Injection, IsInjective
<1>3. SetToSeq(S) \in [1 .. Cardinality(S) -> S]
  BY <1>2 DEF SetToSeq
<1> QED
  BY <1>1, <1>3

\* The documents that are indexed to begin with, in the order of the rows.
Batch(d, D) == IF d \in D THEN Entries(d, Body[d]) ELSE <<>>
IsIndex(f, D) == f = [n \in 0..Len(rows) |-> IF n = 0 THEN <<>> ELSE f[n - 1] \o Batch(rows[n], D)]

\* ... are chunks of their documents.
LEMMA FirstIndexHolds ==
    ASSUME rows \in Seq(Document), place \in [Document -> Place], NEW D
    PROVE  LET f == CHOOSE f : IsIndex(f, D)
           IN  f[Len(rows)] \in Seq(Chunks) /\ \A e \in Range(f[Len(rows)]) : Sound(e)
<1> DEFINE m == Len(rows)
           V == Seq({e \in Chunks : Sound(e)})
           step == [n \in 1..m |-> [v \in V |-> v \o Batch(rows[n], D)]]
           p == CHOOSE f : IsIndex(f, D)
<1>1. m \in Nat /\ (\A n \in 1..m : rows[n] \in Document) /\ <<>> \in V
  BY Positions, EmptySeq
<1>2. \A d \in Document : Batch(d, D) \in V
  <2> SUFFICES ASSUME NEW d \in Document PROVE Batch(d, D) \in V
    OBVIOUS
  <2>1. Entries(d, Body[d]) \in Seq(Chunks) /\ \A e \in Range(Entries(d, Body[d])) : Sound(e)
    BY EntriesHold
  <2> DEFINE s == Entries(d, Body[d])
  <2>2. DOMAIN s = 1..Len(s) /\ Len(s) \in Nat /\ s \in [1..Len(s) -> Chunks] /\ \A i \in DOMAIN s : s[i] \in Chunks /\ Sound(s[i])
    BY <2>1, Positions
  <2> HIDE DEF s
  <2>3. s \in [1..Len(s) -> {e \in Chunks : Sound(e)}]
    BY <2>2
  <2>4. s \in V
    BY <2>2, <2>3
  <2> QED
    BY <1>1, <2>4 DEF Batch, s
<1>3. \A n \in 1..m, v \in V : v \o Batch(rows[n], D) \in V
  <2> SUFFICES ASSUME NEW n \in 1..m, NEW v \in V PROVE v \o Batch(rows[n], D) \in V
    OBVIOUS
  <2>1. Batch(rows[n], D) \in V
    BY <1>1, <1>2
  <2> QED
    BY <2>1, ConcatProperties
<1> HIDE DEF V
<1>4. step \in [1..m -> [V -> V]]
  BY <1>3
<1>5. \A n \in 1..m, v \in V : step[n][v] = v \o Batch(rows[n], D)
  OBVIOUS
<1> HIDE DEF step
<1>6. PICK f : Iterates(f, m, V, <<>>, step)
  BY <1>1, <1>4, Iterated
<1>7. f \in [0..m -> V] /\ f[0] = <<>> /\ \A k \in 1..m : f[k] = step[k][f[k - 1]]
  BY <1>6 DEF Iterates
<1>8. \A k \in 1..m : f[k - 1] \in V /\ f[k] = f[k - 1] \o Batch(rows[k], D)
  <2>1. \A k \in 1..m : k - 1 \in 0..m
    BY <1>1
  <2>2. \A k \in 1..m : f[k - 1] \in V
    BY <1>7, <2>1
  <2> QED
    BY <1>5, <1>7, <2>2
<1>9. IsIndex(f, D)
  <2> DEFINE rest(n) == IF n = 0 THEN <<>> ELSE f[n - 1] \o Batch(rows[n], D)
  <2>1. ASSUME NEW n \in 0..m PROVE f[n] = rest(n)
    <3>1. CASE n = 0
      BY <1>7, <3>1
    <3>2. CASE n # 0
      <4>1. n \in 1..m
        BY <1>1, <3>2
      <4> QED
        BY <1>8, <3>2, <4>1
    <3> QED
      BY <3>1, <3>2
  <2> HIDE DEF rest
  <2>2. f = [n \in 0..m |-> f[n]]
    BY <1>7
  <2>3. f = [n \in 0..m |-> rest(n)]
    BY <2>1, <2>2
  <2> QED
    BY <2>3 DEF IsIndex, rest
<1>10. IsIndex(p, D)
  BY <1>9
<1> HIDE DEF p
<1>11. p[0] = <<>> /\ DOMAIN p = 0..m /\ \A k \in 1..m : p[k] = p[k - 1] \o Batch(rows[k], D)
  BY <1>1, <1>10 DEF IsIndex
<1>12. p[m] \in V
  <2> DEFINE G == {k \in 0..m : p[k] \in V}
  <2>1. 0 \in G
    BY <1>1, <1>11
  <2>2. \A k \in 1..m : k - 1 \in G => k \in G
    <3> SUFFICES ASSUME NEW k \in 1..m, k - 1 \in G PROVE k \in G
      OBVIOUS
    <3>1. p[k - 1] \in V /\ k \in 0..m
      BY <1>1
    <3>2. p[k - 1] \o Batch(rows[k], D) \in V
      BY <1>3, <3>1
    <3>3. p[k] \in V
      BY <1>11, <3>2
    <3> QED
      BY <3>1, <3>3
  <2> HIDE DEF G
  <2>3. 0..m \subseteq G
    BY <1>1, <2>1, <2>2, FirstNumbers
  <2> QED
    BY <1>1, <2>3 DEF G
<1>13. \A s \in V : s \in Seq(Chunks) /\ \A e \in Range(s) : Sound(e)
  <2> SUFFICES ASSUME NEW s \in V PROVE s \in Seq(Chunks) /\ \A e \in Range(s) : Sound(e)
    OBVIOUS
  <2>1. s \in Seq({e \in Chunks : Sound(e)})
    BY DEF V
  <2>2. s \in Seq(Chunks)
    BY <2>1, SeqMonotonic
  <2>3. Range(s) \subseteq {e \in Chunks : Sound(e)}
    BY <2>1, Positions
  <2> QED
    BY <2>2, <2>3
<1> QED
  BY <1>12, <1>13 DEF p

\* The invariant holds to begin with.
LEMMA RetrievalInit ==
    ASSUME Init
    PROVE  RetrievalInv
<1>1. PICK D \in SUBSET Document : rows = SetToSeq(D)
  BY DEF Init
<1>2. rows \in Seq(Document)
  <2>1. IsFiniteSet(D) /\ D \subseteq Document
    BY <1>1, RetrievalConstants, FS_Subset
  <2> QED
    BY <1>1, <2>1, Listed, SeqMonotonic
<1>3. place \in [Document -> Place]
  BY RetrievalConstants DEF Init
<1>4. \E E \in SUBSET Range(rows) : index = (CHOOSE f : IsIndex(f, E))[Len(rows)]
  BY DEF Init, IsIndex, Batch
<1>5. index \in Seq(Chunks) /\ \A e \in Range(index) : Sound(e)
  BY <1>2, <1>3, <1>4, FirstIndexHolds
<1>6. faults \in 0..MaxFaults /\ changes \in 0..MaxChanges /\ calm = FALSE
  BY RetrievalConstants DEF Init
<1>7. StoreInv
  BY <1>2, <1>3, <1>5, <1>6 DEF StoreInv
<1>8. PICK provider \in Providers : req = [Blank EXCEPT !.provider = provider]
  BY DEF Init
<1>9. <<>> \in Seq(Cites) /\ Range(<<>>) = {} /\ {} \in SUBSET Document
  BY EmptySeq DEF Range
<1>10. Rests(req, "idle", FALSE, "none", <<>>, <<>>, {}, <<>>)
  <2>1. [Blank EXCEPT !.provider = provider] = Cleared("idle", provider, FALSE, "none", <<>>, <<>>, {})
    <3> SUFFICES ASSUME NEW a, a = [Blank EXCEPT !.provider = provider], NEW b,
                        b = Cleared("idle", provider, FALSE, "none", <<>>, <<>>, {})
                 PROVE  a = b
      OBVIOUS
    <3>1. a = AtRest("idle", provider, 0, FALSE, "none", <<>>, <<>>, {}, <<>>)
      BY DEF Blank, AtRest
    <3>2. b = AtRest("idle", provider, 0, FALSE, "none", <<>>, <<>>, {}, <<>>)
      BY DEF Cleared, Blank, AtRest
    <3> QED
      BY <3>1, <3>2
  <2>2. Rests(Cleared("idle", provider, FALSE, "none", <<>>, <<>>, {}), "idle", FALSE, "none", <<>>, <<>>, {}, <<>>)
    BY <1>9, BlankIs
  <2> QED
    BY <1>8, <2>1, <2>2
<1>11. /\ req \in Request /\ req.pc = "idle" /\ req.session = None /\ req.at = None /\ req.sem = None /\ req.chunks = <<>>
       /\ req.left = <<>> /\ req.read = <<>> /\ req.sections = <<>> /\ req.out = "none"
       /\ req.context = <<>> /\ req.sources = <<>>
  BY <1>10 DEF Rests
<1>12. Fits
  BY <1>9, <1>11 DEF Fits, Active
<1>13. SeenInv
  BY <1>9, <1>11 DEF SeenInv, Active
<1>14. CalmInv
  BY <1>6 DEF CalmInv
<1>15. FusionInv
  BY <1>11 DEF FusionInv
<1> QED
  BY <1>7, <1>11, <1>12, <1>13, <1>14, <1>15 DEF RetrievalInv

\* ... and every step keeps it.
LEMMA RetrievalNext ==
    ASSUME RetrievalInv, [Next]_vars
    PROVE  RetrievalInv'
<1>1. CASE UNCHANGED vars
  <2>1. index' = index /\ rows' = rows /\ place' = place /\ req' = req /\ faults' = faults /\ changes' = changes /\ seen' = seen /\ calm' = calm
    BY <1>1 DEF vars
  <2>2. StoreInv'
    BY <2>1 DEF RetrievalInv, StoreInv, Sound, Chunks
  <2>3. req' \in Request /\ Fits' /\ FusionInv'
    BY <2>1 DEF RetrievalInv, Fits, FusionInv
  <2>4. SeenInv'
    BY <2>1 DEF RetrievalInv, SeenInv, Allowed, SeenText, SeenPassage, SeenCite
  <2>5. CalmInv'
    BY <2>1 DEF RetrievalInv, CalmInv, BuildFilter, ListSession
  <2> QED
    BY <2>2, <2>3, <2>4, <2>5 DEF RetrievalInv
<1>2. CASE \E d \in Document : Upload(d) \/ StoreChunks(d) \/ DeleteVectors(d) \/ DeleteRow(d) \/ \E to \in Place : Move(d, to)
  BY <1>2, UploadKeeps, StoreChunksKeeps, DeleteVectorsKeeps, DeleteRowKeeps, MoveKeeps
<1>3. CASE \E kind \in {"plain", "document", "compare"}, session \in Session \cup {None}, at \in Place \cup {None}, taste \in Taste :
             Ask(kind, session, at, taste)
  <2>1. PICK kind \in Kinds, session \in Session \cup {None}, at \in Place \cup {None}, taste \in Taste :
               Ask(kind, session, at, taste)
    BY <1>3 DEF Kinds
  <2> QED
    BY <2>1, AskKeeps
<1>4. CASE Encoded \/ Search \/ Words \/ CiteDetails \/ Check
  BY <1>4, EncodedKeeps, SearchKeeps, WordsKeeps, CiteDetailsKeeps, CheckKeeps
<1>5. CASE List \/ ReadDocument \/ SkipDocument \/ Finish \/ Breaks
  BY <1>5, ListKeeps, ReadDocumentKeeps, SkipDocumentKeeps, FinishKeeps, BreaksKeeps
<1>7. CASE Prefix \/ \E D \in SUBSET Document : BuildGraph(D)
  BY <1>7, PrefixKeeps, BuildGraphKeeps
<1>6. CASE \E status \in {"401", "429", "503", "timeout"} : EncodeFails(status)
  BY <1>6, EncodeFailsKeeps
<1> QED
  BY <1>1, <1>2, <1>3, <1>4, <1>5, <1>6, <1>7 DEF Next

\* The nodes are of documents, and the names of an answer are of the user's.
NamesInv == graph \subseteq Document /\ NamesAreOwn

\* They stay so, as no node is removed.
LEMMA NamesNext ==
    ASSUME RetrievalInv, NamesInv, [Next]_vars
    PROVE  NamesInv'
<1> USE DEF NamesInv, NamesAreOwn
<1>1. ASSUME graph' = graph, req'.names = req.names \/ req'.names = {} PROVE NamesInv'
  BY <1>1
<1>2. ASSUME graph' = graph, req' = req PROVE NamesInv'
  BY <1>2
<1>3. req \in Request
  BY DEF RetrievalInv
<1>4. ASSUME graph' = graph, NEW pc, NEW context, NEW sources, NEW names, NEW out, Has(pc, context, sources, names, out),
             names \subseteq graph \cap Mine
      PROVE  NamesInv'
  <2>1. req' = Cleared(pc, req.provider, req.each, out, context, sources, names)
    BY <1>4 DEF Has, Cleared
  <2>2. req'.names = names
    BY <2>1 DEF Cleared, Blank
  <2> QED
    BY <1>4, <2>2
<1>5. ASSUME graph' = graph, NEW context, NEW sources, Answers(context, sources) PROVE NamesInv'
  BY <1>4, <1>5 DEF Answers
<1>6. ASSUME graph' = graph, Errs PROVE NamesInv'
  BY <1>4, <1>6 DEF Errs
<1>7. CASE UNCHANGED vars
  BY <1>2, <1>7 DEF vars
<1>8. CASE \E D \in SUBSET Document : BuildGraph(D)
  BY <1>8 DEF BuildGraph
<1>9. CASE \E d \in Document : Upload(d) \/ StoreChunks(d) \/ DeleteVectors(d) \/ DeleteRow(d) \/ \E to \in Place : Move(d, to)
  BY <1>2, <1>9 DEF Upload, StoreChunks, DeleteVectors, DeleteRow, Move
<1>10. CASE \E kind \in {"plain", "document", "compare"}, session \in Session \cup {None}, at \in Place \cup {None}, taste \in Taste :
              Ask(kind, session, at, taste)
  <2>1. graph' = graph /\ req'.names = req.names
    BY <1>3, <1>10 DEF Ask, store, Request
  <2> QED
    BY <1>1, <2>1
<1>11. CASE Encoded \/ Search \/ Words \/ CiteDetails
  <2>1. graph' = graph /\ req'.names = req.names
    BY <1>3, <1>11 DEF Encoded, Search, Words, CiteDetails, Quiet, Request
  <2> QED
    BY <1>1, <2>1
<1>12. CASE Check
  <2>1. graph' = graph /\ (Answers(req.context, req.sources) \/ req'.names = req.names)
    BY <1>3, <1>12 DEF Check, Goes, Quiet, Request
  <2> QED
    BY <1>1, <1>5, <2>1
<1>13. CASE List
  <2>1. graph' = graph /\ (Answers(<<>>, <<>>) \/ req'.names = req.names)
    BY <1>3, <1>13 DEF List, Quiet, Request
  <2> QED
    BY <1>1, <1>5, <2>1
<1>14. CASE ReadDocument
  <2>1. graph' = graph /\ req'.names = req.names
    BY <1>3, <1>14 DEF ReadDocument, Quiet, Request
  <2> QED
    BY <1>1, <2>1
<1>15. CASE SkipDocument
  <2>1. graph' = graph /\ req'.names = req.names
    BY <1>3, <1>15 DEF SkipDocument, store, Request
  <2> QED
    BY <1>1, <2>1
<1>16. CASE Finish
  <2>1. graph' = graph /\ \E context, sources : Answers(context, sources)
    BY <1>16 DEF Finish, Quiet
  <2> QED
    BY <1>5, <2>1
<1>17. CASE Prefix
  <2>1. graph' = graph /\ \E names \in NamesOf(graph \cap Mine) : Has("idle", req.context, req.sources, names, "answer")
    BY <1>17 DEF Prefix, Quiet, Returns
  <2>2. \A names \in NamesOf(graph \cap Mine) : names \subseteq graph \cap Mine
    BY DEF NamesOf
  <2> QED
    BY <1>4, <2>1, <2>2
<1>18. CASE Breaks
  BY <1>6, <1>18 DEF Breaks, store
<1>19. CASE \E status \in {"401", "429", "503", "timeout"} : EncodeFails(status)
  <2>1. graph' = graph /\ (Errs \/ req'.names = req.names)
    BY <1>3, <1>19 DEF EncodeFails, store, Request
  <2> QED
    BY <1>1, <1>6, <2>1
<1> QED
  BY <1>7, <1>8, <1>9, <1>10, <1>11, <1>12, <1>13, <1>14, <1>15, <1>16, <1>17, <1>18, <1>19 DEF Next

\* There are none to begin with.
LEMMA NamesInit ==
    ASSUME Init
    PROVE  NamesInv
<1>1. graph = {} /\ \E provider \in Providers : req = [Blank EXCEPT !.provider = provider]
  BY DEF Init
<1>2. req.names = {}
  BY <1>1 DEF Blank
<1> QED
  BY <1>1, <1>2 DEF NamesInv, NamesAreOwn

-----------------------------------------------------------------------------
(* The theorems *)

\* The invariant from which the theorems below follow: what is stored is sound,
\* what a request holds fits its step, was seen, and was found as it should.
THEOREM RetrievalInvariant == Spec => [](RetrievalInv /\ NamesInv)
<1>1. Init => RetrievalInv /\ NamesInv
  BY RetrievalInit, NamesInit
<1>2. RetrievalInv /\ NamesInv /\ [Next]_vars => (RetrievalInv /\ NamesInv)'
  BY RetrievalNext, NamesNext
<1> QED
  BY <1>1, <1>2, PTL DEF Spec

\* Whatever part of a batch was cached and in which order the API answered,
\* every chunk is stored with the vector of its own text (encode_texts).
THEOREM ChunksKeepTheirVectors == Spec => []IndexIsSound
<1>1. RetrievalInv /\ NamesInv => IndexIsSound
  <2> SUFFICES ASSUME RetrievalInv, NamesInv PROVE IndexIsSound
    OBVIOUS
  <2>1. /\ index \in Seq(Chunks) /\ rows \in Seq(Document) /\ place \in [Document -> Place]
        /\ faults \in 0..MaxFaults /\ changes \in 0..MaxChanges /\ calm \in BOOLEAN /\ req \in Request
        /\ graph \subseteq Document /\ \A e \in Range(index) : e.vec = e.text
    BY DEF RetrievalInv, StoreInv, Sound, NamesInv
  <2>2. /\ req.provider \in Providers /\ req.taste \in Taste \cup {None} /\ req.tries \in 0..Attempts
        /\ req.out \in {"none", "answer", "error"} /\ req.context \in Seq(Cites) /\ req.names \subseteq Document
    BY <2>1 DEF Request
  <2> QED
    BY <2>1, <2>2 DEF IndexIsSound, TypeOK, VectorsFit
<1> QED
  BY <1>1, RetrievalInvariant, PTL

\* Whatever passage or source an answer shows was in the scope of its question
\* while it was worked on, and what it cites is where the citation says; the
\* names before them (graph_rag_context) are of the graph of the user who asks.
THEOREM AnswersShowTheirScope == Spec => []AnswerIsHeld
<1>1. RetrievalInv /\ NamesInv => AnswerIsHeld
  <2> SUFFICES ASSUME RetrievalInv, NamesInv PROVE AnswerIsHeld
    OBVIOUS
  <2>1. \A b \in Range(req.context) \cup Range(req.sources) : SeenCite(b)
    BY DEF RetrievalInv, SeenInv
  <2>2. PassagesAreHeld
    BY <2>1 DEF PassagesAreHeld, SeenCite
  <2> QED
    BY <2>2 DEF AnswerIsHeld, NamesInv
<1> QED
  BY <1>1, RetrievalInvariant, PTL

\* When the scope holds a chunk, nothing disturbs it and the API recovers in
\* time, the question is answered with context, whichever way it takes.
THEOREM ScopesAreFound == Spec => []FoundIsAnswered
<1>1. RetrievalInv => FoundIsAnswered
  <2> SUFFICES ASSUME RetrievalInv, calm, req.out # "none" PROVE req.out = "answer" /\ req.context # <<>>
    BY DEF FoundIsAnswered
  <2>1. req.out \in {"none", "answer", "error"} /\ req.out # "error" /\ (req.out = "answer" => req.context # <<>>)
    BY DEF RetrievalInv, CalmInv, Request
  <2> QED
    BY <2>1
<1> QED
  BY <1>1, RetrievalInvariant, PTL

\* For any limit and constant of the ranks, the fusion of two rankings keeps
\* the order of two texts on which they do not disagree.
THEOREM FusionsAreFair == Spec => []FusionIsFair
<1>1. RetrievalInv => FusionIsFair
  <2> SUFFICES ASSUME RetrievalInv PROVE FusionIsFair
    OBVIOUS
  <2>1. FusionInv /\ req.words \in Seq(Text)
    BY DEF RetrievalInv, Request
  <2> QED
    BY <2>1, FusedIsFair
<1> QED
  BY <1>1, RetrievalInvariant, PTL

=============================================================================
