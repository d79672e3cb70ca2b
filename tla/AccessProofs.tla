---------------------------- MODULE AccessProofs ----------------------------
(***************************************************************************)
(* Proofs about what lets a request in: the limiters and the sessions. The *)
(* limiters keep their promises for every limit, window and number of      *)
(* processes. For any number of clients, slots, requests and faults, a     *)
(* deleted account leaves nothing behind, a revoked session stays revoked, *)
(* and clients, session list and settings agree but for the exceptions     *)
(* that the histories name.                                                *)
(***************************************************************************)
EXTENDS Accounts, RateLimit, TLAPS

-----------------------------------------------------------------------------
(* The rate limiters *)

\* The deque h holds the latest admissions of m that are still in the window.
Suffix(h, m) ==
    /\ Len(h) <= Limit /\ Len(m) <= Limit + 1 /\ Len(h) <= Len(m)
    /\ \A i \in 1..Len(h) : h[i] = m[i + (Len(m) - Len(h))]
    /\ \A i \in 1..(Len(m) - Len(h)) : m[i] > Window

LimitsInv == LimitsTypeOK /\ \A p \in Process : Suffix(hits[p], inMemory[p])

\* Ages stay ages.
LEMMA AgedType ==
    ASSUME NEW s \in Seq(Ages)
    PROVE  /\ Aged(s) \in Seq(Ages) /\ Len(Aged(s)) = Len(s)
           /\ \A i \in 1..Len(s) :
                 Aged(s)[i] = IF s[i] > Window THEN s[i] ELSE s[i] + 1
  <1>1. \A i \in 1..Len(s) : s[i] \in Ages
    OBVIOUS
  <1> QED
    BY <1>1, WindowAssumption DEF Aged, Ages

\* What is left of a sequence of ages after k members, and its members.
LEMMA RestType ==
    ASSUME NEW s \in Seq(Ages), NEW k \in 0..Len(s)
    PROVE  /\ Rest(s, k) \in Seq(Ages) /\ Len(Rest(s, k)) = Len(s) - k
           /\ \A i \in 1..(Len(s) - k) : Rest(s, k)[i] = s[k + i]
  BY DEF Rest

\* Noting an admission drops the oldest one when there are too many.
LEMMA NotedType ==
    ASSUME NEW s \in Seq(Ages), Len(s) <= Limit + 1
    PROVE  /\ Noted(s) \in Seq(Ages) /\ Len(Noted(s)) <= Limit + 1
           /\ Len(s) <= Limit =>
                 /\ Len(Noted(s)) = Len(s) + 1
                 /\ \A i \in 1..Len(s) : Noted(s)[i] = s[i]
           /\ Len(s) > Limit =>
                 /\ Len(Noted(s)) = Len(s)
                 /\ \A i \in 1..(Len(s) - 1) : Noted(s)[i] = s[i + 1]
           /\ Noted(s)[Len(Noted(s))] = 0
  <1>1. 0 \in Ages
    BY WindowAssumption DEF Ages
  <1>2. CASE Len(s) <= Limit
    BY <1>1, <1>2, LimitAssumption DEF Noted
  <1>3. CASE Len(s) > Limit
    <2>1. /\ Tail(s) \in Seq(Ages) /\ Len(Tail(s)) = Len(s) - 1
          /\ \A i \in 1..(Len(s) - 1) : Tail(s)[i] = s[i + 1]
      BY <1>3, LimitAssumption
    <2>2. ASSUME NEW t \in Seq(Ages), Len(t) = Len(s) - 1
          PROVE  /\ Append(t, 0) \in Seq(Ages) /\ Len(Append(t, 0)) = Len(s)
                 /\ \A i \in 1..(Len(s) - 1) : Append(t, 0)[i] = t[i]
                 /\ Append(t, 0)[Len(s)] = 0
      BY <1>1, <2>2
    <2>3. Noted(s) = Append(Tail(s), 0)
      BY <1>3 DEF Noted
    <2>4. /\ Noted(s) \in Seq(Ages) /\ Len(Noted(s)) = Len(s)
          /\ \A i \in 1..(Len(s) - 1) : Noted(s)[i] = Tail(s)[i]
          /\ Noted(s)[Len(s)] = 0
      BY <2>1, <2>2, <2>3
    <2>5. ~ (Len(s) <= Limit)
      BY <1>3, LimitAssumption
    <2>6. \A i \in 1..(Len(s) - 1) : Noted(s)[i] = s[i + 1]
      BY <2>1, <2>4
    <2> QED
      BY <1>3, <2>4, <2>5, <2>6
  <1> QED
    BY <1>2, <1>3, LimitAssumption

\* The admissions noted are ages, however many there are.
LEMMA NotedIsAges ==
    ASSUME NEW s \in Seq(Ages)
    PROVE  Noted(s) \in Seq(Ages)
  <1>1. 0 \in Ages
    BY WindowAssumption DEF Ages
  <1>2. Append(s, 0) \in Seq(Ages)
    BY <1>1
  <1>3. ASSUME Len(s) > Limit PROVE Append(Tail(s), 0) \in Seq(Ages)
    <2>1. s # <<>>
      BY <1>3, LimitAssumption
    <2>2. Tail(s) \in Seq(Ages)
      BY <2>1
    <2> QED
      BY <1>1, <2>2
  <1> QED
    BY <1>2, <1>3 DEF Noted

\* The least and the most a client is told to wait.
LEMMA WaitBounds == 0 \in 0..Window /\ Window \in 0..Window
  <1>1. Window \in Nat
    BY WindowAssumption
  <1> QED
    BY <1>1

\* Retry-After is at most the window.
LEMMA ResetBound ==
    ASSUME NEW left \in 0..Window
    PROVE  ResetTicks(left) \in 0..Window
  <1>1. Second <= Window
    BY WindowAssumption
  <1>2. Second * (left \div Second) \in Nat /\ Second * (left \div Second) <= left
    BY WindowAssumption
  <1> QED
    BY <1>1, <1>2, WindowAssumption DEF ResetTicks


\* An admission added at the end.
LEMMA AppendType ==
    ASSUME NEW s \in Seq(Ages)
    PROVE  /\ Append(s, 0) \in Seq(Ages) /\ Len(Append(s, 0)) = Len(s) + 1
           /\ \A i \in 1..Len(s) : Append(s, 0)[i] = s[i]
           /\ Append(s, 0)[Len(s) + 1] = 0
  <1>1. 0 \in Ages
    BY WindowAssumption DEF Ages
  <1> QED
    BY <1>1

\* Popping what is out of the window leaves the recent end of the admissions.
LEMMA SuffixPopped ==
    ASSUME NEW h \in Seq(Ages), NEW m \in Seq(Ages), Suffix(h, m),
           NEW k \in 0..Len(h), \A i \in 1..k : h[i] > Window
    PROVE  Suffix(Rest(h, k), m)
  <1> DEFINE b == Rest(h, k)
  <1>1. /\ b \in Seq(Ages) /\ Len(b) = Len(h) - k
        /\ \A i \in 1..(Len(h) - k) : b[i] = h[k + i]
    BY RestType
  <1> HIDE DEF b
  <1>2. /\ Len(h) \in Nat /\ Len(m) \in Nat /\ Len(b) \in Nat /\ k \in Nat
        /\ Len(h) <= Limit /\ Len(m) <= Limit + 1 /\ Len(h) <= Len(m)
        /\ Len(b) = Len(h) - k /\ Limit \in Nat
    BY <1>1, LimitAssumption DEF Suffix
  <1>3. Len(b) <= Limit /\ Len(m) <= Limit + 1 /\ Len(b) <= Len(m)
    BY <1>2
  <1>4. ASSUME NEW i \in 1..Len(b)
        PROVE  b[i] = m[i + (Len(m) - Len(b))]
    <2>1. k + i \in 1..Len(h) /\ b[i] = h[k + i]
      BY <1>1, <1>2
    <2>2. h[k + i] = m[k + i + (Len(m) - Len(h))]
      BY <2>1 DEF Suffix
    <2>3. k + i + (Len(m) - Len(h)) = i + (Len(m) - Len(b))
      BY <1>2
    <2> QED
      BY <2>1, <2>2, <2>3
  <1>5. ASSUME NEW i \in 1..(Len(m) - Len(b))
        PROVE  m[i] > Window
    <2>1. CASE i <= Len(m) - Len(h)
      BY <1>2, <2>1 DEF Suffix
    <2>2. CASE i > Len(m) - Len(h)
      <3> DEFINE j == i - (Len(m) - Len(h))
      <3>1. j \in 1..k /\ j \in 1..Len(h) /\ i = j + (Len(m) - Len(h))
        BY <1>2, <2>2
      <3>2. h[j] = m[i]
        BY <3>1 DEF Suffix
      <3> QED
        BY <3>1, <3>2
    <2> QED
      BY <2>1, <2>2, <1>2
  <1>6. Suffix(b, m)
    BY <1>3, <1>4, <1>5 DEF Suffix
  <1> QED
    BY <1>6 DEF b

\* An admission recorded in both keeps the one the recent end of the other.
LEMMA SuffixNoted ==
    ASSUME NEW h \in Seq(Ages), NEW m \in Seq(Ages), Suffix(h, m),
           Len(h) < Limit
    PROVE  Suffix(Append(h, 0), Noted(m))
  <1> DEFINE c == Append(h, 0)
             n == Noted(m)
  <1>1. /\ Len(c) = Len(h) + 1 /\ c[Len(h) + 1] = 0
        /\ \A i \in 1..Len(h) : c[i] = h[i]
    BY AppendType
  <1>2. /\ n \in Seq(Ages) /\ Len(n) <= Limit + 1 /\ n[Len(n)] = 0
        /\ Len(m) <= Limit => /\ Len(n) = Len(m) + 1
                              /\ \A i \in 1..Len(m) : n[i] = m[i]
        /\ Len(m) > Limit => /\ Len(n) = Len(m)
                             /\ \A i \in 1..(Len(m) - 1) : n[i] = m[i + 1]
    <2>1. Len(m) <= Limit + 1
      BY DEF Suffix
    <2> QED
      BY <2>1, NotedType
  <1> HIDE DEF c, n
  <1>3. /\ Len(h) \in Nat /\ Len(m) \in Nat /\ Len(n) \in Nat /\ Limit \in Nat
        /\ Len(h) < Limit /\ Len(m) <= Limit + 1 /\ Len(h) <= Len(m)
        /\ Len(c) = Len(h) + 1 /\ Len(n) <= Limit + 1
    BY <1>1, <1>2, LimitAssumption DEF Suffix
  <1>4. Len(n) = Len(m) + 1 \/ (Len(n) = Len(m) /\ Len(m) > Limit)
    BY <1>2, <1>3
  <1>5. Len(c) <= Limit /\ Len(n) <= Limit + 1 /\ Len(c) <= Len(n)
    BY <1>3, <1>4
  <1>6. ASSUME NEW i \in 1..Len(c)
        PROVE  c[i] = n[i + (Len(n) - Len(c))]
    <2>1. CASE i = Len(c)
      <3>1. i + (Len(n) - Len(c)) = Len(n) /\ i = Len(h) + 1
        BY <1>3, <2>1
      <3> QED
        BY <1>1, <1>2, <3>1
    <2>2. CASE i # Len(c)
      <3> DEFINE j == i + (Len(m) - Len(h))
      <3>1. i \in 1..Len(h) /\ j \in 1..Len(m)
        BY <1>3, <2>2
      <3>2. c[i] = m[j]
        BY <1>1, <3>1 DEF Suffix
      <3>3. CASE Len(m) <= Limit
        <4>1. i + (Len(n) - Len(c)) = j
          BY <1>2, <1>3, <3>3
        <4> QED
          BY <1>2, <3>1, <3>2, <3>3, <4>1
      <3>4. CASE Len(m) > Limit
        <4>1. Len(n) = Len(m)
          BY <1>2, <3>4
        <4>2. i \in Nat /\ i >= 1 /\ i <= Len(h)
          BY <1>3, <3>1
        <4>3. /\ i + (Len(n) - Len(c)) = j - 1 /\ (j - 1) + 1 = j
              /\ j - 1 \in Nat /\ 1 <= j - 1 /\ j - 1 <= Len(m) - 1
          BY <1>3, <3>4, <4>1, <4>2
        <4>4. n[j - 1] = m[(j - 1) + 1]
          <5> DEFINE l == j - 1
          <5>1. l \in 1..(Len(m) - 1)
            BY <1>3, <4>3
          <5> HIDE DEF l
          <5>2. n[l] = m[l + 1]
            BY <1>2, <3>4, <5>1
          <5> QED
            BY <5>2 DEF l
        <4> QED
          BY <3>2, <4>3, <4>4
      <3> QED
        BY <3>3, <3>4, <1>3
    <2> QED
      BY <2>1, <2>2
  <1>7. ASSUME NEW i \in 1..(Len(n) - Len(c))
        PROVE  n[i] > Window
    <2>1. CASE Len(m) <= Limit
      <3>1. i \in 1..(Len(m) - Len(h)) /\ i \in 1..Len(m)
        BY <1>2, <1>3, <2>1
      <3> QED
        BY <1>2, <2>1, <3>1 DEF Suffix
    <2>2. CASE Len(m) > Limit
      <3>1. i + 1 \in 1..(Len(m) - Len(h)) /\ i \in 1..(Len(m) - 1)
        BY <1>2, <1>3, <2>2
      <3> QED
        BY <1>2, <2>2, <3>1 DEF Suffix
    <2> QED
      BY <2>1, <2>2, <1>3
  <1>8. Suffix(c, n)
    BY <1>5, <1>6, <1>7 DEF Suffix
  <1> QED
    BY <1>8 DEF c, n

\* Time keeps the deque the recent end of the admissions.
LEMMA SuffixAged ==
    ASSUME NEW h \in Seq(Ages), NEW m \in Seq(Ages), Suffix(h, m)
    PROVE  Suffix(Aged(h), Aged(m))
  <1> DEFINE c == Aged(h)
             n == Aged(m)
  <1>1. /\ Len(c) = Len(h) /\ Len(n) = Len(m)
        /\ \A i \in 1..Len(h) : c[i] = IF h[i] > Window THEN h[i] ELSE h[i] + 1
        /\ \A i \in 1..Len(m) : n[i] = IF m[i] > Window THEN m[i] ELSE m[i] + 1
    BY AgedType
  <1> HIDE DEF c, n
  <1>2. Len(h) \in Nat /\ Len(m) \in Nat /\ Len(h) <= Len(m)
    BY DEF Suffix
  <1>3. ASSUME NEW i \in 1..Len(c)
        PROVE  c[i] = n[i + (Len(n) - Len(c))]
    <2> DEFINE j == i + (Len(m) - Len(h))
    <2>1. i \in 1..Len(h) /\ j \in 1..Len(m) /\ i + (Len(n) - Len(c)) = j
      BY <1>1, <1>2
    <2>2. h[i] = m[j]
      BY <2>1 DEF Suffix
    <2> QED
      BY <1>1, <2>1, <2>2
  <1>4. ASSUME NEW i \in 1..(Len(n) - Len(c))
        PROVE  n[i] > Window
    <2>1. i \in 1..(Len(m) - Len(h)) /\ i \in 1..Len(m)
      BY <1>1, <1>2
    <2>2. m[i] > Window
      BY <2>1 DEF Suffix
    <2> QED
      BY <1>1, <2>1, <2>2
  <1>5. Suffix(c, n)
    BY <1>1, <1>3, <1>4 DEF Suffix
  <1> QED
    BY <1>5 DEF c, n

\* A check in memory keeps the deque the recent end of the admissions.
LEMMA CheckMemorySuffix ==
    ASSUME LimitsInv, NEW p \in Process, CheckMemory(p)
    PROVE  /\ hits' \in [Process -> Seq(Ages)]
           /\ inMemory' \in [Process -> Seq(Ages)]
           /\ rejected' \in BOOLEAN /\ wait' \in 0..Window
           /\ \A q \in Process : Suffix(hits'[q], inMemory'[q])
  <1>1. /\ hits[p] \in Seq(Ages) /\ inMemory[p] \in Seq(Ages)
        /\ hits \in [Process -> Seq(Ages)] /\ inMemory \in [Process -> Seq(Ages)]
        /\ \A q \in Process : Suffix(hits[q], inMemory[q])
    BY DEF LimitsInv, LimitsTypeOK
  <1>2. PICK k \in 0..Len(hits[p]) :
           LET bucket == Rest(hits[p], k) IN
           /\ Popped(hits[p], k, Window + 1)
           /\ IF Len(bucket) >= Limit
                THEN /\ hits' = [hits EXCEPT ![p] = bucket]
                     /\ Reject(ResetTicks(Window - bucket[1]))
                     /\ UNCHANGED inMemory
                ELSE /\ hits' = [hits EXCEPT ![p] = Append(bucket, 0)]
                     /\ inMemory' = [inMemory EXCEPT ![p] = Noted(@)]
                     /\ Admit
    BY DEF CheckMemory
  <1> DEFINE b == Rest(hits[p], k)
  <1>3. /\ b \in Seq(Ages) /\ Len(b) = Len(hits[p]) - k
        /\ \A i \in 1..(Len(hits[p]) - k) : b[i] = hits[p][k + i]
    BY <1>1, RestType
  <1>4. ASSUME NEW i \in 1..k PROVE hits[p][i] > Window
    <2>1. hits[p][i] >= Window + 1 /\ hits[p][i] \in Ages
      BY <1>1, <1>2 DEF Popped
    <2> QED
      BY <2>1, WindowAssumption DEF Ages
  <1>5. Suffix(b, inMemory[p])
    BY <1>1, <1>4, SuffixPopped
  <1>6. CASE Len(b) >= Limit
    <2>1. /\ hits' = [hits EXCEPT ![p] = b] /\ inMemory' = inMemory
          /\ Reject(ResetTicks(Window - b[1]))
      BY <1>2, <1>6
    <2>2. b[1] \in 0..Window
      <3>1. k < Len(hits[p]) /\ b[1] = hits[p][k + 1] /\ hits[p][k + 1] \in Ages
        BY <1>1, <1>3, <1>6, LimitAssumption
      <3>2. hits[p][k + 1] < Window + 1
        BY <1>2, <3>1 DEF Popped
      <3> QED
        BY <3>1, <3>2, WindowAssumption DEF Ages
    <2>3. ResetTicks(Window - b[1]) \in 0..Window
      <3>1. Window - b[1] \in 0..Window
        BY <2>2, WindowAssumption
      <3> QED
        BY <3>1, ResetBound
    <2>4. \A q \in Process : Suffix(hits'[q], inMemory'[q])
      BY <1>1, <1>5, <2>1
    <2>5. hits' \in [Process -> Seq(Ages)] /\ inMemory' \in [Process -> Seq(Ages)]
      BY <1>1, <1>3, <2>1
    <2> QED
      BY <2>1, <2>3, <2>4, <2>5 DEF Reject
  <1>7. CASE ~ (Len(b) >= Limit)
    <2>1. /\ hits' = [hits EXCEPT ![p] = Append(b, 0)]
          /\ inMemory' = [inMemory EXCEPT ![p] = Noted(inMemory[p])]
          /\ Admit
      BY <1>2, <1>7
    <2>2. Append(b, 0) \in Seq(Ages)
      BY <1>3, AppendType
    <2>3. Noted(inMemory[p]) \in Seq(Ages)
      BY <1>1, NotedType DEF Suffix
    <2>4. Len(b) < Limit
      BY <1>3, <1>7, LimitAssumption
    <2>5. Suffix(Append(b, 0), Noted(inMemory[p]))
      BY <1>1, <1>3, <1>5, <2>4, SuffixNoted
    <2>6. \A q \in Process : Suffix(hits'[q], inMemory'[q])
      BY <1>1, <2>1, <2>5
    <2>7. hits' \in [Process -> Seq(Ages)] /\ inMemory' \in [Process -> Seq(Ages)]
      BY <1>1, <2>1, <2>2, <2>3
    <2>8. rejected' \in BOOLEAN /\ wait' \in 0..Window
      BY <2>1, WaitBounds DEF Admit
    <2> QED
      BY <2>6, <2>7, <2>8
  <1> QED
    BY <1>6, <1>7

\* The invariant holds at the start.
LEMMA LimitsInvInit == LimitsInit => LimitsInv
  <1> SUFFICES ASSUME LimitsInit PROVE LimitsInv
    OBVIOUS
  <1>1. <<>> \in Seq(Ages) /\ Len(<<>>) = 0
    OBVIOUS
  <1>2. LimitsTypeOK
    BY <1>1, WaitBounds DEF LimitsInit, LimitsTypeOK
  <1>3. Suffix(<<>>, <<>>)
    BY <1>1, LimitAssumption DEF Suffix
  <1> QED
    BY <1>2, <1>3 DEF LimitsInit, LimitsInv

\* Every step keeps it.
LEMMA LimitsInvNext == LimitsInv /\ [LimitsNext]_limitVars => LimitsInv'
  <1> SUFFICES ASSUME LimitsInv, [LimitsNext]_limitVars PROVE LimitsInv'
    OBVIOUS
  <1> USE DEF LimitsInv, LimitsTypeOK
  <1>1. CASE Tick
    <2>1. \A p \in Process : /\ Aged(hits[p]) \in Seq(Ages)
                             /\ Aged(inMemory[p]) \in Seq(Ages)
                             /\ Suffix(Aged(hits[p]), Aged(inMemory[p]))
      BY AgedType, SuffixAged
    <2>2. Aged(zset) \in Seq(Ages) /\ Aged(inRedis) \in Seq(Ages)
      BY AgedType
    <2>3. wait' \in 0..Window
      BY <1>1, WindowAssumption DEF Tick
    <2> QED
      BY <1>1, <2>1, <2>2, <2>3 DEF Tick
  <1>2. CASE RedisStops \/ RedisAnswers
    BY <1>2 DEF RedisStops, RedisAnswers
  <1>3. ASSUME NEW p \in Process, CheckMemory(p) PROVE LimitsInv'
    <2>1. UNCHANGED <<zset, up, inRedis>>
      BY <1>3 DEF CheckMemory
    <2> QED
      BY <1>3, <2>1, CheckMemorySuffix
  <1>4. ASSUME CheckRedis PROVE LimitsInv'
    <2>1. PICK k \in 0..Len(zset) :
             /\ zset' = Append(Rest(zset, k), 0)
             /\ \/ inRedis' = Noted(inRedis) /\ Admit
                \/ Reject(Window) /\ UNCHANGED inRedis
             /\ UNCHANGED <<hits, up, inMemory>>
      BY <1>4 DEF CheckRedis
    <2>2. zset' \in Seq(Ages)
      BY <2>1, RestType, AppendType
    <2>3. inRedis' \in Seq(Ages)
      BY <2>1, NotedIsAges
    <2>4. rejected' \in BOOLEAN /\ wait' \in 0..Window
      BY <2>1, WaitBounds DEF Admit, Reject
    <2> QED
      BY <2>1, <2>2, <2>3, <2>4
  <1>5. CASE UNCHANGED limitVars
    BY <1>5 DEF limitVars
  <1> QED
    BY <1>1, <1>2, <1>3, <1>4, <1>5 DEF LimitsNext, Request

\* Every variable of the limiter keeps its type.
THEOREM LimitsTypeCorrect == LimitedSpec => []LimitsTypeOK
  <1>1. LimitsInv => LimitsTypeOK
    BY DEF LimitsInv
  <1> QED
    BY <1>1, LimitsInvInit, LimitsInvNext, PTL DEF LimitedSpec

\* No process ever lets more than Limit requests into one window through its
\* memory: an admission that makes Limit + 1 of them finds a deque shorter than
\* the limit, so the first of them has left the window.
THEOREM MemoryWindowKept == LimitedSpec => []MemoryWindow
  <1>1. LimitsInv => MemoryWindow
    <2> SUFFICES ASSUME LimitsInv, NEW p \in Process
                 PROVE  Spread(inMemory[p], Window + 1)
      BY DEF MemoryWindow
    <2> DEFINE h == hits[p]
               m == inMemory[p]
    <2>1. h \in Seq(Ages) /\ m \in Seq(Ages) /\ Suffix(h, m)
      BY DEF LimitsInv, LimitsTypeOK
    <2> SUFFICES ASSUME Len(m) = Limit + 1 PROVE m[1] >= Window + 1
      BY DEF Spread
    <2> HIDE DEF h, m
    <2>2. 1 \in 1..(Len(m) - Len(h)) /\ 1 \in 1..Len(m)
      BY <2>1, LimitAssumption DEF Suffix
    <2>3. m[1] > Window /\ m[1] \in Ages
      BY <2>1, <2>2 DEF Suffix
    <2> QED
      BY <2>3, WindowAssumption DEF Ages
  <1> QED
    BY <1>1, LimitsInvInit, LimitsInvNext, PTL DEF LimitedSpec

\* The deque of a process never outgrows the limit, whatever is refused.
THEOREM DequeStaysBounded == LimitedSpec => []DequeBounded
  <1>1. LimitsInv => DequeBounded
    BY DEF LimitsInv, Suffix, DequeBounded
  <1> QED
    BY <1>1, LimitsInvInit, LimitsInvNext, PTL DEF LimitedSpec

\* All that memory promises: types, the window and the bounded deque.
THEOREM MemoryLimitsKept == LimitedSpec => []MemoryLimits
<1>1. LimitsTypeOK /\ MemoryWindow /\ DequeBounded => MemoryLimits
  BY DEF MemoryLimits
<1> QED
  BY <1>1, LimitsTypeCorrect, MemoryWindowKept, DequeStaysBounded, PTL

-----------------------------------------------------------------------------
(* The limiter in Redis. *)

\* The j-th latest of the time stamps s.
Latest(s, j) == s[Len(s) + 1 - j]

\* The sorted set is sorted.
Sorted(z) == \A i, l \in 1..Len(z) : i <= l => z[i] >= z[l]

\* The sorted set holds, besides refused requests, the admissions that are
\* still in the window: its j-th latest member is no older than the j-th
\* latest admission, unless that one has left the window.
Covers(z, m) ==
    \A j \in 1..Len(m) :
        \/ Latest(m, j) >= Window
        \/ j <= Len(z) /\ Latest(z, j) <= Latest(m, j)

RedisInv ==
    /\ Len(inRedis) <= Limit + 1
    /\ Sorted(zset) /\ Covers(zset, inRedis)
    /\ RedisWindow

\* zremrangebyscore: what leaves the window leaves the set.
LEMMA CoversPopped ==
    ASSUME NEW z \in Seq(Ages), NEW m \in Seq(Ages), Sorted(z), Covers(z, m),
           NEW k \in 0..Len(z), \A i \in 1..k : z[i] >= Window
    PROVE  Sorted(Rest(z, k)) /\ Covers(Rest(z, k), m)
  <1> DEFINE b == Rest(z, k)
  <1>1. /\ b \in Seq(Ages) /\ Len(b) = Len(z) - k
        /\ \A i \in 1..(Len(z) - k) : b[i] = z[k + i]
    BY RestType
  <1> HIDE DEF b
  <1>2. Len(z) \in Nat /\ Len(m) \in Nat /\ k \in Nat /\ k <= Len(z)
    OBVIOUS
  <1>3. Sorted(b)
    <2> SUFFICES ASSUME NEW i \in 1..Len(b), NEW l \in 1..Len(b), i <= l
                 PROVE  b[i] >= b[l]
      BY DEF Sorted
    <2>1. k + i \in 1..Len(z) /\ k + l \in 1..Len(z) /\ k + i <= k + l
      BY <1>1, <1>2
    <2> QED
      BY <1>1, <2>1 DEF Sorted
  <1>4. ASSUME NEW j \in 1..Len(m), ~ (Latest(m, j) >= Window)
        PROVE  j <= Len(b) /\ Latest(b, j) <= Latest(m, j)
    <2>1. j <= Len(z) /\ Latest(z, j) <= Latest(m, j)
      BY <1>4 DEF Covers
    <2>2. Len(z) + 1 - j \in 1..Len(z) /\ Len(m) + 1 - j \in 1..Len(m)
      BY <1>2, <2>1
    <2>3. Latest(z, j) \in Ages /\ Latest(m, j) \in Ages
      BY <2>2 DEF Latest
    <2>4. ~ (Latest(z, j) >= Window)
      BY <1>4, <2>1, <2>3, WindowAssumption DEF Ages
    <2>5. ~ (Len(z) + 1 - j \in 1..k)
      BY <2>4 DEF Latest
    <2>6. j <= Len(b) /\ Len(b) + 1 - j \in 1..(Len(z) - k)
          /\ k + (Len(b) + 1 - j) = Len(z) + 1 - j
      BY <1>1, <1>2, <2>2, <2>5
    <2>7. Latest(b, j) = Latest(z, j)
      BY <1>1, <2>6 DEF Latest
    <2> QED
      BY <2>1, <2>6, <2>7
  <1>5. Covers(b, m)
    BY <1>4 DEF Covers
  <1> QED
    BY <1>3, <1>5 DEF b

\* The latest members after one more.
LEMMA LatestAppended ==
    ASSUME NEW s \in Seq(Ages)
    PROVE  /\ Latest(Append(s, 0), 1) = 0
           /\ \A j \in 2..(Len(s) + 1) : Latest(Append(s, 0), j) = Latest(s, j - 1)
  <1> DEFINE a == Append(s, 0)
  <1>1. /\ Len(a) = Len(s) + 1 /\ a[Len(s) + 1] = 0 /\ Len(s) \in Nat
        /\ \A i \in 1..Len(s) : a[i] = s[i]
    BY AppendType
  <1> HIDE DEF a
  <1>2. Latest(a, 1) = 0
    <2>1. Len(a) + 1 - 1 = Len(s) + 1
      BY <1>1
    <2> QED
      BY <1>1, <2>1 DEF Latest
  <1>3. ASSUME NEW j \in 2..(Len(s) + 1) PROVE Latest(a, j) = Latest(s, j - 1)
    <2>1. /\ Len(a) + 1 - j \in 1..Len(s)
          /\ Len(a) + 1 - j = Len(s) + 1 - (j - 1)
      BY <1>1
    <2> QED
      BY <1>1, <2>1 DEF Latest
  <1> QED
    BY <1>2, <1>3 DEF a

\* zadd of a request that will be refused pushes nothing out.
LEMMA CoversRefused ==
    ASSUME NEW z \in Seq(Ages), NEW m \in Seq(Ages), Sorted(z), Covers(z, m)
    PROVE  Sorted(Append(z, 0)) /\ Covers(Append(z, 0), m)
  <1> DEFINE a == Append(z, 0)
  <1>1. /\ Len(a) = Len(z) + 1 /\ a[Len(z) + 1] = 0 /\ Len(z) \in Nat
        /\ \A i \in 1..Len(z) : a[i] = z[i]
        /\ a \in Seq(Ages)
    BY AppendType
  <1>2. /\ Latest(a, 1) = 0
        /\ \A j \in 2..(Len(z) + 1) : Latest(a, j) = Latest(z, j - 1)
    BY LatestAppended
  <1> HIDE DEF a
  <1>3. \A i \in 1..Len(z) : z[i] \in Ages
    OBVIOUS
  <1>4. Sorted(a)
    <2> SUFFICES ASSUME NEW i \in 1..Len(a), NEW l \in 1..Len(a), i <= l
                 PROVE  a[i] >= a[l]
      BY DEF Sorted
    <2>1. CASE l = Len(z) + 1
      <3>1. a[i] \in Ages
        BY <1>1
      <3> QED
        BY <1>1, <2>1, <3>1, WindowAssumption DEF Ages
    <2>2. CASE l # Len(z) + 1
      <3>1. i \in 1..Len(z) /\ l \in 1..Len(z)
        BY <1>1, <2>2
      <3> QED
        BY <1>1, <3>1 DEF Sorted
    <2> QED
      BY <2>1, <2>2
  <1>5. ASSUME NEW j \in 1..Len(m), ~ (Latest(m, j) >= Window)
        PROVE  j <= Len(a) /\ Latest(a, j) <= Latest(m, j)
    <2>1. j <= Len(z) /\ Latest(z, j) <= Latest(m, j)
      BY <1>5 DEF Covers
    <2>2. /\ Len(z) + 1 - j \in 1..Len(z) /\ Len(m) + 1 - j \in 1..Len(m)
          /\ j \in Nat /\ j >= 1 /\ j <= Len(a)
      BY <1>1, <2>1
    <2>3. Latest(z, j) \in Ages /\ Latest(m, j) \in Ages
      BY <1>3, <2>2 DEF Latest
    <2>4. CASE j = 1
      BY <1>2, <2>2, <2>3, <2>4, WindowAssumption DEF Ages
    <2>5. CASE j # 1
      <3>1. j \in 2..(Len(z) + 1) /\ Len(z) + 1 - (j - 1) \in 1..Len(z)
            /\ Len(z) + 1 - j <= Len(z) + 1 - (j - 1)
        BY <1>1, <2>1, <2>2, <2>5
      <3>2. Latest(a, j) = Latest(z, j - 1) /\ Latest(z, j - 1) <= Latest(z, j)
        <4>1. Latest(z, j - 1) \in Ages
          BY <1>3, <3>1 DEF Latest
        <4>2. Latest(z, j) >= Latest(z, j - 1)
          BY <2>2, <3>1 DEF Sorted, Latest
        <4> QED
          BY <1>2, <2>3, <3>1, <4>1, <4>2, WindowAssumption DEF Ages
      <3>3. Latest(z, j - 1) \in Ages
        BY <1>3, <3>1 DEF Latest
      <3> QED
        BY <2>1, <2>2, <2>3, <3>2, <3>3, WindowAssumption DEF Ages
    <2> QED
      BY <2>4, <2>5
  <1>6. Covers(a, m)
    BY <1>5 DEF Covers
  <1> QED
    BY <1>4, <1>6 DEF a

\* The latest admissions after one more is noted.
LEMMA LatestNoted ==
    ASSUME NEW m \in Seq(Ages), Len(m) <= Limit + 1
    PROVE  /\ Noted(m) \in Seq(Ages) /\ Len(Noted(m)) <= Limit + 1
           /\ Len(Noted(m)) <= Len(m) + 1
           /\ Latest(Noted(m), 1) = 0
           /\ \A j \in 2..Len(Noted(m)) : Latest(Noted(m), j) = Latest(m, j - 1)
  <1> DEFINE n == Noted(m)
  <1>1. /\ n \in Seq(Ages) /\ Len(n) <= Limit + 1 /\ n[Len(n)] = 0
        /\ Len(m) <= Limit => /\ Len(n) = Len(m) + 1
                              /\ \A i \in 1..Len(m) : n[i] = m[i]
        /\ Len(m) > Limit => /\ Len(n) = Len(m)
                             /\ \A i \in 1..(Len(m) - 1) : n[i] = m[i + 1]
    BY NotedType
  <1> HIDE DEF n
  <1>2. Len(m) \in Nat /\ Len(n) \in Nat /\ Limit \in Nat /\ Limit >= 1
    BY <1>1, LimitAssumption
  <1>3. Latest(n, 1) = 0
    <2>1. Len(n) + 1 - 1 = Len(n)
      BY <1>2
    <2> QED
      BY <1>1, <2>1 DEF Latest
  <1>4. ASSUME NEW j \in 2..Len(n) PROVE Latest(n, j) = Latest(m, j - 1)
    <2> DEFINE i == Len(n) + 1 - j
    <2>1. CASE Len(m) <= Limit
      <3>1. i \in 1..Len(m) /\ i = Len(m) + 1 - (j - 1)
        BY <1>1, <1>2, <2>1
      <3>2. n[i] = m[i]
        BY <1>1, <2>1, <3>1
      <3> QED
        BY <3>1, <3>2 DEF Latest
    <2>2. CASE Len(m) > Limit
      <3>1. i \in 1..(Len(m) - 1) /\ i + 1 = Len(m) + 1 - (j - 1)
        BY <1>1, <1>2, <2>2
      <3> HIDE DEF i
      <3>2. n[i] = m[i + 1]
        BY <1>1, <2>2, <3>1
      <3> QED
        BY <3>1, <3>2 DEF Latest, i
    <2> QED
      BY <1>2, <2>1, <2>2
  <1>5. Len(n) <= Len(m) + 1
    BY <1>1, <1>2
  <1> QED
    BY <1>1, <1>3, <1>4, <1>5 DEF n

\* An admission is a member of both.
LEMMA CoversAdmitted ==
    ASSUME NEW z \in Seq(Ages), NEW m \in Seq(Ages), Covers(z, m),
           Len(m) <= Limit + 1
    PROVE  Covers(Append(z, 0), Noted(m))
  <1> DEFINE a == Append(z, 0)
             n == Noted(m)
  <1>1. /\ n \in Seq(Ages) /\ Len(n) <= Len(m) + 1 /\ Latest(n, 1) = 0
        /\ \A j \in 2..Len(n) : Latest(n, j) = Latest(m, j - 1)
    BY LatestNoted
  <1>2. /\ Len(a) = Len(z) + 1 /\ Latest(a, 1) = 0
        /\ \A j \in 2..(Len(z) + 1) : Latest(a, j) = Latest(z, j - 1)
    BY LatestAppended, AppendType
  <1> HIDE DEF a, n
  <1>3. Len(z) \in Nat /\ Len(m) \in Nat /\ Len(n) \in Nat
    BY <1>1
  <1>4. ASSUME NEW j \in 1..Len(n), ~ (Latest(n, j) >= Window)
        PROVE  j <= Len(a) /\ Latest(a, j) <= Latest(n, j)
    <2>1. CASE j = 1
      BY <1>1, <1>2, <1>3, <2>1
    <2>2. CASE j # 1
      <3>1. j \in 2..Len(n) /\ j - 1 \in 1..Len(m)
        BY <1>1, <1>3, <2>2
      <3>2. Latest(n, j) = Latest(m, j - 1)
        BY <1>1, <3>1
      <3>3. j - 1 <= Len(z) /\ Latest(z, j - 1) <= Latest(m, j - 1)
        BY <1>4, <3>1, <3>2 DEF Covers
      <3>4. j \in 2..(Len(z) + 1) /\ j <= Len(a)
        BY <1>2, <1>3, <3>1, <3>3
      <3> QED
        BY <1>2, <3>2, <3>3, <3>4
    <2> QED
      BY <2>1, <2>2
  <1>5. Covers(a, n)
    BY <1>4 DEF Covers
  <1> QED
    BY <1>5 DEF a, n

\* Time keeps the order of the time stamps.
LEMMA CoversAged ==
    ASSUME NEW z \in Seq(Ages), NEW m \in Seq(Ages), Sorted(z), Covers(z, m)
    PROVE  Sorted(Aged(z)) /\ Covers(Aged(z), Aged(m))
  <1> DEFINE a == Aged(z)
             n == Aged(m)
  <1>1. /\ Len(a) = Len(z) /\ Len(n) = Len(m)
        /\ \A i \in 1..Len(z) : a[i] = IF z[i] > Window THEN z[i] ELSE z[i] + 1
        /\ \A i \in 1..Len(m) : n[i] = IF m[i] > Window THEN m[i] ELSE m[i] + 1
    BY AgedType
  <1>2. /\ Len(z) \in Nat /\ Len(m) \in Nat
        /\ \A i \in 1..Len(z) : z[i] \in Ages
        /\ \A i \in 1..Len(m) : m[i] \in Ages
    OBVIOUS
  <1> HIDE DEF a, n
  <1>3. Sorted(a)
    <2> SUFFICES ASSUME NEW i \in 1..Len(a), NEW l \in 1..Len(a), i <= l
                 PROVE  a[i] >= a[l]
      BY DEF Sorted
    <2>1. z[i] >= z[l] /\ z[i] \in Ages /\ z[l] \in Ages
      BY <1>1, <1>2 DEF Sorted
    <2>2. /\ a[i] = IF z[i] > Window THEN z[i] ELSE z[i] + 1
          /\ a[l] = IF z[l] > Window THEN z[l] ELSE z[l] + 1
      BY <1>1
    <2>3. Window \in Nat /\ z[i] \in 0..(Window + 1) /\ z[l] \in 0..(Window + 1)
      BY <2>1, WindowAssumption DEF Ages
    <2> QED
      BY <2>1, <2>2, <2>3
  <1>4. ASSUME NEW j \in 1..Len(n), ~ (Latest(n, j) >= Window)
        PROVE  j <= Len(a) /\ Latest(a, j) <= Latest(n, j)
    <2> DEFINE i == Len(m) + 1 - j
               l == Len(z) + 1 - j
    <2>1. i \in 1..Len(m) /\ j \in 1..Len(m) /\ Latest(m, j) = m[i] /\ Latest(n, j) = n[i]
      BY <1>1, <1>2 DEF Latest
    <2>2. ~ (m[i] >= Window)
      BY <1>1, <1>2, <1>4, <2>1, WindowAssumption DEF Ages
    <2>3. j <= Len(z) /\ Latest(z, j) <= m[i]
      BY <2>1, <2>2 DEF Covers
    <2>4. l \in 1..Len(z) /\ Latest(z, j) = z[l] /\ Latest(a, j) = a[l]
      BY <1>1, <1>2, <2>1, <2>3 DEF Latest
    <2> HIDE DEF i, l
    <2>5. m[i] \in Ages /\ z[l] \in Ages
      BY <1>2, <2>1, <2>4
    <2>6. z[l] <= m[i]
      BY <2>3, <2>4
    <2>7. /\ m[i] \in Nat /\ z[l] \in Nat /\ Window \in Nat
          /\ z[l] <= m[i] /\ m[i] < Window
      BY <2>5, <2>6, <2>2, WindowAssumption DEF Ages
    <2>8. a[l] = z[l] + 1 /\ n[i] = m[i] + 1
      BY <1>1, <2>1, <2>4, <2>7
    <2>9. a[l] <= n[i] /\ j <= Len(a)
      BY <1>1, <2>3, <2>7, <2>8
    <2> QED
      BY <2>1, <2>4, <2>9
  <1>5. Covers(a, n)
    BY <1>4 DEF Covers
  <1> QED
    BY <1>3, <1>5 DEF a, n

\* What one check in Redis does to the invariant: an admission that makes
\* Limit + 1 of them finds fewer than Limit members, so the admission that is
\* now the first of them has left the window.
LEMMA CheckRedisKeeps ==
    ASSUME LimitsTypeOK, RedisInv, CheckRedis
    PROVE  RedisInv'
  <1>1. /\ zset \in Seq(Ages) /\ inRedis \in Seq(Ages) /\ Len(inRedis) <= Limit + 1
        /\ Sorted(zset) /\ Covers(zset, inRedis) /\ RedisWindow
    BY DEF LimitsTypeOK, RedisInv
  <1>2. PICK k \in 0..Len(zset) :
           /\ Popped(zset, k, Window)
           /\ zset' = Append(Rest(zset, k), 0)
           /\ IF Len(Append(Rest(zset, k), 0)) <= Limit
                THEN inRedis' = Noted(inRedis)
                ELSE UNCHANGED inRedis
    BY DEF CheckRedis
  <1> DEFINE b == Rest(zset, k)
  <1>3. b \in Seq(Ages) /\ Sorted(b) /\ Covers(b, inRedis)
    BY <1>1, <1>2, RestType, CoversPopped DEF Popped
  <1>4. Len(Append(b, 0)) = Len(b) + 1 /\ Len(b) \in Nat
    BY <1>3, AppendType
  <1>5. zset' = Append(b, 0)
    BY <1>2
  <1>6. Sorted(zset')
    BY <1>1, <1>3, <1>5, CoversRefused
  <1>7. CASE Len(Append(b, 0)) <= Limit
    <2>1. inRedis' = Noted(inRedis)
      BY <1>2, <1>7
    <2> HIDE DEF b
    <2>2. Covers(zset', inRedis')
      BY <1>1, <1>3, <1>5, <2>1, CoversAdmitted
    <2>3. /\ inRedis' \in Seq(Ages) /\ Len(inRedis') <= Limit + 1
          /\ Len(inRedis') <= Len(inRedis) + 1
          /\ \A j \in 2..Len(inRedis') : Latest(inRedis', j) = Latest(inRedis, j - 1)
      BY <1>1, <2>1, LatestNoted
    <2>4. ASSUME Len(inRedis') = Limit + 1 PROVE inRedis'[1] >= Window
      <3>1. /\ Limit + 1 \in 2..Len(inRedis') /\ Limit \in 1..Len(inRedis)
            /\ (Limit + 1) - 1 = Limit /\ Len(inRedis') + 1 - (Limit + 1) = 1
        BY <1>1, <2>3, <2>4, LimitAssumption
      <3>2. inRedis'[1] = Latest(inRedis, Limit)
        BY <2>3, <3>1 DEF Latest
      <3>3. ~ (Limit <= Len(b))
        BY <1>4, <1>7, LimitAssumption
      <3> QED
        BY <1>3, <3>1, <3>2, <3>3 DEF Covers
    <2> QED
      BY <1>6, <2>2, <2>3, <2>4 DEF RedisInv, RedisWindow, Spread
  <1>8. CASE ~ (Len(Append(b, 0)) <= Limit)
    <2>1. inRedis' = inRedis
      BY <1>2, <1>8
    <2> HIDE DEF b
    <2>2. Covers(zset', inRedis')
      BY <1>1, <1>3, <1>5, <2>1, CoversRefused
    <2> QED
      BY <1>1, <1>6, <2>1, <2>2 DEF RedisInv, RedisWindow
  <1> QED
    BY <1>7, <1>8

\* The empty set covers no admissions.
LEMMA RedisInvInit == LimitsInit => RedisInv
  BY LimitAssumption DEF LimitsInit, RedisInv, Sorted, Covers, RedisWindow, Spread

\* Every step keeps the sorted set over the admissions.
LEMMA RedisInvNext == LimitsInv /\ RedisInv /\ [LimitsNext]_limitVars => RedisInv'
  <1> SUFFICES ASSUME LimitsInv, RedisInv, [LimitsNext]_limitVars PROVE RedisInv'
    OBVIOUS
  <1>1. CASE Tick
    <2>1. /\ zset \in Seq(Ages) /\ inRedis \in Seq(Ages)
          /\ zset' = Aged(zset) /\ inRedis' = Aged(inRedis)
      BY <1>1 DEF LimitsInv, LimitsTypeOK, Tick
    <2>2. Sorted(zset') /\ Covers(zset', inRedis')
      BY <2>1, CoversAged DEF RedisInv
    <2>3. /\ Len(inRedis') = Len(inRedis)
          /\ \A i \in 1..Len(inRedis) :
                inRedis'[i] = IF inRedis[i] > Window THEN inRedis[i] ELSE inRedis[i] + 1
      BY <2>1, AgedType
    <2>4. ASSUME Len(inRedis') = Limit + 1 PROVE inRedis'[Limit + 1] # 0
      <3>1. Limit + 1 \in 1..Len(inRedis)
        BY <2>1, <2>3, <2>4, LimitAssumption
      <3>2. inRedis[Limit + 1] \in Ages
        BY <2>1, <3>1
      <3> QED
        BY <2>3, <3>1, <3>2, WindowAssumption DEF Ages
    <2> QED
      BY <2>2, <2>3, <2>4 DEF RedisInv, RedisWindow, Spread
  <1>2. CASE RedisStops \/ RedisAnswers
    BY <1>2 DEF RedisStops, RedisAnswers, RedisInv, RedisWindow
  <1>3. ASSUME NEW p \in Process, CheckMemory(p) PROVE RedisInv'
    BY <1>3 DEF CheckMemory, RedisInv, RedisWindow
  <1>4. ASSUME CheckRedis PROVE RedisInv'
    BY <1>4, CheckRedisKeeps DEF LimitsInv
  <1>5. CASE UNCHANGED limitVars
    BY <1>5 DEF limitVars, RedisInv, RedisWindow
  <1> QED
    BY <1>1, <1>2, <1>3, <1>4, <1>5 DEF LimitsNext, Request

\* However many processes share the sorted set, and however often Redis stops
\* and answers again, no more than Limit requests get into one window through
\* it, although refused requests sit in the set as well.
THEOREM RedisWindowKept == LimitedSpec => []RedisWindow
  <1>1. RedisInv => RedisWindow
    BY DEF RedisInv
  <1> QED
    BY <1>1, LimitsInvInit, LimitsInvNext, RedisInvInit, RedisInvNext, PTL DEF LimitedSpec

-----------------------------------------------------------------------------
(* Accounts: the inductive invariants *)

PlanOps == {"pro", "free", "cancel"}
TotpOps == {"setup", "enable", "disable"}

\* What a request holds fits what it is about to do.
Fits(r) ==
    /\ r.pc = "idle" => r = Idle
    /\ r.pc # "idle" => r.op # "none" /\ r.c \in Client
    /\ r.pc = "create" => r.op = "login"
    /\ r.pc = "insert" => r.op \in Ensuring
    /\ r.pc = "record" => r.op = "login"
    /\ r.pc = "key" => r.op = "regenerate"
    /\ r.pc = "answer" => r.op = "refresh"
    /\ r.op = "refresh" => r.pc \in {"write", "answer"}
    /\ r.pc = "write" => r.op # "login"
    /\ r.pc = "write" /\ r.op \in PlanOps => r.was \in Plans /\ (r.op = "cancel" => r.was.plan = "pro")
    /\ r.pc = "write" /\ r.op = "webhook" => r.was \in Hooks
    /\ r.op = "webhook" => r.new \in Hooks /\ (r.new.on => r.new.url)
    /\ r.op \in TotpOps => /\ r.was \in Secrets
                           /\ r.op = "setup" => ~ r.was.enabled
                           /\ r.op = "enable" => r.was.secret # 0
    /\ r.op = "delete" => r.was \in Counted
    /\ r.pc \notin {"idle", "create"} /\ r.op # "refresh" => r.u # 0

RequestsFit == \A p \in Slot : Fits(req[p])

\* Ids are never used again; a deletion has counted no more invoices than its
\* user has.
AccountInv ==
    /\ user <= issued /\ \A p \in Slot : req[p].u <= issued
    /\ \A p \in Slot : req[p].op = "delete" /\ req[p].u = user => req[p].was.invoices <= invoices
    /\ DeletedLeavesNothing

\* A token pair is in one row, and belongs to the client of the row; so does the
\* pair that a refresh is about to answer with.
PairsKept ==
    /\ \A i \in DOMAIN sess : sess[i].pair \in 1 .. issued
    /\ \A i, j \in DOMAIN sess : sess[i].pair = sess[j].pair => i = j
    /\ \A c \in Client : held[c] <= issued
    /\ \A c \in Client : \A i \in DOMAIN sess : sess[i].pair = held[c] => sess[i].c = c
    /\ \A i \in DOMAIN sess : sess[i].expired => i \in astray
    /\ \A p \in Slot : req[p].op = "refresh" /\ req[p].pc = "answer" =>
         /\ req[p].id \in 1 .. issued
         /\ \A i \in DOMAIN sess : sess[i].pair = req[p].id => sess[i].c = req[p].c

Refreshes(p, c) == req[p].op = "refresh" /\ req[p].c = c
RowsAstray(c) == \A i \in DOMAIN sess : sess[i].c = c => i \in astray

\* The pair that the row of a refresh has.
PairOf(r) == IF r.pc = "answer" THEN r.id ELSE held[r.c]

\* A refresh works on a row of its client; while nobody cut the client off, the
\* row is live and has the pair that the client holds or is about to get; a
\* live row of the client that is not astray is that row.
RefreshKept(p, c) ==
    LET r == req[p] IN
    /\ r.at \in DOMAIN sess /\ sess[r.at].c = c
    /\ c \notin cut => sess[r.at].state = "live" /\ sess[r.at].pair = PairOf(r)
    /\ \A i \in DOMAIN sess :
         sess[i].c = c /\ sess[i].state = "live" /\ i \notin astray =>
           i = r.at /\ sess[i].pair = PairOf(r)

\* Clients and the session list agree, client by client; one with two refreshes
\* is cut off, and its rows are astray.
ClientKept(c) ==
    /\ held[c] # 0 /\ c \notin cut /\ ~ Refreshing(c) => Live(c) # {}
    /\ \A i \in DOMAIN sess : sess[i].c = c /\ sess[i].state = "live" /\ i \notin astray =>
         held[c] = sess[i].pair \/ Refreshing(c)
    /\ \A p \in Slot : Refreshes(p, c) => RefreshKept(p, c)
    /\ \A p, q \in Slot : p # q /\ Refreshes(p, c) /\ Refreshes(q, c) => c \in cut /\ RowsAstray(c)

SessionInv == PairsKept /\ \A c \in Client : ClientKept(c)

-----------------------------------------------------------------------------
(* Types, and requests that fit *)

\* A request that neither refreshes nor deletes nor waits to insert a key.
Plain(r) == r.op \notin {"refresh", "delete"} /\ r.pc # "key"

\* A slot turns to a request that is plain, of the user it had or finds.
Turns(p, r) ==
    /\ req' = [req EXCEPT ![p] = r] /\ r \in ReqTypes /\ Fits(r) /\ Plain(r)
    /\ r.u \in {0, user', req[p].u}

\* The idle request is one.
LEMMA IdleFits == Idle \in ReqTypes /\ Fits(Idle) /\ Plain(Idle) /\ Idle.u = 0 /\ Idle.pc = "idle"
<1>1. /\ Idle.op = "none" /\ Idle.c = 0 /\ Idle.pc = "idle" /\ Idle.u = 0
  BY DEF Idle
<1>2. Idle \in ReqTypes
  BY DEF Idle, ReqTypes, Ops
<1>3. Fits(Idle)
  BY <1>1 DEF Fits, PlanOps, TotpOps
<1> QED
  BY <1>1, <1>2, <1>3 DEF Plain

\* ensure_user_settings: the request goes on with the row that it loads.
LEMMA LoadedFits ==
    ASSUME NEW r \in ReqTypes, r.op \in Ensuring, r.c \in Client, r.u # 0, sub \in Plans, hook \in Hooks,
           r.op = "webhook" => r.new \in Hooks /\ (r.new.on => r.new.url), NEW k \in Nat
    PROVE  /\ Loaded(r, k) \in ReqTypes /\ Fits(Loaded(r, k)) /\ Plain(Loaded(r, k))
           /\ Loaded(r, k).u \in {0, r.u}
<1>1. CASE r.op = "login"
  <2> DEFINE s == [r EXCEPT !.pc = "record"]
  <2>1. Loaded(r, k) = s
    BY <1>1 DEF Loaded
  <2>2. s \in ReqTypes
    BY ZenonT(60) DEF ReqTypes
  <2>3. s.pc = "record" /\ s.op = r.op /\ s.c = r.c /\ s.u = r.u
    BY DEF ReqTypes
  <2> QED
    BY <1>1, <2>1, <2>2, <2>3 DEF Fits, Plain, PlanOps, TotpOps
<1>2. CASE r.op \in {"pro", "free"} \/ (r.op = "cancel" /\ sub.plan = "pro")
  <2> DEFINE s == [r EXCEPT !.pc = "write", !.was = sub]
  <2>1. Loaded(r, k) = s
    BY <1>2 DEF Loaded
  <2>2. s \in ReqTypes
    BY ZenonT(60) DEF ReqTypes
  <2>3. s.pc = "write" /\ s.op = r.op /\ s.c = r.c /\ s.u = r.u /\ s.was = sub
    BY DEF ReqTypes
  <2> QED
    BY <1>2, <2>1, <2>2, <2>3 DEF Fits, Plain, PlanOps, TotpOps
<1>3. CASE r.op = "webhook"
  <2> DEFINE s == [r EXCEPT !.pc = "write", !.was = hook]
  <2>1. Loaded(r, k) = s
    BY <1>3 DEF Loaded
  <2>2. s \in ReqTypes
    BY ZenonT(60) DEF ReqTypes
  <2>3. s.pc = "write" /\ s.op = r.op /\ s.c = r.c /\ s.u = r.u /\ s.was = hook /\ s.new = r.new
    BY DEF ReqTypes
  <2> QED
    BY <1>3, <2>1, <2>2, <2>3 DEF Fits, Plain, PlanOps, TotpOps
<1>4. CASE r.op = "regenerate"
  <2> DEFINE s == [r EXCEPT !.pc = "write", !.id = k]
  <2>1. Loaded(r, k) = s
    BY <1>4 DEF Loaded
  <2>2. s \in ReqTypes
    BY ZenonT(60) DEF ReqTypes
  <2>3. s.pc = "write" /\ s.op = r.op /\ s.c = r.c /\ s.u = r.u
    BY DEF ReqTypes
  <2> QED
    BY <1>4, <2>1, <2>2, <2>3 DEF Fits, Plain, PlanOps, TotpOps
<1>5. CASE r.op = "settings" \/ (r.op = "cancel" /\ sub.plan # "pro")
  <2>1. Loaded(r, k) = Idle
    BY <1>5 DEF Loaded
  <2> QED
    BY <2>1, IdleFits
<1> QED
  BY <1>1, <1>2, <1>3, <1>4, <1>5 DEF Ensuring

\* The same for a request that first has rows to insert.
LEMMA EnteredFits ==
    ASSUME TypeOK, NEW p \in Slot, NEW r \in ReqTypes, r.op \in Ensuring, r.c \in Client, r.u # 0, r.u = user,
           r.op = "webhook" => r.new \in Hooks /\ (r.new.on => r.new.url),
           Enters(p, r), user' = user
    PROVE  \E s : Turns(p, s)
<1>1. sub \in Plans /\ hook \in Hooks /\ key \in Nat /\ Missing \in SUBSET {"rows", "key"}
  BY DEF TypeOK, Missing
<1>2. CASE Missing = {}
  <2>1. req' = [req EXCEPT ![p] = Loaded(r, key)]
    BY <1>2 DEF Enters
  <2>2. Turns(p, Loaded(r, key))
    BY <1>1, <2>1, LoadedFits DEF Turns
  <2> QED
    BY <2>2
<1>3. CASE Missing # {}
  <2> DEFINE s == [r EXCEPT !.pc = "insert", !.lacks = Missing]
  <2>1. req' = [req EXCEPT ![p] = s]
    BY <1>3 DEF Enters
  <2>2. s \in ReqTypes
    BY <1>1, ZenonT(60) DEF ReqTypes
  <2>3. s.pc = "insert" /\ s.op = r.op /\ s.c = r.c /\ s.u = r.u /\ s.new = r.new
    BY DEF ReqTypes
  <2>4. Fits(s) /\ Plain(s)
    BY <2>3 DEF Fits, Plain, PlanOps, TotpOps, Ensuring
  <2>5. Turns(p, s)
    BY <2>1, <2>2, <2>3, <2>4 DEF Turns
  <2> QED
    BY <2>5
<1> QED
  BY <1>2, <1>3

\* The callback of a sign-in begins with the user it finds or is to create.
LEMMA LoginTurns ==
    ASSUME TypeOK, RequestsFit, NEW p \in Slot, NEW c \in Client, Login(p, c)
    PROVE  \E s : Turns(p, s)
<1> DEFINE r == [Idle EXCEPT !.op = "login", !.c = c, !.u = user]
<1>1. r.op = "login" /\ r.c = c /\ r.u = user /\ r.pc = "idle"
  BY DEF Idle
<1>2. r \in ReqTypes
  BY Zenon DEF Idle, ReqTypes, Ops, Ensuring, TypeOK
<1>3. CASE user # 0
  <2>1. Enters(p, r) /\ user' = user
    BY <1>3 DEF Login
  <2> HIDE DEF r
  <2> QED
    BY <1>1, <1>2, <1>3, <2>1, EnteredFits DEF Ensuring
<1>4. CASE user = 0
  <2> DEFINE s == [r EXCEPT !.pc = "create"]
  <2>1. req' = [req EXCEPT ![p] = s] /\ user' = user
    BY <1>4 DEF Login
  <2> HIDE DEF r
  <2>2. s \in ReqTypes
    BY <1>2, ZenonT(60) DEF ReqTypes
  <2>3. s.pc = "create" /\ s.op = "login" /\ s.c = c /\ s.u = user
    BY <1>1, <1>2 DEF ReqTypes
  <2>4. Turns(p, s)
    BY <2>1, <2>2, <2>3 DEF Turns, Fits, Plain, PlanOps, TotpOps
  <2> QED
    BY <2>4
<1> QED
  BY <1>3, <1>4

\* The request of the new user goes on with the id of that user.
LEMMA CreateTurns ==
    ASSUME TypeOK, RequestsFit, NEW p \in Slot, CreateUser(p)
    PROVE  \E s : Turns(p, s)
<1>1. req[p] \in ReqTypes /\ Fits(req[p]) /\ req[p].pc = "create" /\ Missing \in SUBSET {"rows", "key"}
  BY DEF TypeOK, RequestsFit, CreateUser, Missing
<1>2. CASE user # 0
  <2>1. req' = [req EXCEPT ![p] = Idle]
    BY <1>2 DEF CreateUser, Ends
  <2>2. Turns(p, Idle)
    BY <2>1, IdleFits DEF Turns
  <2> QED
    BY <2>2
<1>3. CASE user = 0
  <2> DEFINE s == [req[p] EXCEPT !.pc = "insert", !.lacks = Missing, !.u = user']
  <2>1. user' = issued + 1 /\ user' \in Nat \ {0} /\ issued' = issued + 1
    BY <1>3 DEF CreateUser, TypeOK
  <2>2. req' = [req EXCEPT ![p] = s]
    BY <1>1, <1>3 DEF CreateUser, ReqTypes, TypeOK
  <2>3. s \in ReqTypes
    BY <1>1, <2>1, ZenonT(60) DEF ReqTypes
  <2>4. s.pc = "insert" /\ s.op = req[p].op /\ s.c = req[p].c /\ s.u = user'
    BY <1>1 DEF ReqTypes
  <2>5. s.op = "login" /\ s.c \in Client
    BY <1>1, <2>4 DEF Fits
  <2>6. Turns(p, s)
    BY <2>1, <2>2, <2>3, <2>4, <2>5 DEF Turns, Fits, Plain, PlanOps, TotpOps, Ensuring
  <2> QED
    BY <2>6
<1> QED
  BY <1>2, <1>3

\* The request whose missing rows are inserted goes on with its user.
LEMMA InsertTurns ==
    ASSUME TypeOK, RequestsFit, NEW p \in Slot, EnsureInsert(p)
    PROVE  \E s : Turns(p, s)
<1> DEFINE r == [req[p] EXCEPT !.lacks = {}]
           k == IF "key" \in req[p].lacks THEN issued + 1 ELSE key
<1>1. req[p] \in ReqTypes /\ Fits(req[p]) /\ req[p].pc = "insert" /\ user' = user
  BY DEF TypeOK, RequestsFit, EnsureInsert
<1>2. req' = [req EXCEPT ![p] = Loaded(r, k)] \/ req' = [req EXCEPT ![p] = Idle]
  BY DEF EnsureInsert, Ends
<1>3. r \in ReqTypes
  BY <1>1, ZenonT(60) DEF ReqTypes
<1>4. r.pc = req[p].pc /\ r.op = req[p].op /\ r.c = req[p].c /\ r.u = req[p].u /\ r.new = req[p].new
  BY <1>1 DEF ReqTypes
<1>5. k \in Nat /\ sub \in Plans /\ hook \in Hooks
  BY DEF TypeOK
<1>6. r.op \in Ensuring /\ r.c \in Client /\ r.u # 0 /\ (r.op = "webhook" => r.new \in Hooks /\ (r.new.on => r.new.url))
  BY <1>1, <1>4 DEF Fits, Ensuring
<1> HIDE DEF r, k
<1>7. /\ Loaded(r, k) \in ReqTypes /\ Fits(Loaded(r, k)) /\ Plain(Loaded(r, k))
      /\ Loaded(r, k).u \in {0, req[p].u}
  BY <1>3, <1>4, <1>5, <1>6, LoadedFits
<1> QED
  BY <1>2, <1>7, IdleFits DEF Turns

\* A request on the settings begins with the user it is authenticated for.
LEMMA AskTurns ==
    ASSUME TypeOK, RequestsFit, NEW p \in Slot, NEW c \in Client, NEW op \in Ensuring \ {"login"}, Ask(p, c, op)
    PROVE  \E s : Turns(p, s)
<1>1. PICK new \in (IF op = "webhook" THEN {h \in Hooks : h.on => h.url} ELSE {Nothing}) :
        Enters(p, [Idle EXCEPT !.op = op, !.c = c, !.u = user, !.new = new])
  BY DEF Ask
<1> DEFINE r == [Idle EXCEPT !.op = op, !.c = c, !.u = user, !.new = new]
<1>2. r.op = op /\ r.c = c /\ r.u = user /\ r.pc = "idle" /\ r.new = new
  BY DEF Idle
<1>3. new \in {Nothing} \cup Hooks /\ (op = "webhook" => new \in Hooks /\ (new.on => new.url)) /\ user \in Nat
  BY DEF TypeOK
<1>4. r \in ReqTypes
  BY <1>3, Zenon DEF Idle, ReqTypes, Ops
<1>5. user # 0 /\ user' = user
  BY DEF Ask, Authenticated
<1> HIDE DEF r
<1> QED
  BY <1>1, <1>2, <1>3, <1>4, <1>5, EnteredFits DEF r

\* A request on the second factor begins with the row it has loaded.
LEMMA TwoFactorTurns ==
    ASSUME TypeOK, RequestsFit, NEW p \in Slot, NEW c \in Client, NEW op \in TotpOps, TwoFactor(p, c, op)
    PROVE  \E s : Turns(p, s)
<1> DEFINE r == [Idle EXCEPT !.op = op, !.c = c, !.u = user, !.pc = "write", !.was = totp]
<1>1. req' = [req EXCEPT ![p] = r] /\ user # 0 /\ user' = user /\ user \in Nat /\ totp \in Secrets
  BY DEF TwoFactor, Authenticated, TypeOK
<1>2. r.op = op /\ r.c = c /\ r.u = user /\ r.pc = "write" /\ r.was = totp
  BY DEF Idle
<1>3. r \in ReqTypes
  BY <1>1, Zenon DEF Idle, ReqTypes, Ops, TotpOps
<1>4. (op = "setup" => ~ totp.enabled) /\ (op = "enable" => totp.secret # 0)
  BY DEF TwoFactor, MayBegin
<1> HIDE DEF r
<1>5. Fits(r) /\ Plain(r)
  BY <1>1, <1>2, <1>4 DEF Fits, Plain, PlanOps, TotpOps
<1> QED
  BY <1>1, <1>2, <1>3, <1>5 DEF Turns

\* A slot that takes a request that fits leaves the others alone.
LEMMA SlotFits ==
    ASSUME TypeOK, RequestsFit, NEW p \in Slot, NEW r \in ReqTypes, Fits(r), req' = [req EXCEPT ![p] = r]
    PROVE  req' \in [Slot -> ReqTypes] /\ RequestsFit' /\ req'[p] = r /\ \A q \in Slot \ {p} : req'[q] = req[q]
<1>1. req \in [Slot -> ReqTypes]
  BY DEF TypeOK
<1>2. req'[p] = r /\ \A q \in Slot \ {p} : req'[q] = req[q]
  BY <1>1
<1>3. RequestsFit'
  BY <1>2 DEF RequestsFit
<1> QED
  BY <1>1, <1>2, <1>3

\* The commit of a loaded row keeps the type of the row.
LEMMA MergeTyped ==
    ASSUME NEW was, NEW new, NEW row
    PROVE  /\ new \in Plans /\ row \in Plans => Merge(was, new, row) \in Plans
           /\ new \in Hooks /\ row \in Hooks => Merge(was, new, row) \in Hooks
           /\ new \in Secrets /\ row \in Secrets => Merge(was, new, row) \in Secrets
<1>1. ASSUME new \in Plans, row \in Plans PROVE Merge(was, new, row) \in Plans
  BY <1>1 DEF Merge, Plans
<1>2. ASSUME new \in Hooks, row \in Hooks PROVE Merge(was, new, row) \in Hooks
  BY <1>2 DEF Merge, Hooks
<1>3. ASSUME new \in Secrets, row \in Secrets PROVE Merge(was, new, row) \in Secrets
  BY <1>3 DEF Merge, Secrets
<1> QED
  BY <1>1, <1>2, <1>3

\* Revoking rows keeps what they are.
LEMMA RevokedRows ==
    ASSUME sess \in Seq(Row), NEW is
    PROVE  /\ Revoked(is) \in Seq(Row) /\ DOMAIN Revoked(is) = DOMAIN sess
           /\ \A i \in DOMAIN sess :
                /\ Revoked(is)[i].pair = sess[i].pair /\ Revoked(is)[i].c = sess[i].c
                /\ Revoked(is)[i].expired = sess[i].expired
                /\ Revoked(is)[i].state = IF i \in is /\ sess[i].state = "live" THEN "revoked" ELSE sess[i].state
<1>1. ASSUME NEW i \in DOMAIN sess PROVE sess[i] \in Row /\ [sess[i] EXCEPT !.state = "revoked"] \in Row
  <2>1. sess[i] \in Row
    OBVIOUS
  <2> QED
    BY <2>1, Zenon DEF Row
<1>2. /\ DOMAIN Revoked(is) = DOMAIN sess
      /\ \A i \in DOMAIN sess :
           Revoked(is)[i] = IF i \in is /\ sess[i].state = "live" THEN [sess[i] EXCEPT !.state = "revoked"] ELSE sess[i]
  BY DEF Revoked
<1>3. Revoked(is) \in Seq(Row)
  <2>1. DOMAIN sess = 1 .. Len(sess) /\ Len(sess) \in Nat
    OBVIOUS
  <2>2. \A i \in 1 .. Len(sess) : (IF i \in is /\ sess[i].state = "live" THEN [sess[i] EXCEPT !.state = "revoked"] ELSE sess[i]) \in Row
    BY <1>1, <2>1
  <2>3. [i \in 1 .. Len(sess) |-> IF i \in is /\ sess[i].state = "live" THEN [sess[i] EXCEPT !.state = "revoked"] ELSE sess[i]] \in Seq(Row)
    BY <2>1, <2>2
  <2> QED
    BY <2>1, <2>3 DEF Revoked
<1>4. ASSUME NEW i \in DOMAIN sess
      PROVE  /\ Revoked(is)[i].pair = sess[i].pair /\ Revoked(is)[i].c = sess[i].c
             /\ Revoked(is)[i].expired = sess[i].expired
             /\ Revoked(is)[i].state = IF i \in is /\ sess[i].state = "live" THEN "revoked" ELSE sess[i].state
  BY <1>1, <1>2 DEF Row
<1> QED
  BY <1>2, <1>3, <1>4

\* The types, and requests that fit, at the start.
LEMMA TypeInit == Init => TypeOK /\ RequestsFit
<1> SUFFICES ASSUME Init PROVE TypeOK /\ RequestsFit
  OBVIOUS
<1>1. Client # {} /\ First \in Client /\ 0 \notin Client
  BY ClientAssumption DEF First
<1>2. NewRow(3, First) \in Row
  BY <1>1 DEF NewRow, Row
<1>3. sess \in Seq(Row)
  <2>1. CASE user # 0
    BY <1>2, <2>1 DEF Init
  <2>2. CASE user = 0
    BY <2>2 DEF Init
  <2> QED
    BY <2>1, <2>2
<1>4. sub \in Plans /\ hook \in Hooks
  BY DEF Init, Free, NoHook, Plans, Hooks
<1>5. totp \in Secrets
  <2>1. NoSecret \in Secrets /\ [secret |-> 2, enabled |-> FALSE] \in Secrets /\ [secret |-> 2, enabled |-> TRUE] \in Secrets
    BY DEF NoSecret, Secrets
  <2> QED
    BY <2>1 DEF Init
<1>6. req \in [Slot -> ReqTypes] /\ RequestsFit
  BY IdleFits DEF Init, RequestsFit
<1>7. held \in [Client -> Nat]
  BY <1>1 DEF Init
<1>8. user \in Nat /\ content \in BOOLEAN /\ rows \in BOOLEAN /\ key \in Nat
  <2>1. \/ user = 0 /\ rows = FALSE /\ key = 0 /\ content = FALSE
        \/ user = 1 /\ rows = TRUE /\ key = 1 /\ content \in BOOLEAN
    BY DEF Init
  <2>2. CASE user = 0 /\ rows = FALSE /\ key = 0 /\ content = FALSE
    BY <2>2
  <2>3. CASE user = 1 /\ rows = TRUE /\ key = 1 /\ content \in BOOLEAN
    BY <2>3
  <2> QED
    BY <2>1, <2>2, <2>3
<1>9. /\ invoices \in Nat /\ shown \in Nat /\ proved \subseteq Nat /\ issued \in Nat
      /\ requests \in 0 .. MaxRequests /\ faults \in 0 .. MaxFaults
      /\ cut \subseteq Client /\ astray \subseteq Nat /\ mixed \subseteq {"sub", "hook", "totp", "key"}
  BY BoundAssumption DEF Init
<1> QED
  BY <1>3, <1>4, <1>5, <1>6, <1>7, <1>8, <1>9 DEF TypeOK

\* Every step keeps the types, and requests that fit.
LEMMA TypeNext == TypeOK /\ RequestsFit /\ AccountInv /\ [Next]_vars => TypeOK' /\ RequestsFit'
<1> SUFFICES ASSUME TypeOK, RequestsFit, AccountInv, [Next]_vars PROVE TypeOK' /\ RequestsFit'
  OBVIOUS
<1>t. /\ user \in Nat /\ content \in BOOLEAN /\ rows \in BOOLEAN /\ sess \in Seq(Row)
      /\ sub \in Plans /\ hook \in Hooks /\ totp \in Secrets
      /\ invoices \in Nat /\ key \in Nat /\ shown \in Nat /\ proved \subseteq Nat
      /\ held \in [Client -> Nat] /\ req \in [Slot -> ReqTypes]
      /\ issued \in Nat /\ requests \in 0 .. MaxRequests /\ faults \in 0 .. MaxFaults
      /\ cut \subseteq Client /\ astray \subseteq Nat
      /\ mixed \subseteq {"sub", "hook", "totp", "key"}
  BY DEF TypeOK
<1>r. \A p \in Slot : req[p] \in ReqTypes /\ Fits(req[p])
  BY <1>t DEF RequestsFit
<1>s. \A i \in DOMAIN sess : sess[i] \in Row /\ i \in Nat
  BY <1>t
<1>f. ASSUME Fault PROVE faults' \in 0 .. MaxFaults
  BY <1>f, <1>t, BoundAssumption DEF Fault
<1>a. ASSUME Asked PROVE requests' \in 0 .. MaxRequests
  BY <1>a, <1>t, BoundAssumption DEF Asked
<1>e. ASSUME NEW p \in Slot, Ends(p) PROVE req' \in [Slot -> ReqTypes] /\ RequestsFit'
  BY <1>e, IdleFits, SlotFits DEF Ends
<1>u. ASSUME NEW p \in Slot, NEW s, Turns(p, s) PROVE req' \in [Slot -> ReqTypes] /\ RequestsFit'
  BY <1>u, SlotFits DEF Turns
<1>o. ASSUME NEW c \in Client, Overlaps(c) PROVE cut' \subseteq Client /\ astray' \subseteq Nat
  BY <1>o, <1>t, <1>s DEF Overlaps
<1>w. \A is : is \subseteq DOMAIN sess => Owners(is) \subseteq Client
  BY <1>s DEF Owners, Row
<1>m. ASSUME NEW name \in {"sub", "hook", "totp"}, NEW was, NEW row, Mixes(name, was, row)
      PROVE  mixed' \subseteq {"sub", "hook", "totp", "key"}
  BY <1>m, <1>t DEF Mixes
<1>n. ASSUME NEW c \in Client, NEW pair \in Nat PROVE NewRow(pair, c) \in Row
  BY DEF NewRow, Row
<1>1. ASSUME NEW p \in Slot, NEW c \in Client, Login(p, c) PROVE TypeOK' /\ RequestsFit'
  BY <1>1, <1>a, <1>t, <1>u, LoginTurns DEF Login, session, settings, hist, TypeOK
<1>2. ASSUME NEW p \in Slot, CreateUser(p) PROVE TypeOK' /\ RequestsFit'
  <2>1. user' \in Nat /\ issued' \in Nat
    BY <1>2, <1>t DEF CreateUser
  <2> QED
    BY <1>2, <1>t, <1>u, <2>1, CreateTurns DEF CreateUser, session, settings, hist, TypeOK
<1>3. ASSUME NEW p \in Slot, EnsureInsert(p) PROVE TypeOK' /\ RequestsFit'
  <2>1. rows' \in BOOLEAN /\ key' \in Nat /\ issued' \in Nat
    <3>1. issued + 1 \in Nat
      BY <1>t
    <3>2. CASE user = req[p].u /\ req[p].lacks \subseteq Missing
      BY <1>3, <1>t, <3>1, <3>2 DEF EnsureInsert
    <3>3. CASE ~ (user = req[p].u /\ req[p].lacks \subseteq Missing)
      BY <1>3, <1>t, <3>3 DEF EnsureInsert
    <3> QED
      BY <3>2, <3>3
  <2> QED
    BY <1>3, <1>t, <1>u, <2>1, InsertTurns DEF EnsureInsert, session, hist, TypeOK
<1>4. ASSUME NEW p \in Slot, RecordSession(p) PROVE TypeOK' /\ RequestsFit'
  <2> DEFINE c == req[p].c
  <2>1. c \in Client /\ Live(c) \subseteq Nat
    BY <1>4, <1>r, <1>s DEF RecordSession, Fits, Live, RowsOf
  <2>2. CASE user = req[p].u
    <3>1. issued' \in Nat /\ sess' = Append(sess, NewRow(issued + 1, c)) /\ NewRow(issued + 1, c) \in Row
      BY <1>4, <1>t, <1>n, <2>1, <2>2 DEF RecordSession
    <3>2. sess' \in Seq(Row) /\ Len(sess') \in Nat
      BY <1>t, <3>1
    <3>3. CASE /\ held' = [held EXCEPT ![c] = issued + 1]
               /\ astray' = astray \cup Live(c) \cup (IF Refreshing(c) THEN {Len(sess')} ELSE {})
               /\ cut' = IF Refreshing(c) THEN cut \cup {c} ELSE cut \ {c}
               /\ UNCHANGED faults
      <4>1. held' \in [Client -> Nat]
        BY <1>t, <2>1, <3>1, <3>3 DEF RecordSession
      <4>2. astray' \subseteq Nat
        BY <1>t, <2>1, <3>2, <3>3
      <4>3. cut' \subseteq Client
        BY <1>t, <2>1, <3>3
      <4> QED
        BY <1>4, <1>e, <1>t, <3>1, <3>2, <3>3, <4>1, <4>2, <4>3 DEF RecordSession, settings, hist, TypeOK
    <3>4. CASE Fault /\ astray' = astray \cup {Len(sess')} /\ UNCHANGED <<held, cut>>
      BY <1>4, <1>e, <1>f, <1>t, <3>1, <3>2, <3>4 DEF RecordSession, settings, hist, TypeOK
    <3> QED
      BY <1>4, <2>2, <3>3, <3>4 DEF RecordSession
  <2>3. CASE user # req[p].u
    BY <1>4, <1>e, <1>t, <2>3 DEF RecordSession, session, settings, hist, TypeOK
  <2> QED
    BY <2>2, <2>3
<1>5. ASSUME NEW p \in Slot, NEW c \in Client, Refresh(p, c) PROVE TypeOK' /\ RequestsFit'
  <2>1. held' \in [Client -> Nat]
    <3>1. held' = [held EXCEPT ![c] = 0] \/ held' = held
      BY <1>5 DEF Refresh
    <3> QED
      BY <1>t, <3>1
  <2>2. req' \in [Slot -> ReqTypes] /\ RequestsFit'
    <3>1. CASE req' = req
      BY <1>t, <3>1 DEF RequestsFit
    <3>2. CASE req' # req
      <4>1. PICK i \in DOMAIN sess :
              req' = [req EXCEPT ![p] = [Idle EXCEPT !.op = "refresh", !.c = c, !.pc = "write", !.at = i]]
        BY <1>5, <3>2 DEF Refresh, Live, RowsOf
      <4> DEFINE r == [Idle EXCEPT !.op = "refresh", !.c = c, !.pc = "write", !.at = i]
      <4>2. r.op = "refresh" /\ r.c = c /\ r.pc = "write"
        BY DEF Idle
      <4>3. i \in Nat
        BY <1>s
      <4>4. r \in ReqTypes
        BY <4>3, Zenon DEF Idle, ReqTypes, Ops
      <4> HIDE DEF r
      <4>5. Fits(r)
        BY <4>2 DEF Fits, PlanOps, TotpOps
      <4> QED
        BY <4>1, <4>4, <4>5, SlotFits DEF r
    <3> QED
      BY <3>1, <3>2
  <2> QED
    BY <1>5, <1>a, <1>o, <1>t, <2>1, <2>2 DEF Refresh, settings, hist, TypeOK
<1>6. ASSUME NEW p \in Slot, RefreshCommit(p) PROVE TypeOK' /\ RequestsFit'
  <2> DEFINE i == req[p].at
             r == [req[p] EXCEPT !.pc = "answer", !.id = issued + 1]
  <2>1. CASE sess[i].state = "gone"
    BY <1>6, <1>e, <1>t, <2>1 DEF RefreshCommit, settings, hist, TypeOK
  <2>2. CASE sess[i].state # "gone"
    <3>1. issued' = issued + 1 /\ issued' \in Nat /\ sess' = [sess EXCEPT ![i] = Rotated(sess[i], issued + 1)]
          /\ req' = [req EXCEPT ![p].pc = "answer", ![p].id = issued + 1]
      BY <1>6, <1>t, <2>2 DEF RefreshCommit
    <3>2. req' = [req EXCEPT ![p] = r]
      BY <1>t, <3>1 DEF ReqTypes
    <3>3. r \in ReqTypes
      BY <1>r, <3>1, ZenonT(60) DEF ReqTypes
    <3>4. r.pc = "answer" /\ r.op = "refresh" /\ r.c = req[p].c
      BY <1>6, <1>r DEF RefreshCommit, ReqTypes
    <3>5. Fits(r)
      BY <1>6, <1>r, <3>4 DEF RefreshCommit, Fits, PlanOps, TotpOps
    <3>6. i \in DOMAIN sess => Rotated(sess[i], issued + 1) \in Row
      BY <1>s, <3>1, Zenon DEF Rotated, Row
    <3>7. sess' \in Seq(Row)
      <4>1. CASE i \in DOMAIN sess
        BY <1>t, <3>1, <3>6, <4>1
      <4>2. CASE i \notin DOMAIN sess
        <5>1. sess' = sess
          BY <1>t, <3>1, <4>2
        <5> QED
          BY <1>t, <5>1
      <4> QED
        BY <4>1, <4>2
    <3> HIDE DEF r
    <3> QED
      BY <1>6, <1>t, <3>1, <3>2, <3>3, <3>5, <3>7, SlotFits DEF RefreshCommit, settings, hist, TypeOK
  <2> QED
    BY <2>1, <2>2
<1>7. ASSUME NEW p \in Slot, RefreshAnswer(p) PROVE TypeOK' /\ RequestsFit'
  <2>1. req[p].c \in Client /\ req[p].id \in Nat /\ req[p].at \in Nat
    BY <1>7, <1>r DEF RefreshAnswer, Fits, ReqTypes
  <2>2. CASE held' = [held EXCEPT ![req[p].c] = req[p].id] /\ UNCHANGED <<cut, astray, faults>>
    BY <1>7, <1>e, <1>t, <2>1, <2>2 DEF RefreshAnswer, settings, hist, TypeOK
  <2>3. CASE Fault /\ UNCHANGED held /\ cut' = cut \cup {req[p].c} /\ astray' = astray \cup {req[p].at}
    BY <1>7, <1>e, <1>f, <1>t, <2>1, <2>3 DEF RefreshAnswer, settings, hist, TypeOK
  <2> QED
    BY <1>7, <2>2, <2>3 DEF RefreshAnswer
<1>8. ASSUME NEW c \in Client, Logout(c) PROVE TypeOK' /\ RequestsFit'
  <2>1. sess' \in Seq(Row) /\ held' \in [Client -> Nat]
    BY <1>8, <1>t, RevokedRows DEF Logout
  <2> QED
    BY <1>8, <1>a, <1>o, <1>t, <2>1 DEF Logout, settings, hist, TypeOK, RequestsFit
<1>9. ASSUME NEW c \in Client, NEW i \in DOMAIN sess, RevokeSession(c, i) PROVE TypeOK' /\ RequestsFit'
  <2>1. sess' \in Seq(Row) /\ cut' \subseteq Client
    BY <1>9, <1>t, <1>w, RevokedRows DEF RevokeSession
  <2> QED
    BY <1>9, <1>a, <1>t, <2>1 DEF RevokeSession, settings, hist, TypeOK, RequestsFit
<1>10. ASSUME NEW c \in Client, RevokeOthers(c) PROVE TypeOK' /\ RequestsFit'
  <2>1. OthersThan(c) \subseteq DOMAIN sess
    BY DEF OthersThan
  <2>2. sess' \in Seq(Row) /\ cut' \subseteq Client
    BY <1>10, <1>t, <1>w, <2>1, RevokedRows DEF RevokeOthers
  <2> QED
    BY <1>10, <1>a, <1>t, <2>2 DEF RevokeOthers, settings, hist, TypeOK, RequestsFit
<1>11. ASSUME NEW i \in DOMAIN sess, Expire(i) PROVE TypeOK' /\ RequestsFit'
  <2>1. [sess[i] EXCEPT !.expired = TRUE] \in Row
    BY <1>s, Zenon DEF Row
  <2>2. sess' = [sess EXCEPT ![i] = [sess[i] EXCEPT !.expired = TRUE]]
    BY <1>11 DEF Expire
  <2>3. sess' \in Seq(Row) /\ cut' \subseteq Client /\ astray' \subseteq Nat
    BY <1>11, <1>s, <1>t, <1>w, <2>1, <2>2 DEF Expire
  <2> QED
    BY <1>11, <1>f, <1>t, <2>3 DEF Expire, settings, hist, TypeOK, RequestsFit
<1>12. ASSUME NEW p \in Slot, NEW c \in Client, NEW op \in Ensuring \ {"login"}, Ask(p, c, op)
       PROVE  TypeOK' /\ RequestsFit'
  BY <1>12, <1>a, <1>t, <1>u, AskTurns DEF Ask, session, settings, hist, TypeOK
<1>13. ASSUME NEW p \in Slot, ChangePlan(p) PROVE TypeOK' /\ RequestsFit'
  <2>1. req[p].was \in Plans /\ req[p].op \in PlanOps
    BY <1>13, <1>r DEF ChangePlan, Fits, PlanOps
  <2>2. NewPlan(req[p].op, req[p].was) \in Plans
    <3>1. Pro \in Plans /\ Free \in Plans
      BY DEF Pro, Free, Plans
    <3>2. [req[p].was EXCEPT !.cancel = TRUE] \in Plans
      BY <2>1, Zenon DEF Plans
    <3> QED
      BY <2>1, <3>1, <3>2 DEF NewPlan, PlanOps
  <2>3. sub' \in Plans /\ invoices' \in Nat /\ mixed' \subseteq {"sub", "hook", "totp", "key"}
    <3>1. Seeded(req[p].op) \in Nat
      BY DEF Seeded
    <3> QED
      <4>1. CASE rows /\ user = req[p].u
        <5>1. /\ sub' = Merge(req[p].was, NewPlan(req[p].op, req[p].was), sub) /\ Mixes("sub", req[p].was, sub)
              /\ invoices' = invoices + Seeded(req[p].op)
          BY <1>13, <4>1 DEF ChangePlan
        <5> QED
          BY <1>m, <1>t, <2>2, <3>1, <5>1, MergeTyped
      <4>2. CASE ~ (rows /\ user = req[p].u)
        BY <1>13, <1>t, <4>2 DEF ChangePlan
      <4> QED
        BY <4>1, <4>2
  <2> QED
    BY <1>13, <1>e, <1>t, <2>3 DEF ChangePlan, session, TypeOK
<1>14. ASSUME NEW p \in Slot, UpdateWebhook(p) PROVE TypeOK' /\ RequestsFit'
  <2>1. req[p].new \in Hooks
    BY <1>14, <1>r DEF UpdateWebhook, Fits
  <2>2. hook' \in Hooks /\ mixed' \subseteq {"sub", "hook", "totp", "key"}
    <3>1. CASE rows /\ user = req[p].u
      <4>1. hook' = Merge(req[p].was, req[p].new, hook) /\ Mixes("hook", req[p].was, hook)
        BY <1>14, <3>1 DEF UpdateWebhook, WebhookSet
      <4> QED
        BY <1>m, <1>t, <2>1, <4>1, MergeTyped
    <3>2. CASE ~ (rows /\ user = req[p].u)
      BY <1>14, <1>t, <3>2 DEF UpdateWebhook
    <3> QED
      BY <3>1, <3>2
  <2> QED
    BY <1>14, <1>e, <1>t, <2>2 DEF UpdateWebhook, session, TypeOK
<1>15. ASSUME NEW p \in Slot, DeleteKey(p) PROVE TypeOK' /\ RequestsFit'
  <2> DEFINE r == [req[p] EXCEPT !.pc = "key"]
  <2>1. key' \in Nat /\ req' = [req EXCEPT ![p] = r]
    BY <1>15, <1>t DEF DeleteKey
  <2>2. r \in ReqTypes
    BY <1>r, ZenonT(60) DEF ReqTypes
  <2>3. r.pc = "key" /\ r.op = req[p].op /\ r.c = req[p].c /\ r.u = req[p].u
    BY <1>r DEF ReqTypes
  <2>4. Fits(r)
    BY <1>15, <1>r, <2>3 DEF DeleteKey, Fits, PlanOps, TotpOps
  <2> HIDE DEF r
  <2> QED
    BY <1>15, <1>t, <2>1, <2>2, <2>4, SlotFits DEF DeleteKey, session, hist, TypeOK
<1>16. ASSUME NEW p \in Slot, CreateKey(p) PROVE TypeOK' /\ RequestsFit'
  <2>1. key' \in Nat /\ shown' \in Nat /\ issued' \in Nat /\ mixed' \subseteq {"sub", "hook", "totp", "key"}
    <3>1. issued + 1 \in Nat
      BY <1>t
    <3>2. CASE user = req[p].u /\ key = 0
      BY <1>16, <1>t, <3>1, <3>2 DEF CreateKey
    <3>3. CASE ~ (user = req[p].u /\ key = 0)
      BY <1>16, <1>t, <3>3 DEF CreateKey
    <3> QED
      BY <3>2, <3>3
  <2> QED
    BY <1>16, <1>e, <1>t, <2>1 DEF CreateKey, session, TypeOK
<1>17. ASSUME NEW p \in Slot, NEW c \in Client, NEW op \in {"setup", "enable", "disable"}, TwoFactor(p, c, op)
       PROVE  TypeOK' /\ RequestsFit'
  BY <1>17, <1>a, <1>t, <1>u, TwoFactorTurns DEF TwoFactor, session, settings, hist, TypeOK, TotpOps
<1>18. ASSUME NEW p \in Slot, TwoFactorCommit(p) PROVE TypeOK' /\ RequestsFit'
  <2>1. req[p].was \in Secrets /\ req[p].op \in TotpOps
    BY <1>18, <1>r DEF TwoFactorCommit, Fits, TotpOps
  <2>2. NewTotp(req[p].op, req[p].was, issued + 1) \in Secrets
    <3>1. NoSecret \in Secrets
      BY DEF NoSecret, Secrets
    <3>2. issued + 1 \in Nat
      BY <1>t
    <3>3. [req[p].was EXCEPT !.secret = issued + 1] \in Secrets /\ [req[p].was EXCEPT !.enabled = TRUE] \in Secrets
      BY <2>1, <3>2, Zenon DEF Secrets
    <3> QED
      BY <2>1, <3>1, <3>3 DEF NewTotp, TotpOps
  <2>3. req[p].was.secret \in Nat
    BY <2>1 DEF Secrets
  <2>4. totp' \in Secrets /\ proved' \subseteq Nat /\ issued' \in Nat /\ mixed' \subseteq {"sub", "hook", "totp", "key"}
    <3>1. CASE user = req[p].u
      <4>1. /\ totp' = Merge(req[p].was, NewTotp(req[p].op, req[p].was, issued + 1), totp)
            /\ Mixes("totp", req[p].was, totp)
            /\ proved' \subseteq proved \cup {req[p].was.secret} /\ issued' \in {issued, issued + 1}
        BY <1>18, <3>1 DEF TwoFactorCommit
      <4>2. totp' \in Secrets /\ mixed' \subseteq {"sub", "hook", "totp", "key"}
        BY <1>m, <1>t, <2>2, <4>1, MergeTyped
      <4> QED
        BY <1>t, <2>3, <4>1, <4>2
    <3>2. CASE user # req[p].u
      BY <1>18, <1>t, <3>2 DEF TwoFactorCommit
    <3> QED
      BY <3>1, <3>2
  <2> QED
    BY <1>18, <1>e, <1>t, <2>4 DEF TwoFactorCommit, session, TypeOK
<1>19. ASSUME NEW p \in Slot, NEW c \in Client, Delete(p, c) PROVE TypeOK' /\ RequestsFit'
  <2> DEFINE w == [sessions |-> Len(sess), key |-> key, invoices |-> invoices, rows |-> rows]
             r == [Idle EXCEPT !.op = "delete", !.c = c, !.u = user, !.pc = "write", !.was = w]
  <2>1. w \in Counted
    BY <1>t DEF Counted
  <2>2. req' = [req EXCEPT ![p] = r] /\ user # 0 /\ user \in Nat
    BY <1>19, <1>t DEF Delete, Authenticated
  <2> HIDE DEF w
  <2>3. r.op = "delete" /\ r.c = c /\ r.u = user /\ r.pc = "write" /\ r.was = w
    BY DEF Idle
  <2>4. r \in ReqTypes
    BY <2>1, <2>2, Zenon DEF Idle, ReqTypes, Ops
  <2> HIDE DEF r
  <2>5. Fits(r)
    BY <2>1, <2>2, <2>3 DEF Fits, PlanOps, TotpOps
  <2> QED
    BY <1>19, <1>a, <1>t, <2>2, <2>4, <2>5, SlotFits DEF Delete, session, settings, hist, TypeOK
<1>20. ASSUME NEW p \in Slot, DeleteCommit(p) PROVE TypeOK' /\ RequestsFit'
  <2> DEFINE was == req[p].was
  <2>1. was \in Counted
    BY <1>20, <1>r DEF DeleteCommit, Fits
  <2>2. was.sessions \in Nat /\ was.key \in Nat /\ was.invoices \in Nat /\ was.rows \in BOOLEAN
    BY <2>1 DEF Counted
  <2>3. CASE user = req[p].u /\ ~ Referred(was)
    <3>1. was.invoices <= invoices
      BY <1>20, <2>3 DEF DeleteCommit, AccountInv
    <3>2. invoices' \in Nat
      BY <1>20, <1>t, <2>2, <2>3, <3>1 DEF DeleteCommit
    <3>3. user' = 0 /\ rows' = FALSE /\ key' \in Nat /\ shown' = 0 /\ cut' = Client
      BY <1>20, <1>t, <2>3 DEF DeleteCommit
    <3>4. sub' \in Plans /\ hook' \in Hooks /\ totp' \in Secrets
      <4>1. sub' = Free /\ hook' = NoHook /\ totp' = NoSecret
        BY <1>20, <2>3 DEF DeleteCommit
      <4>2. Free \in Plans /\ NoHook \in Hooks /\ NoSecret \in Secrets
        BY DEF Free, NoHook, NoSecret, Plans, Hooks, Secrets
      <4> QED
        BY <4>1, <4>2
    <3>5. sess' \in Seq(Row)
      <4>1. \A i \in DOMAIN sess : [sess[i] EXCEPT !.state = "gone"] \in Row
        BY <1>s, Zenon DEF Row
      <4>2. sess' = [i \in DOMAIN sess |-> IF i <= was.sessions THEN [sess[i] EXCEPT !.state = "gone"] ELSE sess[i]]
        BY <1>20, <2>3 DEF DeleteCommit
      <4>3. DOMAIN sess = 1 .. Len(sess) /\ Len(sess) \in Nat
        BY <1>t
      <4>4. \A i \in 1 .. Len(sess) : (IF i <= was.sessions THEN [sess[i] EXCEPT !.state = "gone"] ELSE sess[i]) \in Row
        BY <1>s, <4>1, <4>3
      <4> QED
        BY <4>2, <4>3, <4>4
    <3> QED
      BY <1>20, <1>e, <1>t, <3>2, <3>3, <3>4, <3>5 DEF DeleteCommit, TypeOK
  <2>4. CASE ~ (user = req[p].u /\ ~ Referred(was))
    BY <1>20, <1>e, <1>t, <2>4 DEF DeleteCommit, TypeOK
  <2> QED
    BY <2>3, <2>4
<1>21. ASSUME NEW p \in Slot, Die(p) PROVE TypeOK' /\ RequestsFit'
  <2>1. mixed' \subseteq {"sub", "hook", "totp", "key"} /\ cut' \subseteq Client /\ astray' \subseteq Nat
    <3>1. req[p].c \in Client /\ req[p].at \in Nat
      BY <1>21, <1>r DEF Die, Fits, ReqTypes
    <3> QED
      BY <1>21, <1>t, <3>1 DEF Die
  <2> QED
    BY <1>21, <1>e, <1>f, <1>t, <2>1 DEF Die, settings, TypeOK
<1>22. CASE UNCHANGED vars
  BY <1>22, <1>t DEF vars, session, settings, hist, TypeOK, RequestsFit
<1> QED
  BY <1>1, <1>2, <1>3, <1>4, <1>5, <1>6, <1>7, <1>8, <1>9, <1>10, <1>11, <1>12, <1>13, <1>14, <1>15, <1>16, <1>17,
     <1>18, <1>19, <1>20, <1>21, <1>22
     DEF Next, NextSession, NextSettings

-----------------------------------------------------------------------------
(* What becomes of the rows of sessions *)

\* A row that is revoked or gone is so for good, and a row is added only for a
\* user that there is.
RowsLast ==
    /\ \A i \in DOMAIN sess :
         /\ i \in DOMAIN sess'
         /\ sess[i].state # "live" => sess'[i].state # "live"
         /\ sess[i].state = "gone" => sess'[i].state = "gone"
    /\ DOMAIN sess' = DOMAIN sess \/ user # 0

\* Every step does so.
LEMMA RowsLastNext == TypeOK /\ RequestsFit /\ [Next]_vars => RowsLast
<1> SUFFICES ASSUME TypeOK, RequestsFit, [Next]_vars PROVE RowsLast
  OBVIOUS
<1>t. sess \in Seq(Row) /\ issued \in Nat /\ \A i \in DOMAIN sess : sess[i] \in Row
  BY DEF TypeOK
<1>r. \A p \in Slot : req[p] \in ReqTypes /\ Fits(req[p])
  BY DEF TypeOK, RequestsFit
<1>0. ASSUME sess' = sess PROVE RowsLast
  BY <1>0 DEF RowsLast
<1>v. ASSUME NEW is, sess' = Revoked(is) PROVE RowsLast
  BY <1>t, <1>v, RevokedRows DEF RowsLast
<1>1. ASSUME NEW p \in Slot, RecordSession(p) PROVE RowsLast
  <2>1. CASE user = req[p].u
    <3>1. user # 0
      BY <1>1, <1>r, <2>1 DEF RecordSession, Fits
    <3>2. PICK row : sess' = Append(sess, row)
      BY <1>1, <2>1 DEF RecordSession
    <3>3. \A i \in DOMAIN sess : i \in DOMAIN sess' /\ sess'[i] = sess[i]
      BY <1>t, <3>2
    <3> QED
      BY <3>1, <3>3 DEF RowsLast
  <2>2. CASE user # req[p].u
    BY <1>0, <1>1, <2>2 DEF RecordSession, session
  <2> QED
    BY <2>1, <2>2
<1>2. ASSUME NEW p \in Slot, RefreshCommit(p) PROVE RowsLast
  <2> DEFINE i == req[p].at
  <2>1. CASE sess' = [sess EXCEPT ![i] = Rotated(sess[i], issued + 1)]
    <3>1. DOMAIN sess' = DOMAIN sess
      BY <2>1
    <3>2. \A j \in DOMAIN sess : sess'[j].state = sess[j].state
      BY <1>t, <2>1 DEF Rotated, Row
    <3> QED
      BY <3>1, <3>2 DEF RowsLast
  <2> QED
    BY <1>0, <1>2, <2>1 DEF RefreshCommit
<1>3. ASSUME NEW i \in DOMAIN sess, Expire(i) PROVE RowsLast
  <2>1. sess' = [sess EXCEPT ![i] = [sess[i] EXCEPT !.expired = TRUE]]
    BY <1>3 DEF Expire
  <2>2. DOMAIN sess' = DOMAIN sess
    BY <2>1
  <2>3. \A j \in DOMAIN sess : sess'[j].state = sess[j].state
    BY <1>t, <2>1 DEF Row
  <2> QED
    BY <2>2, <2>3 DEF RowsLast
<1>4. ASSUME NEW p \in Slot, DeleteCommit(p) PROVE RowsLast
  <2>1. CASE sess' = [i \in DOMAIN sess |-> IF i <= req[p].was.sessions
                                              THEN [sess[i] EXCEPT !.state = "gone"] ELSE sess[i]]
    <3>1. DOMAIN sess' = DOMAIN sess
      BY <2>1
    <3>2. \A j \in DOMAIN sess : sess'[j] = sess[j] \/ sess'[j].state = "gone"
      BY <1>t, <2>1 DEF Row
    <3> QED
      BY <3>1, <3>2 DEF RowsLast
  <2> QED
    BY <1>0, <1>4, <2>1 DEF DeleteCommit
<1>5. ASSUME NEW c \in Client, Logout(c) \/ RevokeOthers(c) \/ \E i \in DOMAIN sess : RevokeSession(c, i)
      PROVE  RowsLast
  BY <1>5, <1>v DEF Logout, RevokeOthers, RevokeSession
<1>6. ASSUME NEW p \in Slot,
             \/ CreateUser(p) \/ EnsureInsert(p) \/ RefreshAnswer(p) \/ Die(p)
             \/ ChangePlan(p) \/ UpdateWebhook(p) \/ DeleteKey(p) \/ CreateKey(p) \/ TwoFactorCommit(p)
      PROVE  RowsLast
  BY <1>0, <1>6 DEF CreateUser, EnsureInsert, RefreshAnswer, Die, ChangePlan, UpdateWebhook, DeleteKey, CreateKey,
     TwoFactorCommit, session
<1>7. ASSUME NEW p \in Slot, NEW c \in Client,
             \/ Login(p, c) \/ Refresh(p, c) \/ Delete(p, c)
             \/ \E op \in Ensuring \ {"login"} : Ask(p, c, op)
             \/ \E op \in {"setup", "enable", "disable"} : TwoFactor(p, c, op)
      PROVE  RowsLast
  BY <1>0, <1>7 DEF Login, Refresh, Delete, Ask, TwoFactor, session
<1>8. CASE UNCHANGED vars
  BY <1>0, <1>8 DEF vars, session
<1> QED
  BY <1>1, <1>2, <1>3, <1>4, <1>5, <1>6, <1>7, <1>8 DEF Next, NextSession, NextSettings

-----------------------------------------------------------------------------
(* Accounts that are deleted *)

\* Requests end, or go on with their user or with the one there is; none of
\* them begins to delete.
Quiet ==
    \A q \in Slot : req'[q] = req[q] \/ (req'[q].op # "delete" /\ req'[q].u \in {0, user', req[q].u})

\* A slot that turns to a plain request, or ends.
LEMMA QuietSlots ==
    ASSUME TypeOK, NEW p \in Slot
    PROVE  /\ \A s : Turns(p, s) => Quiet
           /\ Ends(p) => Quiet
<1>1. req \in [Slot -> ReqTypes]
  BY DEF TypeOK
<1> QED
  BY <1>1, IdleFits DEF Turns, Ends, Quiet, Plain

\* A step that neither makes nor deletes a user.
LEMMA AccountFrame ==
    ASSUME TypeOK, RequestsFit, AccountInv, TypeOK', RowsLast, Quiet, user' = user, issued <= issued', invoices <= invoices',
           user = 0 => UNCHANGED <<rows, key, invoices>>
    PROVE  AccountInv'
<1>0. /\ user \in Nat /\ issued \in Nat /\ issued' \in Nat /\ invoices \in Nat /\ invoices' \in Nat
      /\ \A p \in Slot : req[p].u \in Nat
  BY DEF TypeOK, ReqTypes
<1>1. user' <= issued' /\ \A p \in Slot : req'[p].u <= issued'
  BY <1>0 DEF AccountInv, Quiet
<1>2. ASSUME NEW p \in Slot, req'[p].op = "delete", req'[p].u = user' PROVE req'[p].was.invoices <= invoices'
  <2>1. req'[p] = req[p]
    BY <1>2 DEF Quiet
  <2>2. req[p].was.invoices <= invoices
    BY <1>2, <2>1 DEF AccountInv
  <2>3. req[p].was.invoices \in Nat
    BY <1>2, <2>1 DEF RequestsFit, Fits, Counted
  <2> QED
    BY <1>0, <2>1, <2>2, <2>3
<1>3. DeletedLeavesNothing'
  BY DEF AccountInv, DeletedLeavesNothing, RowsLast
<1> QED
  BY <1>1, <1>2, <1>3 DEF AccountInv

\* It holds at the start.
LEMMA AccountInit == Init => AccountInv
  BY DEF Init, AccountInv, DeletedLeavesNothing, Idle

\* Every step keeps it.
LEMMA AccountNext ==
    TypeOK /\ RequestsFit /\ AccountInv /\ TypeOK' /\ [Next]_vars => AccountInv'
<1> SUFFICES ASSUME TypeOK, RequestsFit, AccountInv, TypeOK', [Next]_vars PROVE AccountInv'
  OBVIOUS
<1>t. /\ user \in Nat /\ issued \in Nat /\ invoices \in Nat /\ key \in Nat /\ rows \in BOOLEAN
      /\ sess \in Seq(Row) /\ req \in [Slot -> ReqTypes]
  BY DEF TypeOK
<1>r. \A p \in Slot : req[p] \in ReqTypes /\ Fits(req[p]) /\ req[p].u \in Nat
  BY <1>t DEF RequestsFit, ReqTypes
<1>l. RowsLast
  BY RowsLastNext
<1>f. ASSUME Quiet, UNCHANGED <<user, rows, key, invoices>>, issued' \in {issued, issued + 1} PROVE AccountInv'
  BY <1>f, <1>l, <1>t, AccountFrame
<1>1. ASSUME NEW p \in Slot, CreateUser(p) PROVE AccountInv'
  <2>1. CASE user # 0
    BY <1>1, <1>f, <2>1, QuietSlots DEF CreateUser, settings
  <2>2. CASE user = 0
    <3> DEFINE r == [req[p] EXCEPT !.pc = "insert", !.lacks = Missing, !.u = user']
    <3>1. user' = issued + 1 /\ issued' = issued + 1 /\ UNCHANGED <<sess, rows, key, invoices>>
      BY <1>1, <2>2 DEF CreateUser, session, settings
    <3>2. req' = [req EXCEPT ![p] = r]
      BY <1>1, <1>t, <2>2 DEF CreateUser, ReqTypes
    <3>3. r.op = "login" /\ r.u = user'
      BY <1>1, <1>r DEF CreateUser, Fits, ReqTypes
    <3>4. req'[p] = r /\ \A q \in Slot \ {p} : req'[q] = req[q]
      BY <1>t, <3>2
    <3> HIDE DEF r
    <3>5. \A q \in Slot : req'[q].u <= issued' /\ (req'[q].op = "delete" => req'[q].u # user')
      BY <1>r, <1>t, <3>1, <3>3, <3>4 DEF AccountInv
    <3> QED
      BY <1>t, <3>1, <3>5 DEF AccountInv, DeletedLeavesNothing
  <2> QED
    BY <2>1, <2>2
<1>2. ASSUME NEW p \in Slot, EnsureInsert(p) PROVE AccountInv'
  <2>1. user' = user /\ invoices' = invoices /\ issued' \in {issued, issued + 1} /\ (user = 0 => UNCHANGED <<rows, key>>)
    BY <1>2, <1>r DEF EnsureInsert, Fits
  <2>2. Quiet
    BY <1>2, InsertTurns, QuietSlots
  <2> QED
    BY <1>l, <1>t, <2>1, <2>2, AccountFrame
<1>3. ASSUME NEW p \in Slot, RecordSession(p) PROVE AccountInv'
  <2>1. issued' \in {issued, issued + 1}
    BY <1>3 DEF RecordSession
  <2> QED
    BY <1>3, <1>f, <2>1, QuietSlots DEF RecordSession, settings
<1>4. ASSUME NEW p \in Slot, NEW c \in Client, Refresh(p, c) PROVE AccountInv'
  <2>1. req' = req \/ \E i : req' = [req EXCEPT ![p] = [Idle EXCEPT !.op = "refresh", !.c = c, !.pc = "write", !.at = i]]
    BY <1>4 DEF Refresh
  <2>2. \A i : LET r == [Idle EXCEPT !.op = "refresh", !.c = c, !.pc = "write", !.at = i] IN
          r.op = "refresh" /\ r.u = 0
    BY DEF Idle
  <2>3. Quiet
    BY <1>t, <2>1, <2>2 DEF Quiet
  <2> QED
    BY <1>4, <1>f, <2>3 DEF Refresh, settings
<1>5. ASSUME NEW p \in Slot, RefreshCommit(p) PROVE AccountInv'
  <2>1. \/ Ends(p) \/ req' = [req EXCEPT ![p] = [req[p] EXCEPT !.pc = "answer", !.id = issued + 1]]
    BY <1>5, <1>t DEF RefreshCommit, ReqTypes
  <2>2. LET r == [req[p] EXCEPT !.pc = "answer", !.id = issued + 1] IN r.op = "refresh" /\ r.u = req[p].u
    BY <1>5, <1>r DEF RefreshCommit, ReqTypes
  <2>3. Quiet
    BY <1>t, <2>1, <2>2, QuietSlots DEF Quiet
  <2>4. issued' \in {issued, issued + 1}
    BY <1>5 DEF RefreshCommit
  <2> QED
    BY <1>5, <1>f, <2>3, <2>4 DEF RefreshCommit, settings
<1>6. ASSUME NEW p \in Slot, RefreshAnswer(p) PROVE AccountInv'
  BY <1>6, <1>f, QuietSlots DEF RefreshAnswer, settings
<1>7. ASSUME NEW p \in Slot, Die(p) PROVE AccountInv'
  BY <1>7, <1>f, QuietSlots DEF Die, settings
<1>8. ASSUME req' = req, UNCHANGED <<user, settings, issued>> PROVE AccountInv'
  BY <1>8, <1>f DEF Quiet, settings
<1>9. ASSUME NEW p \in Slot, NEW c \in Client, Login(p, c) PROVE AccountInv'
  <2>1. Quiet
    BY <1>9, LoginTurns, QuietSlots
  <2> QED
    BY <1>9, <1>f, <2>1 DEF Login, settings
<1>10. ASSUME NEW p \in Slot, NEW c \in Client, NEW op \in Ensuring \ {"login"}, Ask(p, c, op) PROVE AccountInv'
  <2>1. Quiet
    BY <1>10, AskTurns, QuietSlots
  <2> QED
    BY <1>10, <1>f, <2>1 DEF Ask, settings
<1>11. ASSUME NEW p \in Slot, NEW c \in Client, NEW op \in TotpOps, TwoFactor(p, c, op) PROVE AccountInv'
  <2>1. Quiet
    BY <1>11, TwoFactorTurns, QuietSlots
  <2> QED
    BY <1>11, <1>f, <2>1 DEF TwoFactor, settings
<1>12. ASSUME NEW p \in Slot, ChangePlan(p) PROVE AccountInv'
  <2>1. Seeded(req[p].op) \in Nat
    BY DEF Seeded
  <2>2. invoices <= invoices' /\ (user = 0 => invoices' = invoices)
    BY <1>12, <1>r, <1>t, <2>1 DEF ChangePlan, Fits
  <2> QED
    BY <1>12, <1>l, <1>t, <2>2, AccountFrame, QuietSlots DEF ChangePlan
<1>13. ASSUME NEW p \in Slot, UpdateWebhook(p) PROVE AccountInv'
  BY <1>13, <1>f, QuietSlots DEF UpdateWebhook
<1>14. ASSUME NEW p \in Slot, DeleteKey(p) PROVE AccountInv'
  <2>1. LET r == [req[p] EXCEPT !.pc = "key"] IN r.op = "regenerate" /\ r.u = req[p].u
    BY <1>14, <1>r DEF DeleteKey, ReqTypes
  <2>2. req' = [req EXCEPT ![p] = [req[p] EXCEPT !.pc = "key"]] /\ (user = 0 => key' = key)
    BY <1>14, <1>t DEF DeleteKey, AccountInv, DeletedLeavesNothing
  <2>3. Quiet
    BY <1>t, <2>1, <2>2 DEF Quiet
  <2> QED
    BY <1>14, <1>l, <1>t, <2>2, <2>3, AccountFrame DEF DeleteKey
<1>15. ASSUME NEW p \in Slot, CreateKey(p) PROVE AccountInv'
  <2>1. (user = 0 => key' = key) /\ issued' \in {issued, issued + 1}
    BY <1>15, <1>r DEF CreateKey, Fits
  <2> QED
    BY <1>15, <1>l, <1>t, <2>1, AccountFrame, QuietSlots DEF CreateKey
<1>16. ASSUME NEW p \in Slot, TwoFactorCommit(p) PROVE AccountInv'
  <2>1. issued' \in {issued, issued + 1}
    BY <1>16 DEF TwoFactorCommit
  <2> QED
    BY <1>16, <1>f, <2>1, QuietSlots DEF TwoFactorCommit
<1>17. ASSUME NEW p \in Slot, NEW c \in Client, Delete(p, c) PROVE AccountInv'
  <2> DEFINE w == [sessions |-> Len(sess), key |-> key, invoices |-> invoices, rows |-> rows]
             r == [Idle EXCEPT !.op = "delete", !.c = c, !.u = user, !.pc = "write", !.was = w]
  <2>1. req' = [req EXCEPT ![p] = r] /\ UNCHANGED <<user, issued, sess, rows, key, invoices>>
    BY <1>17 DEF Delete, session, settings
  <2>2. r.u = user /\ r.was.invoices = invoices
    BY DEF Idle
  <2>3. req'[p] = r /\ \A q \in Slot \ {p} : req'[q] = req[q]
    BY <1>t, <2>1
  <2> HIDE DEF r
  <2>4. \A q \in Slot : req'[q].u <= issued
    BY <2>2, <2>3 DEF AccountInv
  <2>5. \A q \in Slot : req'[q].op = "delete" /\ req'[q].u = user => req'[q].was.invoices <= invoices
    BY <1>t, <2>2, <2>3 DEF AccountInv
  <2> QED
    BY <2>1, <2>4, <2>5 DEF AccountInv, DeletedLeavesNothing
<1>18. ASSUME NEW p \in Slot, DeleteCommit(p) PROVE AccountInv'
  <2> DEFINE was == req[p].was
  <2>1. Quiet /\ issued' = issued /\ req'[p] = Idle /\ \A q \in Slot \ {p} : req'[q] = req[q]
    BY <1>18, <1>t, QuietSlots DEF DeleteCommit, Ends
  <2>2. CASE user = req[p].u /\ ~ Referred(was)
    <3>1. was \in Counted /\ was.sessions \in Nat /\ was.key \in Nat /\ was.invoices \in Nat
      BY <1>18, <1>r DEF DeleteCommit, Fits, Counted
    <3>2. /\ user' = 0 /\ rows' = FALSE /\ key' = (IF key = was.key THEN 0 ELSE key) /\ invoices' = invoices - was.invoices
          /\ sess' = [i \in DOMAIN sess |-> IF i <= was.sessions THEN [sess[i] EXCEPT !.state = "gone"] ELSE sess[i]]
      BY <1>18, <2>2 DEF DeleteCommit
    <3>3. Len(sess) <= was.sessions /\ key \in {0, was.key} /\ invoices <= was.invoices
      BY <1>t, <2>2, <3>1 DEF Referred
    <3>4. was.invoices <= invoices
      BY <1>18, <2>2 DEF DeleteCommit, AccountInv
    <3>5. key' = 0 /\ invoices' = 0
      BY <1>t, <3>1, <3>2, <3>3, <3>4
    <3>6. \A i \in DOMAIN sess' : sess'[i].state = "gone"
      <4>1. \A i \in DOMAIN sess : i <= was.sessions /\ [sess[i] EXCEPT !.state = "gone"].state = "gone"
        BY <1>t, <3>1, <3>3 DEF Row
      <4> QED
        BY <3>2, <4>1
    <3>7. \A q \in Slot : req'[q].u <= issued' /\ (req'[q].op = "delete" => req'[q].u # user')
      <4>1. Idle.op = "none" /\ Idle.u = 0
        BY DEF Idle
      <4>2. \A q \in Slot : req[q].op = "delete" => req[q].u # 0
        BY <1>r, <4>1 DEF Fits
      <4>3. \A q \in Slot : req[q].u <= issued
        BY DEF AccountInv
      <4> QED
        BY <1>t, <2>1, <3>2, <4>1, <4>2, <4>3
    <3> QED
      BY <1>t, <2>1, <3>2, <3>5, <3>6, <3>7 DEF AccountInv, DeletedLeavesNothing
  <2>3. CASE ~ (user = req[p].u /\ ~ Referred(was))
    BY <1>18, <1>f, <2>1, <2>3 DEF DeleteCommit
  <2> QED
    BY <2>2, <2>3
<1>19. ASSUME NEW c \in Client, Logout(c) \/ RevokeOthers(c) \/ \E i \in DOMAIN sess : RevokeSession(c, i)
       PROVE  AccountInv'
  BY <1>8, <1>19 DEF Logout, RevokeOthers, RevokeSession
<1>20. ASSUME NEW i \in DOMAIN sess, Expire(i) PROVE AccountInv'
  BY <1>8, <1>20 DEF Expire
<1>21. CASE UNCHANGED vars
  BY <1>8, <1>21 DEF vars
<1> QED
  BY <1>1, <1>2, <1>3, <1>4, <1>5, <1>6, <1>7, <1>9, <1>10, <1>11, <1>12, <1>13, <1>14, <1>15, <1>16, <1>17,
     <1>18, <1>19, <1>20, <1>21
     DEF Next, NextSession, NextSettings, TotpOps

\* Types, requests and accounts, in every state.
LEMMA AccountInvariant == Spec => [](TypeOK /\ RequestsFit /\ AccountInv)
<1>1. Init => TypeOK /\ RequestsFit /\ AccountInv
  BY TypeInit, AccountInit
<1>2. TypeOK /\ RequestsFit /\ AccountInv /\ [Next]_vars => (TypeOK /\ RequestsFit /\ AccountInv)'
  BY TypeNext, AccountNext
<1> QED
  BY <1>1, <1>2, PTL DEF Spec

\* A deleted account leaves no session, key, invoice or settings behind,
\* whichever requests were under way when the deletion began and ended.
THEOREM DeletionIsWhole == Spec => []DeletedLeavesNothing
<1>1. AccountInv => DeletedLeavesNothing
  BY DEF AccountInv
<1> QED
  BY <1>1, AccountInvariant, PTL

\* A session that is revoked or deleted is never live again: a refresh that
\* found it live commits the new pair without reviving it.
THEOREM RevocationLasts == Spec => RevokedForGood
<1>1. TypeOK /\ RequestsFit /\ [Next]_vars => [\A i \in DOMAIN sess : sess[i].state # "live" => sess'[i].state # "live"]_vars
  BY RowsLastNext DEF RowsLast
<1> QED
  BY <1>1, AccountInvariant, PTL DEF Spec, RevokedForGood

-----------------------------------------------------------------------------
(* The rows of the settings *)

\* A commit that has loaded the row as it is stores what it has composed.
LEMMA MergeCurrent ==
    ASSUME NEW new, NEW row,
           (new \in Plans /\ row \in Plans) \/ (new \in Hooks /\ row \in Hooks) \/ (new \in Secrets /\ row \in Secrets)
    PROVE  Merge(row, new, row) = new
<1>1. CASE new \in Plans /\ row \in Plans
  BY <1>1 DEF Merge, Plans
<1>2. CASE new \in Hooks /\ row \in Hooks
  BY <1>2 DEF Merge, Hooks
<1>3. CASE new \in Secrets /\ row \in Secrets
  BY <1>3 DEF Merge, Secrets
<1> QED
  BY <1>1, <1>2, <1>3

\* A request that waits to insert a key goes on waiting, or the key is missed.
KeysWait == \A q \in Slot : req[q].pc = "key" => req'[q].pc = "key" \/ "key" \in mixed'

\* A slot that does not wait for a key may turn to any request.
LEMMA OthersWait ==
    ASSUME TypeOK, NEW p \in Slot, req[p].pc # "key"
    PROVE  /\ \A s : req' = [req EXCEPT ![p] = s] => KeysWait
           /\ \A s : Turns(p, s) => KeysWait
           /\ Ends(p) => KeysWait
  BY DEF TypeOK, KeysWait, Turns, Ends

\* Steps that leave a row as it is keep what is true of it.
LEMMA SettingsFrame ==
    ASSUME TypeOK, TypeOK', SettingsAgree, mixed \subseteq mixed'
    PROVE  /\ KeysWait /\ UNCHANGED <<key, shown>> => ShownKeyIsStored'
           /\ totp' = totp /\ proved \subseteq proved' => EnabledIsProved'
           /\ sub' = sub /\ invoices <= invoices' => PlanIsWhole'
           /\ hook' = hook => HookHasUrl'
<1>0. invoices \in Nat /\ invoices' \in Nat
  BY DEF TypeOK
<1>1. KeysWait /\ UNCHANGED <<key, shown>> => ShownKeyIsStored'
  BY DEF SettingsAgree, ShownKeyIsStored, KeysWait
<1>2. totp' = totp /\ proved \subseteq proved' => EnabledIsProved'
  BY DEF SettingsAgree, EnabledIsProved
<1>3. sub' = sub /\ invoices <= invoices' => PlanIsWhole'
  BY <1>0 DEF SettingsAgree, PlanIsWhole
<1>4. hook' = hook => HookHasUrl'
  BY DEF SettingsAgree, HookHasUrl
<1> QED
  BY <1>1, <1>2, <1>3, <1>4

\* They agree at the start.
LEMMA SettingsInit == Init => SettingsAgree
<1> SUFFICES ASSUME Init PROVE SettingsAgree
  OBVIOUS
<1>1. totp.enabled => totp.secret = 2
  BY DEF Init, NoSecret
<1>2. shown = 0 /\ sub = Free /\ sub.plan # "pro" /\ hook.on = FALSE /\ proved = {2}
  BY DEF Init, Free, NoHook
<1> QED
  BY <1>1, <1>2 DEF SettingsAgree, ShownKeyIsStored, EnabledIsProved, PlanIsWhole, HookHasUrl

\* Every step keeps them so.
LEMMA SettingsNext ==
    TypeOK /\ RequestsFit /\ SettingsAgree /\ TypeOK' /\ [Next]_vars => SettingsAgree'
<1> SUFFICES ASSUME TypeOK, RequestsFit, SettingsAgree, TypeOK', [Next]_vars PROVE SettingsAgree'
  OBVIOUS
<1>t. /\ invoices \in Nat /\ invoices' \in Nat /\ key \in Nat /\ issued \in Nat
      /\ sub \in Plans /\ hook \in Hooks /\ totp \in Secrets
      /\ req \in [Slot -> ReqTypes]
  BY DEF TypeOK
<1>r. \A p \in Slot : req[p] \in ReqTypes /\ Fits(req[p])
  BY <1>t DEF RequestsFit
<1>f. ASSUME KeysWait, UNCHANGED <<settings, hist>> PROVE SettingsAgree'
  BY <1>f, <1>t, SettingsFrame DEF settings, hist, SettingsAgree
<1>1. ASSUME NEW p \in Slot, NEW c \in Client, Login(p, c) PROVE SettingsAgree'
  BY <1>1, <1>f, LoginTurns, OthersWait DEF Login
<1>2. ASSUME NEW p \in Slot, CreateUser(p) PROVE SettingsAgree'
  BY <1>2, <1>f, CreateTurns, OthersWait DEF CreateUser
<1>3. ASSUME NEW p \in Slot, EnsureInsert(p) PROVE SettingsAgree'
  <2>1. UNCHANGED <<sub, hook, invoices, totp, hist>> /\ KeysWait
    BY <1>3, InsertTurns, OthersWait DEF EnsureInsert
  <2>2. ShownKeyIsStored'
    <3>1. CASE key' = key
      BY <2>1, <3>1, SettingsFrame DEF hist
    <3>2. CASE key' # key
      <4>1. "key" \in Missing
        BY <1>3, <3>2 DEF EnsureInsert
      <4>2. key = 0
        BY <4>1 DEF Missing
      <4> QED
        BY <2>1, <4>2 DEF hist, SettingsAgree, ShownKeyIsStored, KeysWait
    <3> QED
      BY <3>1, <3>2
  <2> QED
    BY <1>t, <2>1, <2>2, SettingsFrame DEF hist, SettingsAgree
<1>4. ASSUME NEW p \in Slot, RecordSession(p) PROVE SettingsAgree'
  BY <1>4, <1>f, OthersWait DEF RecordSession
<1>5. ASSUME NEW p \in Slot, NEW c \in Client, Refresh(p, c) PROVE SettingsAgree'
  <2>1. KeysWait
    <3>1. CASE req' = req
      BY <3>1 DEF KeysWait
    <3>2. CASE req' # req
      BY <1>5, <3>2, OthersWait DEF Refresh
    <3> QED
      BY <3>1, <3>2
  <2> QED
    BY <1>5, <1>f, <2>1 DEF Refresh
<1>6. ASSUME NEW p \in Slot, RefreshCommit(p) PROVE SettingsAgree'
  <2>1. \E s : req' = [req EXCEPT ![p] = s]
    <3>1. Ends(p) \/ req' = [req EXCEPT ![p] = [req[p] EXCEPT !.pc = "answer", !.id = issued + 1]]
      BY <1>6, <1>t DEF RefreshCommit, ReqTypes
    <3> QED
      BY <3>1 DEF Ends
  <2> QED
    BY <1>6, <1>f, <2>1, OthersWait DEF RefreshCommit
<1>7. ASSUME NEW p \in Slot, RefreshAnswer(p) PROVE SettingsAgree'
  BY <1>7, <1>f, OthersWait DEF RefreshAnswer
<1>8. ASSUME NEW p \in Slot, Die(p) PROVE SettingsAgree'
  <2>1. UNCHANGED <<settings, shown, proved>> /\ mixed \subseteq mixed'
    BY <1>8 DEF Die
  <2>2. KeysWait
    <3>1. CASE req[p].pc = "key"
      BY <1>8, <3>1 DEF Die, KeysWait
    <3>2. CASE req[p].pc # "key"
      BY <1>8, <3>2, OthersWait DEF Die
    <3> QED
      BY <3>1, <3>2
  <2> QED
    BY <1>t, <2>1, <2>2, SettingsFrame DEF settings, SettingsAgree
<1>9. ASSUME NEW p \in Slot, NEW c \in Client, NEW op \in Ensuring \ {"login"}, Ask(p, c, op) PROVE SettingsAgree'
  BY <1>9, <1>f, AskTurns, OthersWait DEF Ask
<1>10. ASSUME NEW p \in Slot, ChangePlan(p) PROVE SettingsAgree'
  <2> DEFINE was == req[p].was
             op == req[p].op
  <2>1. KeysWait /\ UNCHANGED <<key, shown, totp, proved, hook>>
    BY <1>10, OthersWait DEF ChangePlan
  <2>2. CASE rows /\ user = req[p].u
    <3>1. /\ sub' = Merge(was, NewPlan(op, was), sub) /\ mixed' = (IF was = sub THEN mixed ELSE mixed \cup {"sub"})
          /\ invoices' = invoices + Seeded(op) /\ op \in PlanOps
          /\ op = "cancel" => was.plan = "pro"
      BY <1>10, <1>r, <2>2 DEF ChangePlan, Mixes, PlanOps, Fits
    <3>2. PlanIsWhole'
      <4>1. CASE "sub" \in mixed'
        BY <4>1 DEF PlanIsWhole
      <4>2. CASE "sub" \notin mixed'
        <5>1. was = sub /\ "sub" \notin mixed
          BY <3>1, <4>2
        <5>2. sub \in {Free, Pro, [Pro EXCEPT !.cancel = TRUE]} /\ (sub.plan = "pro" => invoices >= 3)
          BY <5>1 DEF SettingsAgree, PlanIsWhole
        <5>3. /\ Free \in Plans /\ Pro \in Plans /\ [Pro EXCEPT !.cancel = TRUE] \in Plans
              /\ Free.plan = "free" /\ [[Pro EXCEPT !.cancel = TRUE] EXCEPT !.cancel = TRUE] = [Pro EXCEPT !.cancel = TRUE]
          BY DEF Free, Pro, Plans
        <5>4. CASE op = "pro"
          <6>1. NewPlan(op, was) = Pro /\ invoices' >= 3
            BY <1>t, <3>1, <5>4 DEF NewPlan, Seeded
          <6>2. sub' = Pro
            BY <1>t, <3>1, <5>1, <5>3, <6>1, MergeCurrent
          <6> QED
            BY <6>1, <6>2 DEF PlanIsWhole
        <5>5. CASE op = "free"
          <6>1. NewPlan(op, was) = Free
            BY <5>5 DEF NewPlan
          <6>2. sub' = Free
            BY <1>t, <3>1, <5>1, <5>3, <6>1, MergeCurrent
          <6> QED
            BY <5>3, <6>2 DEF PlanIsWhole
        <5>6. CASE op = "cancel"
          <6>1. NewPlan(op, was) = [sub EXCEPT !.cancel = TRUE] /\ sub.plan = "pro" /\ invoices' = invoices
            BY <1>t, <3>1, <5>1, <5>6 DEF NewPlan, Seeded
          <6>2. NewPlan(op, was) = [Pro EXCEPT !.cancel = TRUE]
            BY <5>2, <5>3, <6>1
          <6>3. sub' = [Pro EXCEPT !.cancel = TRUE]
            BY <1>t, <3>1, <5>1, <5>3, <6>2, MergeCurrent
          <6> QED
            BY <5>2, <6>1, <6>3 DEF PlanIsWhole
        <5> QED
          BY <3>1, <5>4, <5>5, <5>6 DEF PlanOps
      <4> QED
        BY <4>1, <4>2
    <3> QED
      BY <1>t, <2>1, <3>1, <3>2, SettingsFrame DEF SettingsAgree
  <2>3. CASE ~ (rows /\ user = req[p].u)
    BY <1>10, <1>t, <2>1, <2>3, SettingsFrame DEF ChangePlan, SettingsAgree
  <2> QED
    BY <2>2, <2>3
<1>11. ASSUME NEW p \in Slot, UpdateWebhook(p) PROVE SettingsAgree'
  <2> DEFINE was == req[p].was
             new == req[p].new
  <2>1. KeysWait /\ UNCHANGED <<key, shown, totp, proved, sub, invoices>>
    BY <1>11, OthersWait DEF UpdateWebhook
  <2>2. CASE rows /\ user = req[p].u
    <3>1. /\ hook' = Merge(was, new, hook) /\ mixed' = (IF was = hook THEN mixed ELSE mixed \cup {"hook"})
          /\ new \in Hooks /\ (new.on => new.url)
      BY <1>11, <1>r, <2>2 DEF UpdateWebhook, WebhookSet, Mixes, Fits
    <3>2. "hook" \notin mixed' => hook' = new
      BY <1>t, <3>1, MergeCurrent
    <3> QED
      BY <1>t, <2>1, <3>1, <3>2, SettingsFrame DEF SettingsAgree, HookHasUrl
  <2>3. CASE ~ (rows /\ user = req[p].u)
    BY <1>11, <1>t, <2>1, <2>3, SettingsFrame DEF UpdateWebhook, SettingsAgree
  <2> QED
    BY <2>2, <2>3
<1>12. ASSUME NEW p \in Slot, DeleteKey(p) PROVE SettingsAgree'
  <2>1. UNCHANGED <<sub, hook, invoices, totp, hist>>
    BY <1>12 DEF DeleteKey
  <2>2. req'[p].pc = "key"
    BY <1>12, <1>r, <1>t DEF DeleteKey, ReqTypes
  <2> QED
    BY <1>t, <2>1, <2>2, SettingsFrame DEF hist, SettingsAgree, ShownKeyIsStored
<1>13. ASSUME NEW p \in Slot, CreateKey(p) PROVE SettingsAgree'
  <2>1. UNCHANGED <<sub, hook, invoices, totp, proved>> /\ mixed \subseteq mixed'
    BY <1>13 DEF CreateKey
  <2>2. ShownKeyIsStored'
    BY <1>13 DEF CreateKey, ShownKeyIsStored
  <2> QED
    BY <1>t, <2>1, <2>2, SettingsFrame DEF SettingsAgree
<1>14. ASSUME NEW p \in Slot, NEW c \in Client, NEW op \in TotpOps, TwoFactor(p, c, op) PROVE SettingsAgree'
  BY <1>14, <1>f, TwoFactorTurns, OthersWait DEF TwoFactor
<1>15. ASSUME NEW p \in Slot, TwoFactorCommit(p) PROVE SettingsAgree'
  <2> DEFINE was == req[p].was
             op == req[p].op
             new == NewTotp(op, was, issued + 1)
  <2>1. KeysWait /\ UNCHANGED <<key, shown, hook, sub, invoices>>
    BY <1>15, OthersWait DEF TwoFactorCommit
  <2>2. CASE user = req[p].u
    <3>1. /\ totp' = Merge(was, new, totp) /\ mixed' = (IF was = totp THEN mixed ELSE mixed \cup {"totp"})
          /\ proved' = (IF op = "enable" THEN proved \cup {was.secret} ELSE proved)
      BY <1>15, <2>2 DEF TwoFactorCommit, Mixes
    <3>2. /\ op \in TotpOps /\ was \in Secrets
          /\ op = "setup" => ~ was.enabled
          /\ op = "enable" => was.secret # 0
      BY <1>15, <1>r DEF TwoFactorCommit, TotpOps, Fits
    <3>3. EnabledIsProved'
      <4>1. CASE "totp" \in mixed'
        BY <4>1 DEF EnabledIsProved
      <4>2. CASE "totp" \notin mixed'
        <5>1. was = totp
          BY <3>1, <4>2
        <5>2. CASE op = "setup"
          <6>1. new = [was EXCEPT !.secret = issued + 1]
            BY <5>2 DEF NewTotp
          <6>2. new \in Secrets
            <7>1. issued + 1 \in Nat
              BY <1>t
            <7>2. [was EXCEPT !.secret = issued + 1] \in Secrets
              BY <3>2, <7>1, Zenon DEF Secrets
            <7> QED
              BY <6>1, <7>2
          <6>3. totp' = new
            BY <1>t, <3>1, <5>1, <6>2, MergeCurrent
          <6>4. ~ new.enabled
            BY <3>2, <5>2, <6>1 DEF Secrets
          <6> QED
            BY <6>3, <6>4 DEF EnabledIsProved
        <5>3. CASE op = "enable"
          <6>1. new = [was EXCEPT !.enabled = TRUE]
            BY <5>3 DEF NewTotp
          <6>2. new \in Secrets
            BY <3>2, <6>1, Zenon DEF Secrets
          <6>3. totp' = new
            BY <1>t, <3>1, <5>1, <6>2, MergeCurrent
          <6>4. new.secret = was.secret
            BY <3>2, <6>1 DEF Secrets
          <6> QED
            BY <3>1, <3>2, <5>3, <6>3, <6>4 DEF EnabledIsProved
        <5>4. CASE op = "disable"
          <6>1. new = NoSecret /\ NoSecret \in Secrets /\ NoSecret.enabled = FALSE
            BY <5>4 DEF NewTotp, NoSecret, Secrets
          <6>2. totp' = NoSecret
            BY <1>t, <3>1, <5>1, <6>1, MergeCurrent
          <6> QED
            BY <6>1, <6>2 DEF EnabledIsProved
        <5> QED
          BY <3>2, <5>2, <5>3, <5>4 DEF TotpOps
      <4> QED
        BY <4>1, <4>2
    <3>4. mixed \subseteq mixed'
      BY <3>1
    <3> QED
      BY <1>t, <2>1, <3>3, <3>4, SettingsFrame DEF SettingsAgree
  <2>3. CASE user # req[p].u
    BY <1>15, <1>t, <2>1, <2>3, SettingsFrame DEF TwoFactorCommit, SettingsAgree
  <2> QED
    BY <2>2, <2>3
<1>16. ASSUME NEW p \in Slot, NEW c \in Client, Delete(p, c) PROVE SettingsAgree'
  BY <1>16, <1>f, OthersWait DEF Delete
<1>17. ASSUME NEW p \in Slot, DeleteCommit(p) PROVE SettingsAgree'
  <2>1. CASE user = req[p].u /\ ~ Referred(req[p].was)
    <3>1. shown' = 0 /\ sub' = Free /\ hook' = NoHook /\ totp' = NoSecret
      BY <1>17, <2>1 DEF DeleteCommit
    <3>2. Free.plan = "free" /\ NoHook.on = FALSE /\ NoSecret.enabled = FALSE
      BY DEF Free, NoHook, NoSecret
    <3> QED
      BY <3>1, <3>2 DEF SettingsAgree, ShownKeyIsStored, EnabledIsProved, PlanIsWhole, HookHasUrl
  <2>2. CASE ~ (user = req[p].u /\ ~ Referred(req[p].was))
    <3>1. KeysWait /\ UNCHANGED <<settings, hist>>
      BY <1>17, <2>2, OthersWait DEF DeleteCommit, settings, hist
    <3> QED
      BY <1>f, <3>1
  <2> QED
    BY <2>1, <2>2
<1>18. ASSUME req' = req, UNCHANGED <<settings, hist>> PROVE SettingsAgree'
  BY <1>18, <1>f DEF KeysWait
<1>19. ASSUME NEW c \in Client, Logout(c) \/ RevokeOthers(c) \/ \E i \in DOMAIN sess : RevokeSession(c, i)
       PROVE  SettingsAgree'
  BY <1>18, <1>19 DEF Logout, RevokeOthers, RevokeSession
<1>20. ASSUME NEW i \in DOMAIN sess, Expire(i) PROVE SettingsAgree'
  BY <1>18, <1>20 DEF Expire
<1>21. CASE UNCHANGED vars
  BY <1>18, <1>21 DEF vars
<1> QED
  BY <1>1, <1>2, <1>3, <1>4, <1>5, <1>6, <1>7, <1>8, <1>9, <1>10, <1>11, <1>12, <1>13, <1>14, <1>15, <1>16, <1>17,
     <1>19, <1>20, <1>21
     DEF Next, NextSession, NextSettings, TotpOps

\* The rows of the settings agree with one another and with what was shown: the
\* key shown last is stored, a second factor that is on was verified, a plan
\* that was paid has its invoices and an enabled webhook its address, but for
\* the rows that two requests have mixed.
THEOREM SettingsStayAgreed == Spec => []SettingsAgree
<1>1. TypeOK /\ RequestsFit /\ AccountInv /\ SettingsAgree /\ [Next]_vars => SettingsAgree'
  BY TypeNext, SettingsNext
<1> QED
  BY <1>1, SettingsInit, AccountInvariant, PTL DEF Spec

-----------------------------------------------------------------------------
(* Clients and the session list *)

\* No refresh begins, goes on or ends.
RefreshesSame == \A q \in Slot : req'[q] = req[q] \/ (req[q].op # "refresh" /\ req'[q].op # "refresh")

\* A slot that did not refresh and turns to a plain request, or ends.
LEMMA PlainSlots ==
    ASSUME TypeOK, NEW p \in Slot, req[p].op # "refresh"
    PROVE  /\ \A s : Turns(p, s) => RefreshesSame
           /\ Ends(p) => RefreshesSame
<1>1. req \in [Slot -> ReqTypes]
  BY DEF TypeOK
<1> QED
  BY <1>1, IdleFits DEF Turns, Ends, RefreshesSame, Plain

\* Pairs that only the rows that have them keep, and that no client gets.
LEMMA PairsFrame ==
    ASSUME TypeOK, PairsKept, TypeOK', issued <= issued', astray \subseteq astray', DOMAIN sess' = DOMAIN sess,
           \A i \in DOMAIN sess : /\ sess'[i].pair = sess[i].pair /\ sess'[i].c = sess[i].c
                                  /\ sess'[i].expired => sess[i].expired \/ i \in astray',
           \A c \in Client : held'[c] \in {0, held[c]},
           \A q \in Slot : req'[q] = req[q] \/ req'[q].op # "refresh" \/ req'[q].pc # "answer"
    PROVE  PairsKept'
<1>0. issued \in Nat /\ issued' \in Nat /\ \A c \in Client : held[c] \in Nat
  BY DEF TypeOK
<1>1. \A i \in DOMAIN sess' : sess'[i].pair \in 1 .. issued'
  BY <1>0 DEF PairsKept
<1>2. \A i, j \in DOMAIN sess' : sess'[i].pair = sess'[j].pair => i = j
  BY DEF PairsKept
<1>3. \A c \in Client : held'[c] <= issued'
  BY <1>0 DEF PairsKept
<1>4. ASSUME NEW c \in Client, NEW i \in DOMAIN sess', sess'[i].pair = held'[c] PROVE sess'[i].c = c
  <2>1. sess[i].pair = held'[c] /\ sess[i].pair # 0
    BY <1>0, <1>4 DEF PairsKept
  <2> QED
    BY <2>1 DEF PairsKept
<1>5. \A i \in DOMAIN sess' : sess'[i].expired => i \in astray'
  BY DEF PairsKept
<1>6. ASSUME NEW p \in Slot, req'[p].op = "refresh", req'[p].pc = "answer"
      PROVE  /\ req'[p].id \in 1 .. issued'
             /\ \A i \in DOMAIN sess' : sess'[i].pair = req'[p].id => sess'[i].c = req'[p].c
  BY <1>0, <1>6 DEF PairsKept
<1> QED
  BY <1>1, <1>2, <1>3, <1>4, <1>5, <1>6 DEF PairsKept

\* A new pair goes into one row, and to nobody but the client of the row.
LEMMA PairsNew ==
    ASSUME TypeOK, PairsKept, TypeOK', issued' = issued + 1, astray \subseteq astray',
           NEW at \in DOMAIN sess', sess'[at].pair = issued + 1, ~ sess'[at].expired,
           DOMAIN sess' = DOMAIN sess \cup {at},
           \A i \in DOMAIN sess \ {at} : sess'[i] = sess[i],
           \A c \in Client : held'[c] = held[c] \/ (held'[c] = issued + 1 /\ sess'[at].c = c),
           \A q \in Slot : \/ req'[q] = req[q] \/ req'[q].op # "refresh" \/ req'[q].pc # "answer"
                           \/ req'[q].id = issued + 1 /\ req'[q].c = sess'[at].c,
           at \in DOMAIN sess => sess'[at].c = sess[at].c
    PROVE  PairsKept'
<1>0. issued \in Nat /\ issued' \in Nat /\ \A c \in Client : held[c] \in Nat
  BY DEF TypeOK
<1>1. \A i \in DOMAIN sess' : sess'[i].pair \in 1 .. issued' /\ (i # at => i \in DOMAIN sess /\ sess'[i].pair \in 1 .. issued)
  BY <1>0 DEF PairsKept
<1>2. \A i, j \in DOMAIN sess' : sess'[i].pair = sess'[j].pair => i = j
  BY <1>0, <1>1 DEF PairsKept
<1>3. \A c \in Client : held'[c] <= issued'
  BY <1>0 DEF PairsKept
<1>4. ASSUME NEW c \in Client, NEW i \in DOMAIN sess', sess'[i].pair = held'[c] PROVE sess'[i].c = c
  <2>1. CASE i = at
    <3>1. held'[c] # held[c]
      BY <1>0, <1>4, <2>1 DEF PairsKept
    <3> QED
      BY <2>1, <3>1
  <2>2. CASE i # at
    <3>1. held'[c] = held[c] /\ sess'[i] = sess[i] /\ i \in DOMAIN sess
      BY <1>0, <1>1, <1>4, <2>2
    <3> QED
      BY <1>4, <3>1 DEF PairsKept
  <2> QED
    BY <2>1, <2>2
<1>5. \A i \in DOMAIN sess' : sess'[i].expired => i \in astray'
  BY DEF PairsKept
<1>6. ASSUME NEW p \in Slot, req'[p].op = "refresh", req'[p].pc = "answer"
      PROVE  /\ req'[p].id \in 1 .. issued'
             /\ \A i \in DOMAIN sess' : sess'[i].pair = req'[p].id => sess'[i].c = req'[p].c
  <2>1. CASE req'[p] = req[p]
    <3>1. req[p].id \in 1 .. issued /\ \A i \in DOMAIN sess : sess[i].pair = req[p].id => sess[i].c = req[p].c
      BY <1>6, <2>1 DEF PairsKept
    <3>2. \A i \in DOMAIN sess' : sess'[i].pair = req[p].id => i # at
      BY <1>0, <3>1
    <3> QED
      BY <1>0, <2>1, <3>1, <3>2
  <2>2. CASE req'[p].id = issued + 1 /\ req'[p].c = sess'[at].c
    BY <1>0, <1>1, <2>2
  <2> QED
    BY <1>6, <2>1, <2>2
<1> QED
  BY <1>1, <1>2, <1>3, <1>4, <1>5, <1>6 DEF PairsKept

\* The requests of a client that refresh do so on, and no other begins to.
SameRefreshes(c) ==
    \A q \in Slot : req'[q] = req[q] \/ (~ Refreshes(q, c) /\ ~ Refreshes(q, c)')

\* Rows of a client that is cut off, or that does not refresh and does not hold
\* the pair of the row, may end, and astray ones be added.
LEMMA ClientFades ==
    ASSUME TypeOK, PairsKept, NEW c \in Client, ClientKept(c), SameRefreshes(c),
           held'[c] = held[c], c \in cut => c \in cut', astray \subseteq astray',
           \A i \in DOMAIN sess' : sess'[i].c = c => i \in DOMAIN sess \/ i \in astray',
           \A i \in DOMAIN sess : /\ i \in DOMAIN sess' /\ sess'[i].c = sess[i].c
                                  /\ sess[i].c = c => /\ sess'[i].pair = sess[i].pair
                                                      /\ sess'[i].state = "live" => sess[i].state = "live",
           \/ c \in cut'
           \/ \A i \in DOMAIN sess : sess[i].c = c =>
                \/ sess'[i].state = sess[i].state
                \/ ~ Refreshing(c) /\ sess[i].pair # held[c]
    PROVE  ClientKept(c)'
<1>1. Refreshing(c)' <=> Refreshing(c)
  BY DEF SameRefreshes, Refreshes, Refreshing
<1>2. held'[c] # 0 /\ c \notin cut' /\ ~ Refreshing(c)' => Live(c)' # {}
  <2> SUFFICES ASSUME held'[c] # 0, c \notin cut', ~ Refreshing(c)' PROVE Live(c)' # {}
    OBVIOUS
  <2>1. PICK i \in DOMAIN sess : sess[i].pair = held[c] /\ sess[i].state = "live"
    BY <1>1 DEF ClientKept, Live, RowsOf
  <2>2. sess[i].c = c
    BY <2>1 DEF PairsKept
  <2>3. i \in DOMAIN sess' /\ sess'[i].pair = held'[c] /\ sess'[i].state = "live"
    BY <2>1, <2>2
  <2> QED
    BY <2>3 DEF Live, RowsOf
<1>3. ASSUME NEW i \in DOMAIN sess', sess'[i].c = c, sess'[i].state = "live", i \notin astray'
      PROVE  held'[c] = sess'[i].pair \/ Refreshing(c)'
  BY <1>1, <1>3 DEF ClientKept
<1>4. ASSUME NEW p \in Slot, Refreshes(p, c)' PROVE RefreshKept(p, c)'
  <2>1. req'[p] = req[p] /\ Refreshes(p, c) /\ RefreshKept(p, c) /\ Refreshing(c)
    BY <1>4 DEF SameRefreshes, ClientKept, Refreshes, Refreshing
  <2>2. PairOf(req[p])' = PairOf(req[p])
    BY <2>1 DEF PairOf, Refreshes
  <2>3. req'[p].at \in DOMAIN sess' /\ sess'[req'[p].at].c = c
    BY <2>1 DEF RefreshKept
  <2>4. c \notin cut' => sess'[req'[p].at].state = "live" /\ sess'[req'[p].at].pair = PairOf(req[p])
    BY <2>1 DEF RefreshKept
  <2>5. \A i \in DOMAIN sess' : sess'[i].c = c /\ sess'[i].state = "live" /\ i \notin astray' =>
          i = req'[p].at /\ sess'[i].pair = PairOf(req[p])
    BY <2>1 DEF RefreshKept
  <2> QED
    BY <2>2, <2>3, <2>4, <2>5 DEF RefreshKept
<1>5. ASSUME NEW p \in Slot, NEW q \in Slot, p # q, Refreshes(p, c)', Refreshes(q, c)'
      PROVE  c \in cut' /\ RowsAstray(c)'
  <2>1. c \in cut /\ RowsAstray(c)
    BY <1>5 DEF SameRefreshes, ClientKept, Refreshes
  <2> QED
    BY <2>1 DEF RowsAstray
<1> QED
  BY <1>2, <1>3, <1>4, <1>5 DEF ClientKept

\* A client that is cut off and whose rows are astray: a refresh of it need only
\* have a row of it.
LEMMA ClientAstray ==
    ASSUME NEW c \in Client, c \in cut', RowsAstray(c)',
           \A q \in Slot : Refreshes(q, c)' => req'[q].at \in DOMAIN sess' /\ sess'[req'[q].at].c = c
    PROVE  ClientKept(c)'
<1>1. \A q \in Slot : Refreshes(q, c)' => RefreshKept(q, c)'
  BY DEF RefreshKept, RowsAstray
<1> QED
  BY <1>1 DEF ClientKept, RowsAstray

\* It holds at the start.
LEMMA SessionInit == Init => SessionInv
<1> SUFFICES ASSUME Init PROVE SessionInv
  OBVIOUS
<1>1. First \in Client /\ 0 \notin Client
  BY ClientAssumption DEF First
<1>2. issued = 3 /\ cut = {} /\ astray = {} /\ \A p \in Slot : req[p].op = "none"
  BY DEF Init, Idle
<1>3. CASE user = 0
  <2>1. sess = <<>> /\ DOMAIN sess = {} /\ \A c \in Client : held[c] = 0
    BY <1>3 DEF Init
  <2> QED
    BY <1>2, <2>1 DEF SessionInv, PairsKept, ClientKept, Refreshes
<1>4. CASE user # 0
  <2>1. DOMAIN sess = {1} /\ sess[1] = NewRow(3, First) /\ \A c \in Client : held[c] = IF c = First THEN 3 ELSE 0
    BY <1>4 DEF Init
  <2>2. sess[1].pair = 3 /\ sess[1].c = First /\ sess[1].state = "live" /\ ~ sess[1].expired
    BY <2>1 DEF NewRow
  <2>3. PairsKept
    BY <1>1, <1>2, <2>1, <2>2 DEF PairsKept
  <2>4. ASSUME NEW c \in Client PROVE ClientKept(c)
    <3>1. c = First => 1 \in Live(c)
      BY <2>1, <2>2 DEF Live, RowsOf
    <3> QED
      BY <1>2, <2>1, <2>2, <3>1 DEF ClientKept, Refreshes
  <2> QED
    BY <2>3, <2>4 DEF SessionInv
<1> QED
  BY <1>3, <1>4

\* A step that touches no refresh, no row and no client.
LEMMA SessionFrame ==
    ASSUME TypeOK, SessionInv, TypeOK', RefreshesSame, UNCHANGED session, issued <= issued'
    PROVE  SessionInv'
<1>1. PairsKept'
  BY PairsFrame DEF session, SessionInv, RefreshesSame
<1>2. ASSUME NEW c \in Client PROVE ClientKept(c)'
  <2>1. SameRefreshes(c)
    BY DEF RefreshesSame, SameRefreshes, Refreshes
  <2> QED
    BY <2>1, ClientFades DEF session, SessionInv
<1> QED
  BY <1>1, <1>2 DEF SessionInv

\* A request of a client whose refresh is under way: the client is cut off, its
\* rows are astray, and its refreshes, if they go on, have their rows.
LEMMA OverlapCuts ==
    ASSUME TypeOK, SessionInv, NEW c \in Client, Refreshing(c), Overlaps(c),
           DOMAIN sess' = DOMAIN sess, \A i \in DOMAIN sess : sess'[i].c = sess[i].c,
           \A q \in Slot : \/ req'[q] = req[q]
                           \/ Refreshes(q, c)' => req'[q].at \in DOMAIN sess /\ sess[req'[q].at].c = c
    PROVE  ClientKept(c)'
<1>1. c \in cut' /\ RowsAstray(c)'
  BY DEF Overlaps, RowsAstray
<1>2. ASSUME NEW q \in Slot, Refreshes(q, c)' PROVE req'[q].at \in DOMAIN sess' /\ sess'[req'[q].at].c = c
  <2>1. CASE req'[q] = req[q]
    BY <1>2, <2>1 DEF SessionInv, ClientKept, RefreshKept, Refreshes
  <2> QED
    BY <1>2, <2>1
<1> QED
  BY <1>1, <1>2, ClientAstray

\* A step of a client, or on its rows, leaves the others as they are.
LEMMA OthersSame ==
    ASSUME TypeOK, SessionInv, NEW c \in Client,
           \A q \in Slot : req'[q] = req[q] \/ ((req[q].op = "refresh" => req[q].c = c) /\ (req'[q].op = "refresh" => req'[q].c = c)),
           \A d \in Client \ {c} : held'[d] = held[d], cut \ {c} \subseteq cut', astray \subseteq astray',
           DOMAIN sess \subseteq DOMAIN sess',
           \A i \in DOMAIN sess' \ DOMAIN sess : sess'[i].c = c,
           \A i \in DOMAIN sess : sess'[i].c = sess[i].c /\ (sess[i].c # c => sess'[i] = sess[i])
    PROVE  \A d \in Client \ {c} : ClientKept(d)'
<1> TAKE d \in Client \ {c}
<1>1. SameRefreshes(d)
  BY DEF SameRefreshes, Refreshes
<1> QED
  BY <1>1, ClientFades DEF SessionInv

\* RecordSession: the new row is live and has the pair that the client gets; its
\* rows from before are astray, and so is the new one when it refreshes or when
\* the answer is lost.
LEMMA RecordKeeps ==
    ASSUME TypeOK, RequestsFit, SessionInv, TypeOK', NEW p \in Slot, RecordSession(p)
    PROVE  SessionInv'
<1>t. /\ sess \in Seq(Row) /\ issued \in Nat /\ held \in [Client -> Nat] /\ req \in [Slot -> ReqTypes]
      /\ astray \subseteq Nat
  BY DEF TypeOK
<1>1. PICK c \in Client : c = req[p].c
  BY DEF RecordSession, RequestsFit, Fits
<1> DEFINE n == Len(sess) + 1
           new == NewRow(issued + 1, c)
<1>2. req[p].op = "login" /\ RefreshesSame
  <2>1. req[p].op = "login"
    BY DEF RecordSession, RequestsFit, Fits
  <2> QED
    BY <2>1, PlainSlots DEF RecordSession
<1>3. CASE user # req[p].u
  BY <1>2, <1>3, <1>t, SessionFrame DEF RecordSession
<1>4. CASE user = req[p].u
  <2>1. issued' = issued + 1 /\ sess' = Append(sess, new)
    BY <1>1, <1>4 DEF RecordSession
  <2>2. new.pair = issued + 1 /\ new.c = c /\ new.state = "live" /\ ~ new.expired
    BY DEF NewRow
  <2> HIDE DEF new
  <2>3. /\ n = Len(sess') /\ n \in DOMAIN sess' /\ n \notin DOMAIN sess /\ DOMAIN sess' = DOMAIN sess \cup {n}
        /\ sess'[n] = new /\ \A i \in DOMAIN sess : sess'[i] = sess[i]
    BY <1>t, <2>1
  <2>4. /\ \A i \in DOMAIN sess : sess[i].pair \in 1 .. issued
        /\ \A d \in Client : held[d] <= issued
        /\ \A d \in Client : \A i \in DOMAIN sess : sess[i].pair = held[d] => sess[i].c = d
    BY DEF SessionInv, PairsKept
  <2>5. \/ /\ held' = [held EXCEPT ![c] = issued + 1]
           /\ astray' = astray \cup Live(c) \cup (IF Refreshing(c) THEN {n} ELSE {})
           /\ cut' = IF Refreshing(c) THEN cut \cup {c} ELSE cut \ {c}
        \/ astray' = astray \cup {n} /\ UNCHANGED <<held, cut>>
    BY <1>1, <1>4, <2>3 DEF RecordSession
  <2>6. astray \subseteq astray' /\ \A d \in Client : held'[d] = held[d] \/ (held'[d] = issued + 1 /\ d = c)
    BY <1>1, <1>t, <2>5
  <2> HIDE DEF n
  <2>7. PairsKept'
    BY <1>2, <2>1, <2>2, <2>3, <2>6, PairsNew DEF SessionInv, RefreshesSame
  <2>8. ASSUME NEW d \in Client \ {c} PROVE ClientKept(d)'
    <3>1. held'[d] = held[d] /\ (d \in cut => d \in cut') /\ SameRefreshes(d)
      BY <1>2, <1>t, <2>5 DEF RefreshesSame, SameRefreshes, Refreshes
    <3> QED
      BY <2>2, <2>3, <2>6, <3>1, ClientFades DEF SessionInv
  <2>9. CASE astray' = astray \cup {n} /\ UNCHANGED <<held, cut>>
    <3>1. SameRefreshes(c)
      BY <1>2 DEF RefreshesSame, SameRefreshes, Refreshes
    <3>2. ClientKept(c)'
      BY <1>1, <2>3, <2>9, <3>1, ClientFades DEF SessionInv
    <3> QED
      BY <2>7, <2>8, <3>2 DEF SessionInv
  <2>10. CASE /\ held' = [held EXCEPT ![c] = issued + 1]
              /\ astray' = astray \cup Live(c) \cup (IF Refreshing(c) THEN {n} ELSE {})
              /\ cut' = IF Refreshing(c) THEN cut \cup {c} ELSE cut \ {c}
    <3>1. held'[c] = issued + 1 /\ (Refreshing(c)' <=> Refreshing(c))
      BY <1>1, <1>2, <1>t, <2>10 DEF Refreshing, RefreshesSame
    <3>2. n \in Live(c)'
      BY <1>t, <2>2, <2>3, <3>1 DEF Live, RowsOf
    <3>3. ASSUME NEW i \in DOMAIN sess, sess[i].c = c, sess[i].state = "live", i \notin astray'
          PROVE  Refreshing(c) /\ i \notin astray /\ sess[i].pair # held[c]
      <4>1. i \notin astray /\ i \notin Live(c)
        BY <2>10, <3>3
      <4>2. sess[i].pair # held[c]
        BY <1>t, <2>4, <3>3, <4>1 DEF Live, RowsOf
      <4> QED
        BY <1>1, <3>3, <4>1, <4>2 DEF SessionInv, ClientKept
    <3>4. ASSUME NEW q \in Slot, Refreshes(q, c)' PROVE RefreshKept(q, c)' /\ c \in cut'
      <4>1. req'[q] = req[q] /\ RefreshKept(q, c) /\ Refreshing(c)
        BY <1>1, <1>2, <3>4 DEF RefreshesSame, Refreshes, Refreshing, SessionInv, ClientKept
      <4>2. c \in cut' /\ n \in astray'
        BY <2>10, <4>1
      <4>3. ASSUME NEW i \in DOMAIN sess', sess'[i].c = c, sess'[i].state = "live", i \notin astray'
            PROVE  i = req'[q].at /\ sess'[i].pair = PairOf(req[q])'
        <5>1. i \in DOMAIN sess /\ sess'[i] = sess[i]
          BY <2>3, <4>2, <4>3
        <5>2. i \notin astray /\ sess[i].pair # held[c]
          BY <3>3, <4>3, <5>1
        <5>3. i = req[q].at /\ sess[i].pair = PairOf(req[q])
          BY <4>1, <4>3, <5>1, <5>2 DEF RefreshKept
        <5>4. req[q].pc = "answer"
          BY <3>4, <4>1, <5>2, <5>3 DEF PairOf, Refreshes
        <5> QED
          BY <4>1, <5>1, <5>3, <5>4 DEF PairOf
      <4>4. req'[q].at \in DOMAIN sess' /\ sess'[req'[q].at].c = c
        BY <2>3, <4>1 DEF RefreshKept
      <4> QED
        BY <4>1, <4>2, <4>3, <4>4 DEF RefreshKept
    <3>5. ASSUME NEW q1 \in Slot, NEW q2 \in Slot, q1 # q2, Refreshes(q1, c)', Refreshes(q2, c)'
          PROVE  c \in cut' /\ RowsAstray(c)'
      <4>1. c \in cut' /\ RowsAstray(c) /\ Refreshing(c)
        BY <1>1, <1>2, <3>4, <3>5 DEF RefreshesSame, Refreshes, Refreshing, SessionInv, ClientKept
      <4> QED
        BY <2>3, <2>6, <2>10, <4>1 DEF RowsAstray
    <3>6. ClientKept(c)'
      BY <2>3, <2>2, <3>1, <3>2, <3>3, <3>4, <3>5 DEF ClientKept
    <3> QED
      BY <1>1, <2>7, <2>8, <3>6 DEF SessionInv
  <2> QED
    BY <2>5, <2>9, <2>10
<1> QED
  BY <1>3, <1>4

\* Refresh: the row that is found is the one live row of the client, or the
\* client has none and signs in again.
LEMMA RefreshKeeps ==
    ASSUME TypeOK, RequestsFit, SessionInv, TypeOK', NEW p \in Slot, NEW c \in Client, Refresh(p, c)
    PROVE  SessionInv'
<1> DEFINE found == {i \in Live(c) : ~ sess[i].expired}
<1>t. /\ sess \in Seq(Row) /\ issued \in Nat /\ held \in [Client -> Nat] /\ req \in [Slot -> ReqTypes]
      /\ astray \subseteq Nat
  BY DEF TypeOK
<1>1. sess' = sess /\ issued' = issued /\ req[p].op = "none" /\ held[c] # 0
  <2>1. req[p] = Idle
    BY DEF Refresh, RequestsFit, Fits
  <2>2. Idle.op = "none"
    BY DEF Idle
  <2> QED
    BY <2>1, <2>2 DEF Refresh
<1>2. astray \subseteq astray' /\ cut \subseteq cut' /\ cut' \subseteq cut \cup {c}
  BY DEF Refresh, Overlaps
<1>3. held' \in {held, [held EXCEPT ![c] = 0]}
  BY DEF Refresh
<1>4. \/ found = {} /\ req' = req /\ held' = [held EXCEPT ![c] = 0]
      \/ held' = held /\ \E i \in found :
           req' = [req EXCEPT ![p] = [Idle EXCEPT !.op = "refresh", !.c = c, !.pc = "write", !.at = i]]
  BY DEF Refresh
<1>5. ASSUME NEW i, req' = [req EXCEPT ![p] = [Idle EXCEPT !.op = "refresh", !.c = c, !.pc = "write", !.at = i]]
      PROVE  /\ req'[p].op = "refresh" /\ req'[p].c = c /\ req'[p].pc = "write" /\ req'[p].at = i
             /\ \A q \in Slot \ {p} : req'[q] = req[q]
  BY <1>5, <1>t DEF Idle
<1>6. \A i \in found : i \in DOMAIN sess /\ sess[i].c = c /\ sess[i].pair = held[c] /\ sess[i].state = "live"
  BY DEF Live, RowsOf, SessionInv, PairsKept
<1>7. \A q \in Slot : req'[q] = req[q] \/ (q = p /\ req'[q].op = "refresh" /\ req'[q].c = c /\ req'[q].pc = "write" /\ req'[q].at \in found)
  BY <1>4, <1>5
<1>8. PairsKept'
  <2>1. \A d \in Client : held'[d] \in {0, held[d]}
    BY <1>3, <1>t
  <2> QED
    BY <1>1, <1>2, <1>7, <1>t, <2>1, PairsFrame DEF SessionInv
<1>9. \A d \in Client \ {c} : ClientKept(d)'
  BY <1>1, <1>2, <1>3, <1>7, <1>t, OthersSame
<1>10. CASE Refreshing(c)
  <2>1. Overlaps(c)
    BY DEF Refresh
  <2>2. ClientKept(c)'
    BY <1>1, <1>6, <1>7, <1>10, <2>1, OverlapCuts
  <2> QED
    BY <1>8, <1>9, <2>2 DEF SessionInv
<1>11. CASE ~ Refreshing(c)
  <2>1. UNCHANGED <<cut, astray>>
    BY <1>11 DEF Refresh, Overlaps
  <2>2. \A i \in DOMAIN sess : sess[i].c = c /\ sess[i].state = "live" /\ i \notin astray => held[c] = sess[i].pair /\ i \in found
    BY <1>1, <1>11 DEF SessionInv, ClientKept, Live, RowsOf, PairsKept
  <2> HIDE DEF found
  <2>3. CASE found = {} /\ req' = req /\ held' = [held EXCEPT ![c] = 0]
    <3>1. held'[c] = 0
      BY <1>t, <2>3
    <3>2. \A q \in Slot : ~ Refreshes(q, c)'
      BY <1>11, <2>3 DEF Refreshes, Refreshing
    <3>3. ClientKept(c)'
      BY <1>1, <2>1, <2>2, <2>3, <3>1, <3>2 DEF ClientKept
    <3> QED
      BY <1>8, <1>9, <3>3 DEF SessionInv
  <2>4. ASSUME held' = held, NEW i \in found,
               req' = [req EXCEPT ![p] = [Idle EXCEPT !.op = "refresh", !.c = c, !.pc = "write", !.at = i]]
        PROVE  ClientKept(c)'
    <3>1. \A q \in Slot : Refreshes(q, c)' => q = p
      BY <1>5, <1>11, <2>4 DEF Refreshes, Refreshing
    <3>2. Refreshes(p, c)' /\ Refreshing(c)'
      BY <1>5, <2>4 DEF Refreshes, Refreshing
    <3>3. PairOf(req[p])' = held[c]
      BY <1>5, <2>4 DEF PairOf
    <3>4. ASSUME NEW j \in DOMAIN sess, sess[j].c = c, sess[j].state = "live", j \notin astray
          PROVE  j = i /\ sess[j].pair = held[c]
      BY <1>6, <2>2, <2>4, <3>4 DEF SessionInv, PairsKept
    <3>5. RefreshKept(p, c)'
      BY <1>1, <1>5, <1>6, <2>1, <2>4, <3>3, <3>4 DEF RefreshKept
    <3> QED
      BY <3>1, <3>2, <3>5 DEF ClientKept
  <2> QED
    BY <1>4, <1>8, <1>9, <2>3, <2>4 DEF SessionInv
<1> QED
  BY <1>10, <1>11

\* A refresh of a client that has another one under way.
LEMMA OverlapKept ==
    ASSUME TypeOK, SessionInv, NEW c \in Client, NEW p \in Slot, NEW q \in Slot, p # q, Refreshes(p, c), Refreshes(q, c),
           cut \subseteq cut', astray \subseteq astray', DOMAIN sess' = DOMAIN sess,
           \A i \in DOMAIN sess : sess'[i].c = sess[i].c,
           \A s \in Slot : Refreshes(s, c)' => Refreshes(s, c) /\ req'[s].at = req[s].at
    PROVE  ClientKept(c)'
<1>1. c \in cut' /\ RowsAstray(c)'
  BY DEF SessionInv, ClientKept, RowsAstray
<1>2. ASSUME NEW s \in Slot, Refreshes(s, c)' PROVE req'[s].at \in DOMAIN sess' /\ sess'[req'[s].at].c = c
  BY <1>2 DEF SessionInv, ClientKept, RefreshKept
<1> QED
  BY <1>1, <1>2, ClientAstray

\* RefreshCommit: the new pair goes into the row that was found.
LEMMA CommitKeeps ==
    ASSUME TypeOK, RequestsFit, SessionInv, TypeOK', NEW p \in Slot, RefreshCommit(p)
    PROVE  SessionInv'
<1>t. /\ sess \in Seq(Row) /\ issued \in Nat /\ held \in [Client -> Nat] /\ req \in [Slot -> ReqTypes]
      /\ astray \subseteq Nat /\ \A i \in DOMAIN sess : sess[i] \in Row
  BY DEF TypeOK
<1>1. PICK c \in Client : c = req[p].c
  BY DEF RefreshCommit, RequestsFit, Fits
<1>2. PICK i \in DOMAIN sess : i = req[p].at /\ sess[i].c = c
  BY <1>1 DEF RefreshCommit, SessionInv, ClientKept, RefreshKept, Refreshes
<1>3. UNCHANGED <<held, cut, astray>> /\ req[p].op = "refresh" /\ req[p].pc = "write" /\ Refreshes(p, c)
  BY <1>1 DEF RefreshCommit, Refreshes
<1>k. ClientKept(c) /\ RefreshKept(p, c) /\ PairsKept
  BY <1>3 DEF SessionInv, ClientKept
<1>4. CASE sess[i].state = "gone"
  <2>1. sess' = sess /\ issued' = issued /\ Ends(p)
    BY <1>2, <1>4 DEF RefreshCommit
  <2>2. req'[p].op = "none" /\ \A q \in Slot \ {p} : req'[q] = req[q]
    BY <1>t, <2>1 DEF Ends, Idle
  <2>3. PairsKept'
    BY <1>3, <1>k, <1>t, <2>1, <2>2, PairsFrame
  <2>4. \A d \in Client \ {c} : ClientKept(d)'
    BY <1>1, <1>3, <2>1, <2>2, OthersSame
  <2>5. ClientKept(c)'
    <3>1. CASE \E q \in Slot \ {p} : Refreshes(q, c)
      BY <1>3, <2>1, <2>2, <3>1, OverlapKept DEF Refreshes
    <3>2. CASE \A q \in Slot \ {p} : ~ Refreshes(q, c)
      <4>1. \A q \in Slot : ~ Refreshes(q, c)'
        BY <2>2, <3>2 DEF Refreshes
      <4>2. c \in cut /\ \A j \in DOMAIN sess : ~ (sess[j].c = c /\ sess[j].state = "live" /\ j \notin astray)
        BY <1>2, <1>4, <1>k DEF RefreshKept
      <4> QED
        BY <1>3, <2>1, <4>1, <4>2 DEF ClientKept
    <3> QED
      BY <3>1, <3>2
  <2> QED
    BY <2>3, <2>4, <2>5 DEF SessionInv
<1>5. CASE sess[i].state # "gone"
  <2>1. /\ issued' = issued + 1 /\ sess' = [sess EXCEPT ![i] = Rotated(sess[i], issued + 1)]
        /\ req' = [req EXCEPT ![p].pc = "answer", ![p].id = issued + 1]
    BY <1>2, <1>5 DEF RefreshCommit
  <2>2. /\ req'[p].op = "refresh" /\ req'[p].c = c /\ req'[p].pc = "answer" /\ req'[p].id = issued + 1 /\ req'[p].at = i
        /\ \A q \in Slot \ {p} : req'[q] = req[q]
    BY <1>1, <1>2, <1>3, <1>t, <2>1 DEF ReqTypes
  <2>3. /\ DOMAIN sess' = DOMAIN sess /\ \A j \in DOMAIN sess \ {i} : sess'[j] = sess[j]
        /\ sess'[i].pair = issued + 1 /\ ~ sess'[i].expired /\ sess'[i].c = c /\ sess'[i].state = sess[i].state
    BY <1>2, <1>t, <2>1 DEF Rotated, Row
  <2>4. PairsKept'
    <3>1. DOMAIN sess' = DOMAIN sess \cup {i} /\ i \in DOMAIN sess' /\ sess'[i].c = sess[i].c
      BY <1>2, <2>3
    <3>2. \A q \in Slot : req'[q] = req[q] \/ (req'[q].id = issued + 1 /\ req'[q].c = sess'[i].c)
      BY <2>2, <2>3
    <3>3. astray \subseteq astray' /\ \A d \in Client : held'[d] = held[d]
      BY <1>3
    <3>4. /\ \A d \in Client : held'[d] = held[d] \/ (held'[d] = issued + 1 /\ sess'[i].c = d)
          /\ \A q \in Slot : \/ req'[q] = req[q] \/ req'[q].op # "refresh" \/ req'[q].pc # "answer"
                             \/ req'[q].id = issued + 1 /\ req'[q].c = sess'[i].c
          /\ \A j \in DOMAIN sess \ {i} : sess'[j] = sess[j]
          /\ issued' = issued + 1 /\ sess'[i].pair = issued + 1 /\ ~ sess'[i].expired
      BY <2>1, <2>3, <3>2, <3>3
    <3> QED
      BY <1>k, <3>1, <3>3, <3>4, PairsNew
  <2>5. \A d \in Client \ {c} : ClientKept(d)'
    BY <1>1, <1>2, <1>3, <2>2, <2>3, OthersSame
  <2>6. ClientKept(c)'
    <3>1. CASE \E q \in Slot \ {p} : Refreshes(q, c)
      BY <1>2, <1>3, <2>2, <2>3, <3>1, OverlapKept DEF Refreshes
    <3>2. CASE \A q \in Slot \ {p} : ~ Refreshes(q, c)
      <4>1. \A q \in Slot : Refreshes(q, c)' => q = p
        BY <2>2, <3>2 DEF Refreshes
      <4>2. Refreshing(c)' /\ PairOf(req[p])' = issued + 1
        BY <2>2 DEF Refreshing, PairOf
      <4>3. c \notin cut' => sess'[i].state = "live"
        BY <1>2, <1>3, <1>k, <2>3 DEF RefreshKept
      <4>4. ASSUME NEW j \in DOMAIN sess, sess'[j].c = c, sess'[j].state = "live", j \notin astray'
            PROVE  j = i
        BY <1>2, <1>3, <1>k, <2>3, <4>4 DEF RefreshKept
      <4>5. RefreshKept(p, c)'
        BY <2>2, <2>3, <4>2, <4>3, <4>4 DEF RefreshKept
      <4> QED
        BY <4>1, <4>2, <4>5 DEF ClientKept
    <3> QED
      BY <3>1, <3>2
  <2> QED
    BY <2>4, <2>5, <2>6 DEF SessionInv
<1> QED
  BY <1>4, <1>5

\* A refresh ends without its answer, or dies: if its row has a pair that the
\* client does not get, the client is cut off and the row is astray.
LEMMA EndKeeps ==
    ASSUME TypeOK, RequestsFit, SessionInv, TypeOK', NEW p \in Slot, req[p].op = "refresh", Ends(p),
           UNCHANGED <<sess, held, issued>>,
           IF req[p].pc = "answer" THEN cut' = cut \cup {req[p].c} /\ astray' = astray \cup {req[p].at}
           ELSE UNCHANGED <<cut, astray>>
    PROVE  SessionInv'
<1>t. /\ sess \in Seq(Row) /\ issued \in Nat /\ held \in [Client -> Nat] /\ req \in [Slot -> ReqTypes]
      /\ astray \subseteq Nat
  BY DEF TypeOK
<1>1. PICK c \in Client : c = req[p].c
  <2>1. req[p] # Idle
    BY DEF Idle
  <2> QED
    BY <2>1 DEF RequestsFit, Fits
<1>2. req'[p].op = "none" /\ (\A q \in Slot \ {p} : req'[q] = req[q]) /\ Refreshes(p, c)
  BY <1>1, <1>t DEF Ends, Idle, Refreshes
<1>k. ClientKept(c) /\ RefreshKept(p, c) /\ PairsKept
  BY <1>2 DEF SessionInv, ClientKept
<1>3. astray \subseteq astray' /\ cut \subseteq cut'
  OBVIOUS
<1>4. PairsKept'
  BY <1>2, <1>3, <1>k, <1>t, PairsFrame
<1>5. \A d \in Client \ {c} : ClientKept(d)'
  BY <1>1, <1>2, <1>3, OthersSame
<1>6. CASE \E q \in Slot \ {p} : Refreshes(q, c)
  <2>1. ClientKept(c)'
    BY <1>2, <1>3, <1>6, OverlapKept DEF Refreshes
  <2> QED
    BY <1>4, <1>5, <2>1 DEF SessionInv
<1>7. CASE \A q \in Slot \ {p} : ~ Refreshes(q, c)
  <2>1. \A q \in Slot : ~ Refreshes(q, c)'
    BY <1>2, <1>7 DEF Refreshes
  <2>2. CASE req[p].pc = "answer"
    <3>1. c \in cut' /\ \A j \in DOMAIN sess : ~ (sess[j].c = c /\ sess[j].state = "live" /\ j \notin astray')
      BY <1>1, <1>k, <2>2 DEF RefreshKept
    <3>2. ClientKept(c)'
      BY <2>1, <3>1 DEF ClientKept
    <3> QED
      BY <1>4, <1>5, <3>2 DEF SessionInv
  <2>3. CASE req[p].pc # "answer"
    <3>1. PairOf(req[p]) = held[c]
      BY <1>1, <2>3 DEF PairOf
    <3>2. held[c] # 0 /\ c \notin cut => req[p].at \in Live(c)
      BY <1>k, <3>1 DEF RefreshKept, Live, RowsOf
    <3>3. Live(c)' = Live(c) /\ UNCHANGED <<cut, astray>>
      BY <2>3 DEF Live, RowsOf
    <3>4. \A j \in DOMAIN sess : sess[j].c = c /\ sess[j].state = "live" /\ j \notin astray => sess[j].pair = held[c]
      BY <1>k, <3>1 DEF RefreshKept
    <3>5. ClientKept(c)'
      BY <2>1, <3>2, <3>3, <3>4 DEF ClientKept
    <3> QED
      BY <1>4, <1>5, <3>5 DEF SessionInv
  <2> QED
    BY <2>2, <2>3
<1> QED
  BY <1>6, <1>7

\* RefreshAnswer: the client gets the pair that the row has.
LEMMA AnswerKeeps ==
    ASSUME TypeOK, RequestsFit, SessionInv, TypeOK', NEW p \in Slot, RefreshAnswer(p)
    PROVE  SessionInv'
<1>t. /\ sess \in Seq(Row) /\ issued \in Nat /\ held \in [Client -> Nat] /\ req \in [Slot -> ReqTypes]
      /\ astray \subseteq Nat
  BY DEF TypeOK
<1>1. PICK c \in Client : c = req[p].c
  BY DEF RefreshAnswer, RequestsFit, Fits
<1>2. /\ req'[p].op = "none" /\ (\A q \in Slot \ {p} : req'[q] = req[q]) /\ Refreshes(p, c)
      /\ UNCHANGED <<sess, issued>> /\ req[p].op = "refresh" /\ req[p].pc = "answer"
  BY <1>1, <1>t DEF RefreshAnswer, Ends, Idle, Refreshes
<1>k. ClientKept(c) /\ RefreshKept(p, c) /\ PairsKept
  BY <1>2 DEF SessionInv, ClientKept
<1>3. CASE UNCHANGED held /\ cut' = cut \cup {req[p].c} /\ astray' = astray \cup {req[p].at}
  BY <1>2, <1>3, EndKeeps DEF RefreshAnswer
<1>4. CASE held' = [held EXCEPT ![c] = req[p].id] /\ UNCHANGED <<cut, astray>>
  <2> DEFINE id == req[p].id
  <2>1. held'[c] = id /\ \A d \in Client \ {c} : held'[d] = held[d]
    BY <1>4, <1>t
  <2>2. id \in 1 .. issued /\ \A i \in DOMAIN sess : sess[i].pair = id => sess[i].c = c
    BY <1>1, <1>2, <1>k DEF PairsKept
  <2>3. PairsKept'
    <3>1. \A d \in Client : held'[d] <= issued' /\ \A i \in DOMAIN sess' : sess'[i].pair = held'[d] => sess'[i].c = d
      BY <1>2, <1>k, <1>t, <2>1, <2>2 DEF PairsKept
    <3>2. \A q \in Slot : req'[q].op = "refresh" => req'[q] = req[q]
      BY <1>2
    <3> QED
      BY <1>2, <1>4, <1>k, <3>1, <3>2 DEF PairsKept
  <2>4. \A d \in Client \ {c} : ClientKept(d)'
    BY <1>1, <1>2, <1>4, <2>1, OthersSame
  <2>5. ClientKept(c)'
    <3>1. CASE \E q \in Slot \ {p} : Refreshes(q, c)
      BY <1>2, <1>4, <3>1, OverlapKept DEF Refreshes
    <3>2. CASE \A q \in Slot \ {p} : ~ Refreshes(q, c)
      <4>1. \A q \in Slot : ~ Refreshes(q, c)'
        BY <1>2, <3>2 DEF Refreshes
      <4>2. PairOf(req[p]) = id
        BY <1>2 DEF PairOf
      <4>3. c \notin cut' => req[p].at \in Live(c)'
        BY <1>2, <1>4, <1>k, <2>1, <2>2, <4>2 DEF RefreshKept, Live, RowsOf
      <4>4. \A j \in DOMAIN sess : sess[j].c = c /\ sess[j].state = "live" /\ j \notin astray => sess[j].pair = id
        BY <1>k, <4>2 DEF RefreshKept
      <4> QED
        BY <1>2, <1>4, <2>1, <4>1, <4>3, <4>4 DEF ClientKept
    <3> QED
      BY <3>1, <3>2
  <2> QED
    BY <2>3, <2>4, <2>5 DEF SessionInv
<1> QED
  BY <1>1, <1>3, <1>4 DEF RefreshAnswer

\* Logout: the client forgets its pair, and the row that has the pair ends.
LEMMA LogoutKeeps ==
    ASSUME TypeOK, RequestsFit, SessionInv, TypeOK', NEW c \in Client, Logout(c)
    PROVE  SessionInv'
<1>t. /\ sess \in Seq(Row) /\ issued \in Nat /\ held \in [Client -> Nat] /\ req \in [Slot -> ReqTypes]
      /\ astray \subseteq Nat
  BY DEF TypeOK
<1>1. sess' = Revoked(RowsOf(c)) /\ held' = [held EXCEPT ![c] = 0] /\ UNCHANGED <<req, issued>> /\ Overlaps(c)
  BY DEF Logout, LogoutRows
<1>2. /\ DOMAIN sess' = DOMAIN sess
      /\ \A i \in DOMAIN sess :
           /\ sess'[i].pair = sess[i].pair /\ sess'[i].c = sess[i].c /\ sess'[i].expired = sess[i].expired
           /\ sess'[i].state = IF i \in RowsOf(c) /\ sess[i].state = "live" THEN "revoked" ELSE sess[i].state
  BY <1>1, <1>t, RevokedRows
<1>3. astray \subseteq astray' /\ cut \subseteq cut'
  BY <1>1 DEF Overlaps
<1>4. held'[c] = 0 /\ \A d \in Client \ {c} : held'[d] = held[d]
  BY <1>1, <1>t
<1>5. PairsKept'
  BY <1>1, <1>2, <1>3, <1>4, <1>t, PairsFrame DEF SessionInv
<1>6. ASSUME NEW d \in Client \ {c} PROVE ClientKept(d)'
  <2>1. \A i \in DOMAIN sess : sess[i].c = d => i \notin RowsOf(c)
    BY DEF RowsOf, SessionInv, PairsKept
  <2>2. SameRefreshes(d)
    BY <1>1 DEF SameRefreshes
  <2> QED
    BY <1>2, <1>3, <1>4, <2>1, <2>2, ClientFades DEF SessionInv
<1>7. ClientKept(c)'
  <2>1. CASE Refreshing(c)
    BY <1>1, <1>2, <2>1, OverlapCuts
  <2>2. CASE ~ Refreshing(c)
    <3>1. UNCHANGED astray /\ \A q \in Slot : ~ Refreshes(q, c)'
      BY <1>1, <2>2 DEF Overlaps, Refreshing, Refreshes
    <3>2. ASSUME NEW i \in DOMAIN sess, sess[i].c = c, sess[i].state = "live", i \notin astray PROVE i \in RowsOf(c)
      <4>1. held[c] = sess[i].pair /\ held[c] # 0
        BY <2>2, <3>2 DEF SessionInv, ClientKept, PairsKept
      <4> QED
        BY <4>1 DEF RowsOf
    <3>3. \A i \in DOMAIN sess' : ~ (sess'[i].c = c /\ sess'[i].state = "live" /\ i \notin astray')
      BY <1>2, <3>1, <3>2
    <3> QED
      BY <1>4, <3>1, <3>3 DEF ClientKept
  <2> QED
    BY <2>1, <2>2
<1> QED
  BY <1>5, <1>6, <1>7 DEF SessionInv

\* Rows that are revoked by others, by the client from its other devices, or
\* expire: a client whose row ends is cut off, unless it does not refresh and
\* the row does not have its pair.
LEMMA RevokeKeeps ==
    ASSUME TypeOK, SessionInv, TypeOK', UNCHANGED <<req, held, issued>>, cut \subseteq cut', astray \subseteq astray',
           DOMAIN sess' = DOMAIN sess,
           \A i \in DOMAIN sess :
             /\ sess'[i].pair = sess[i].pair /\ sess'[i].c = sess[i].c
             /\ sess'[i].expired => sess[i].expired \/ i \in astray'
             /\ sess'[i].state = "live" => sess[i].state = "live"
             /\ \/ sess[i].c \in cut' \/ sess'[i].state = sess[i].state
                \/ ~ Refreshing(sess[i].c) /\ sess[i].pair # held[sess[i].c]
    PROVE  SessionInv'
<1>1. PairsKept'
  <2>1. issued \in Nat /\ issued <= issued' /\ \A c \in Client : held'[c] \in {0, held[c]}
    BY DEF TypeOK
  <2> QED
    BY <2>1, PairsFrame DEF SessionInv
<1>2. ASSUME NEW c \in Client PROVE ClientKept(c)'
  <2>1. SameRefreshes(c)
    BY DEF SameRefreshes
  <2> QED
    BY <2>1, ClientFades DEF SessionInv
<1> QED
  BY <1>1, <1>2 DEF SessionInv

\* DeleteCommit: every client is cut off.
LEMMA DeletionKeeps ==
    ASSUME TypeOK, RequestsFit, SessionInv, TypeOK', NEW p \in Slot, DeleteCommit(p)
    PROVE  SessionInv'
<1>t. /\ sess \in Seq(Row) /\ issued \in Nat /\ req \in [Slot -> ReqTypes] /\ \A i \in DOMAIN sess : sess[i] \in Row
  BY DEF TypeOK
<1>1. RefreshesSame /\ UNCHANGED <<held, astray, issued>>
  BY PlainSlots DEF DeleteCommit
<1>2. CASE user = req[p].u /\ ~ Referred(req[p].was)
  <2>1. /\ cut' = Client
        /\ sess' = [i \in DOMAIN sess |-> IF i <= req[p].was.sessions THEN [sess[i] EXCEPT !.state = "gone"] ELSE sess[i]]
    BY <1>2 DEF DeleteCommit
  <2>2. /\ DOMAIN sess' = DOMAIN sess
        /\ \A i \in DOMAIN sess : /\ sess'[i].pair = sess[i].pair /\ sess'[i].c = sess[i].c
                                  /\ sess'[i].expired = sess[i].expired
                                  /\ sess'[i].state = "live" => sess[i].state = "live"
    BY <1>t, <2>1 DEF Row
  <2>3. PairsKept'
    <3>1. issued <= issued'
      BY <1>1, <1>t
    <3> QED
      BY <1>1, <2>2, <3>1, PairsFrame DEF SessionInv, RefreshesSame
  <2>4. ASSUME NEW c \in Client PROVE ClientKept(c)'
    <3>1. SameRefreshes(c)
      BY <1>1 DEF RefreshesSame, SameRefreshes, Refreshes
    <3> QED
      BY <1>1, <2>1, <2>2, <3>1, ClientFades DEF SessionInv
  <2> QED
    BY <2>3, <2>4 DEF SessionInv
<1>3. CASE ~ (user = req[p].u /\ ~ Referred(req[p].was))
  <2>1. UNCHANGED session
    BY <1>1, <1>3 DEF DeleteCommit, session
  <2> QED
    BY <1>1, <1>t, <2>1, SessionFrame
<1> QED
  BY <1>2, <1>3

\* Every step keeps clients and the session list in agreement.
LEMMA SessionNext ==
    TypeOK /\ RequestsFit /\ SessionInv /\ TypeOK' /\ [Next]_vars => SessionInv'
<1> SUFFICES ASSUME TypeOK, RequestsFit, SessionInv, TypeOK', [Next]_vars PROVE SessionInv'
  OBVIOUS
<1>t. /\ sess \in Seq(Row) /\ issued \in Nat /\ req \in [Slot -> ReqTypes] /\ \A i \in DOMAIN sess : sess[i] \in Row
  BY DEF TypeOK
<1>i. Idle.op = "none" /\ \A p \in Slot : req[p].pc = "idle" => req[p] = Idle
  BY DEF RequestsFit, Fits, Idle
<1>f. ASSUME RefreshesSame, UNCHANGED session, issued' \in {issued, issued + 1} PROVE SessionInv'
  BY <1>f, <1>t, SessionFrame
<1>1. ASSUME NEW p \in Slot, RecordSession(p) PROVE SessionInv'
  BY <1>1, RecordKeeps
<1>2. ASSUME NEW p \in Slot, NEW c \in Client, Refresh(p, c) PROVE SessionInv'
  BY <1>2, RefreshKeeps
<1>3. ASSUME NEW p \in Slot, RefreshCommit(p) PROVE SessionInv'
  BY <1>3, CommitKeeps
<1>4. ASSUME NEW p \in Slot, RefreshAnswer(p) PROVE SessionInv'
  BY <1>4, AnswerKeeps
<1>5. ASSUME NEW c \in Client, Logout(c) PROVE SessionInv'
  BY <1>5, LogoutKeeps
<1>6. ASSUME NEW c \in Client, NEW j \in DOMAIN sess, RevokeSession(c, j) PROVE SessionInv'
  <2>1. /\ sess' = Revoked({j}) /\ cut' = cut \cup {sess[j].c} /\ UNCHANGED <<req, held, issued, astray>>
    BY <1>6 DEF RevokeSession, Owners
  <2> QED
    BY <1>t, <2>1, RevokedRows, RevokeKeeps
<1>7. ASSUME NEW c \in Client, RevokeOthers(c) PROVE SessionInv'
  <2>1. /\ sess' = Revoked(OthersThan(c)) /\ UNCHANGED <<req, held, issued, astray>>
        /\ cut' = cut \cup (Owners(OthersThan(c)) \ {c}) \cup (IF Refreshing(c) THEN {c} ELSE {})
    BY <1>7 DEF RevokeOthers
  <2>2. ASSUME NEW i \in DOMAIN sess
        PROVE  \/ sess[i].c \in cut' \/ sess'[i].state = sess[i].state
               \/ ~ Refreshing(sess[i].c) /\ sess[i].pair # held[sess[i].c]
    <3>1. CASE i \notin OthersThan(c)
      BY <1>t, <2>1, <3>1, RevokedRows
    <3>2. CASE i \in OthersThan(c)
      BY <2>1, <3>2 DEF OthersThan, Owners
    <3> QED
      BY <3>1, <3>2
  <2> QED
    BY <1>t, <2>1, <2>2, RevokedRows, RevokeKeeps
<1>8. ASSUME NEW j \in DOMAIN sess, Expire(j) PROVE SessionInv'
  <2>1. /\ sess' = [sess EXCEPT ![j].expired = TRUE] /\ cut \subseteq cut' /\ astray' = astray \cup {j}
        /\ UNCHANGED <<req, held, issued>>
    BY <1>8 DEF Expire
  <2>2. /\ DOMAIN sess' = DOMAIN sess
        /\ \A i \in DOMAIN sess : /\ sess'[i].pair = sess[i].pair /\ sess'[i].c = sess[i].c
                                  /\ sess'[i].state = sess[i].state
                                  /\ sess'[i].expired => sess[i].expired \/ i = j
    BY <1>t, <2>1 DEF Row
  <2> QED
    BY <2>1, <2>2, RevokeKeeps
<1>9. ASSUME NEW p \in Slot, DeleteCommit(p) PROVE SessionInv'
  BY <1>9, DeletionKeeps
<1>10. ASSUME NEW p \in Slot, Die(p) PROVE SessionInv'
  <2>1. CASE req[p].op = "refresh"
    BY <1>10, <2>1, EndKeeps DEF Die
  <2>2. CASE req[p].op # "refresh"
    <3>1. req[p].pc # "answer"
      BY <1>10, <2>2 DEF RequestsFit, Fits
    <3>2. UNCHANGED session /\ issued' = issued
      BY <1>10, <3>1 DEF Die, session
    <3> QED
      BY <1>10, <1>f, <2>2, <3>2, PlainSlots DEF Die
  <2> QED
    BY <2>1, <2>2
<1>11. ASSUME NEW p \in Slot, NEW c \in Client, Login(p, c) PROVE SessionInv'
  <2>1. RefreshesSame
    BY <1>11, <1>i, LoginTurns, PlainSlots DEF Login
  <2> QED
    BY <1>11, <1>f, <2>1 DEF Login
<1>12. ASSUME NEW p \in Slot, CreateUser(p) PROVE SessionInv'
  <2>1. RefreshesSame
    BY <1>12, CreateTurns, PlainSlots DEF CreateUser, RequestsFit, Fits
  <2> QED
    BY <1>12, <1>f, <2>1 DEF CreateUser
<1>13. ASSUME NEW p \in Slot, EnsureInsert(p) PROVE SessionInv'
  <2>1. RefreshesSame
    BY <1>13, InsertTurns, PlainSlots DEF EnsureInsert, RequestsFit, Fits
  <2>2. issued' \in {issued, issued + 1}
    BY <1>13 DEF EnsureInsert
  <2> QED
    BY <1>13, <1>f, <2>1, <2>2 DEF EnsureInsert
<1>14. ASSUME NEW p \in Slot, NEW c \in Client, NEW op \in Ensuring \ {"login"}, Ask(p, c, op) PROVE SessionInv'
  <2>1. RefreshesSame
    BY <1>14, <1>i, AskTurns, PlainSlots DEF Ask
  <2> QED
    BY <1>14, <1>f, <2>1 DEF Ask
<1>15. ASSUME NEW p \in Slot, NEW c \in Client, NEW op \in TotpOps, TwoFactor(p, c, op) PROVE SessionInv'
  <2>1. RefreshesSame
    BY <1>15, <1>i, TwoFactorTurns, PlainSlots DEF TwoFactor
  <2> QED
    BY <1>15, <1>f, <2>1 DEF TwoFactor
<1>16. ASSUME NEW p \in Slot, NEW c \in Client, Delete(p, c) PROVE SessionInv'
  <2>1. req'[p].op = "delete" /\ \A q \in Slot \ {p} : req'[q] = req[q]
    BY <1>16, <1>t DEF Delete, Idle
  <2>2. RefreshesSame
    BY <1>16, <1>i, <1>t, <2>1 DEF Delete, RefreshesSame
  <2> QED
    BY <1>16, <1>f, <2>2 DEF Delete
<1>17. ASSUME NEW p \in Slot, ChangePlan(p) PROVE SessionInv'
  BY <1>17, <1>f, PlainSlots DEF ChangePlan
<1>18. ASSUME NEW p \in Slot, UpdateWebhook(p) PROVE SessionInv'
  BY <1>18, <1>f, PlainSlots DEF UpdateWebhook
<1>19. ASSUME NEW p \in Slot, DeleteKey(p) PROVE SessionInv'
  <2>1. RefreshesSame
    BY <1>19, <1>t DEF DeleteKey, RefreshesSame, ReqTypes
  <2> QED
    BY <1>19, <1>f, <2>1 DEF DeleteKey
<1>20. ASSUME NEW p \in Slot, CreateKey(p) PROVE SessionInv'
  <2>1. req[p].op # "refresh" /\ issued' \in {issued, issued + 1}
    BY <1>20 DEF CreateKey, RequestsFit, Fits
  <2> QED
    BY <1>20, <1>f, <2>1, PlainSlots DEF CreateKey
<1>21. ASSUME NEW p \in Slot, TwoFactorCommit(p) PROVE SessionInv'
  <2>1. issued' \in {issued, issued + 1}
    BY <1>21 DEF TwoFactorCommit
  <2> QED
    BY <1>21, <1>f, <2>1, PlainSlots DEF TwoFactorCommit
<1>22. CASE UNCHANGED vars
  BY <1>22, <1>f DEF vars, RefreshesSame
<1> QED
  BY <1>1, <1>2, <1>3, <1>4, <1>5, <1>6, <1>7, <1>8, <1>9, <1>10, <1>11, <1>12, <1>13, <1>14, <1>15, <1>16, <1>17,
     <1>18, <1>19, <1>20, <1>21, <1>22
     DEF Next, NextSession, NextSettings, TotpOps

\* Clients and the session list agree: a client that holds tokens has its live
\* row, with its pair, and a live row belongs to a client, unless others ended
\* the session, an answer was lost or two requests of the client overlapped.
THEOREM SessionsStayHeld == Spec => []SessionsHold
<1>1. TypeOK /\ RequestsFit /\ AccountInv /\ SessionInv /\ [Next]_vars => SessionInv'
  BY TypeNext, SessionNext
<1>2. TypeOK /\ SessionInv => SessionsHold
  <2> SUFFICES ASSUME TypeOK, SessionInv PROVE HeldIsCurrent /\ LiveIsHeld
    BY DEF SessionsHold
  <2>1. HeldIsCurrent
    BY DEF SessionInv, ClientKept, HeldIsCurrent
  <2>2. LiveIsHeld
    <3>1. \A i \in DOMAIN sess : sess[i].c \in Client
      <4>1. sess \in Seq(Row)
        BY DEF TypeOK
      <4>2. \A i \in DOMAIN sess : sess[i] \in Row
        BY <4>1
      <4> QED
        BY <4>2 DEF Row
    <3> QED
      BY <3>1 DEF SessionInv, ClientKept, LiveIsHeld
  <2> QED
    BY <2>1, <2>2
<1> QED
  BY <1>1, <1>2, SessionInit, AccountInvariant, PTL DEF Spec

=============================================================================
