----------------------------- MODULE QueueLemmas -----------------------------
(***************************************************************************)
(* What the queues, tables and places of both daemons rest on: facts about *)
(* sequences, functions and families of disjoint sets.                     *)
(***************************************************************************)
EXTENDS Integers, SequencesExt, SequenceTheorems, TLAPS

-----------------------------------------------------------------------------
(* The sequence operators of the queues.                                   *)

\* push_back makes a queue longer by one.
LEMMA AppendType ==
    ASSUME NEW S, NEW s \in Seq(S), NEW e \in S
    PROVE  Append(s, e) \in Seq(S) /\ Len(Append(s, e)) = Len(s) + 1
OBVIOUS

\* Erasing at an index shifts what follows it.
LEMMA RemoveAtType ==
    ASSUME NEW S, NEW s \in Seq(S), NEW i \in DOMAIN s
    PROVE  /\ RemoveAt(s, i) \in Seq(S)
           /\ Len(RemoveAt(s, i)) = Len(s) - 1
           /\ \A j \in 1..(Len(s) - 1) :
                 RemoveAt(s, i)[j] = IF j < i THEN s[j] ELSE s[j + 1]
<1> DEFINE l == SubSeq(s, 1, i - 1)
           r == SubSeq(s, i + 1, Len(s))
<1>1. Len(s) \in Nat /\ i \in 1..Len(s) /\ DOMAIN s = 1..Len(s)
  BY LenProperties
<1>2. \A j \in 1..Len(s) : s[j] \in S
  BY ElementOfSeq
<1>3. l \in Seq(S) /\ Len(l) = i - 1 /\ \A j \in 1..(i - 1) : l[j] = s[j]
  <2>1. \A j \in 1..(i - 1) : s[j] \in S
    BY <1>1, <1>2
  <2>2. /\ l \in Seq(S)
        /\ Len(l) = IF 1 <= i - 1 THEN (i - 1) - 1 + 1 ELSE 0
        /\ \A j \in 1..((i - 1) - 1 + 1) : l[j] = s[1 + j - 1]
    BY <1>1, <2>1, SubSeqProperties
  <2> QED
    BY <1>1, <2>2
<1>4. r \in Seq(S) /\ Len(r) = Len(s) - i /\ \A j \in 1..(Len(s) - i) : r[j] = s[i + j]
  <2>1. \A j \in (i + 1)..Len(s) : s[j] \in S
    BY <1>1, <1>2
  <2>2. /\ r \in Seq(S)
        /\ Len(r) = IF i + 1 <= Len(s) THEN Len(s) - (i + 1) + 1 ELSE 0
        /\ \A j \in 1..(Len(s) - (i + 1) + 1) : r[j] = s[(i + 1) + j - 1]
    BY <1>1, <2>1, SubSeqProperties
  <2> QED
    BY <1>1, <2>2
<1>5. RemoveAt(s, i) = l \o r
  BY DEF RemoveAt
<1> HIDE DEF l, r
<1>6. /\ l \o r \in Seq(S)
      /\ Len(l \o r) = Len(l) + Len(r)
      /\ \A j \in 1..(Len(l) + Len(r)) : (l \o r)[j] = IF j <= Len(l) THEN l[j] ELSE r[j - Len(l)]
  BY <1>3, <1>4, ConcatProperties
<1>7. ASSUME NEW j \in 1..(Len(s) - 1)
      PROVE  (l \o r)[j] = IF j < i THEN s[j] ELSE s[j + 1]
  <2>1. j \in 1..(Len(l) + Len(r))
    BY <1>1, <1>3, <1>4
  <2>2. CASE j < i
    BY <1>1, <1>3, <1>6, <2>1, <2>2
  <2>3. CASE j >= i
    <3>1. j - Len(l) \in 1..(Len(s) - i) /\ ~(j <= Len(l)) /\ i + (j - Len(l)) = j + 1
      BY <1>1, <1>3, <2>3
    <3>2. (l \o r)[j] = r[j - Len(l)]
      BY <1>6, <2>1, <3>1
    <3>3. r[j - Len(l)] = s[i + (j - Len(l))]
      BY <1>4, <3>1
    <3>4. (l \o r)[j] = s[j + 1]
      BY <3>1, <3>2, <3>3
    <3>5. ~(j < i)
      BY <1>1, <2>3
    <3> QED
      BY <3>4, <3>5
  <2>4. j < i \/ j >= i
    BY <1>1
  <2> QED
    BY <2>2, <2>3, <2>4
<1>8. Len(l \o r) = Len(s) - 1
  BY <1>1, <1>3, <1>4, <1>6
<1> QED
  BY <1>5, <1>6, <1>7, <1>8

\* pop_front shifts the rest of the queue.
LEMMA TailType ==
    ASSUME NEW S, NEW s \in Seq(S), s # <<>>
    PROVE  /\ Head(s) \in S /\ Head(s) = s[1]
           /\ Tail(s) \in Seq(S) /\ Len(s) > 0 /\ Len(Tail(s)) = Len(s) - 1
           /\ \A j \in 1..(Len(s) - 1) : Tail(s)[j] = s[j + 1]
BY HeadTailProperties, EmptySeq

-----------------------------------------------------------------------------
(* Functions that record something of each application or PE.              *)

\* Setting one entry keeps the type of a table.
LEMMA UpdateType ==
    ASSUME NEW D, NEW R, NEW f \in [D -> R], NEW x \in D, NEW e \in R
    PROVE  [f EXCEPT ![x] = e] \in [D -> R]
OBVIOUS

\* Incrementing one entry keeps a table of counters.
LEMMA CountType ==
    ASSUME NEW D, NEW f \in [D -> Nat], NEW x \in D
    PROVE  [f EXCEPT ![x] = @ + 1] \in [D -> Nat]
<1>1. f[x] + 1 \in Nat
  OBVIOUS
<1> QED
  BY <1>1, UpdateType

-----------------------------------------------------------------------------
(* A queue as a set.                                                       *)

\* push_back adds one element to a queue.
LEMMA AppendElements ==
    ASSUME NEW S, NEW s \in Seq(S), NEW e \in S
    PROVE  ToSet(Append(s, e)) = ToSet(s) \cup {e}
<1>1. /\ Len(s) \in Nat /\ DOMAIN s = 1..Len(s)
      /\ DOMAIN Append(s, e) = 1..(Len(s) + 1)
      /\ Append(s, e)[Len(s) + 1] = e
      /\ \A i \in 1..Len(s) : Append(s, e)[i] = s[i]
  OBVIOUS
<1>2. \A x : x \in ToSet(Append(s, e)) <=> x \in ToSet(s) \cup {e}
  BY <1>1 DEF ToSet
<1> QED
  BY <1>2

\* front and pop_front split a queue that is not empty.
LEMMA HeadAndTail ==
    ASSUME NEW S, NEW s \in Seq(S), s # <<>>
    PROVE  ToSet(s) = ToSet(Tail(s)) \cup {Head(s)}
<1>1. /\ Head(s) = s[1] /\ Len(s) \in Nat /\ Len(s) > 0 /\ DOMAIN s = 1..Len(s)
      /\ Tail(s) \in Seq(S) /\ Len(Tail(s)) = Len(s) - 1
      /\ \A j \in 1..(Len(s) - 1) : Tail(s)[j] = s[j + 1]
  BY TailType, LenProperties
<1>2. DOMAIN Tail(s) = 1..(Len(s) - 1)
  BY <1>1, LenProperties
<1>3. ASSUME NEW x, x \in ToSet(s) PROVE x \in ToSet(Tail(s)) \cup {Head(s)}
  <2>1. PICK i \in 1..Len(s) : x = s[i]
    BY <1>1, <1>3 DEF ToSet
  <2>2. CASE i = 1
    BY <1>1, <2>1, <2>2
  <2>3. CASE i > 1
    <3>1. i - 1 \in 1..(Len(s) - 1) /\ (i - 1) + 1 = i
      BY <1>1, <2>3
    <3>2. Tail(s)[i - 1] = x
      BY <1>1, <2>1, <3>1
    <3> QED
      BY <1>2, <3>1, <3>2 DEF ToSet
  <2> QED
    BY <1>1, <2>2, <2>3
<1>4. ASSUME NEW x, x \in ToSet(Tail(s)) \cup {Head(s)} PROVE x \in ToSet(s)
  <2>1. CASE x = Head(s)
    BY <1>1, <2>1 DEF ToSet
  <2>2. CASE x \in ToSet(Tail(s))
    <3>1. PICK j \in 1..(Len(s) - 1) : x = Tail(s)[j]
      BY <1>2, <2>2 DEF ToSet
    <3>2. j + 1 \in 1..Len(s) /\ x = s[j + 1]
      BY <1>1, <3>1
    <3> QED
      BY <1>1, <3>2 DEF ToSet
  <2> QED
    BY <1>4, <2>1, <2>2
<1> QED
  BY <1>3, <1>4

\* A queue is empty exactly if nothing is in it.
LEMMA EmptyAsSet ==
    ASSUME NEW S, NEW q \in Seq(S)
    PROVE  q = <<>> <=> ToSet(q) = {}
<1>1. q # <<>> => Head(q) \in ToSet(q)
  BY HeadAndTail
<1> QED
  BY <1>1 DEF ToSet

-----------------------------------------------------------------------------
(* A queue without repetitions, as a set.                                  *)

\* push_back of an element a queue does not hold.
LEMMA AppendSet ==
    ASSUME NEW S, NEW s \in Seq(S), NEW e \in S, IsInjective(s), e \notin ToSet(s)
    PROVE  /\ ToSet(Append(s, e)) = ToSet(s) \cup {e}
           /\ IsInjective(Append(s, e))
<1> DEFINE q == Append(s, e)
<1>1. /\ Len(s) \in Nat /\ DOMAIN s = 1..Len(s)
      /\ DOMAIN q = 1..(Len(s) + 1)
      /\ q[Len(s) + 1] = e
      /\ \A i \in 1..Len(s) : q[i] = s[i]
  OBVIOUS
<1>2. \A x : x \in ToSet(q) <=> x \in ToSet(s) \cup {e}
  BY <1>1 DEF ToSet
<1>3. ASSUME NEW i \in DOMAIN q, NEW j \in DOMAIN q, q[i] = q[j]
      PROVE  i = j
  <2>1. \A k \in 1..Len(s) : s[k] # e
    BY <1>1 DEF ToSet
  <2> QED
    BY <1>1, <1>3, <2>1 DEF IsInjective
<1> QED
  BY <1>2, <1>3 DEF IsInjective

\* Erasing removes exactly one element of a queue without repetitions.
LEMMA RemoveAtSet ==
    ASSUME NEW S, NEW s \in Seq(S), NEW i \in DOMAIN s, IsInjective(s)
    PROVE  /\ s[i] \in ToSet(s)
           /\ ToSet(RemoveAt(s, i)) = ToSet(s) \ {s[i]}
           /\ IsInjective(RemoveAt(s, i))
<1> DEFINE q == RemoveAt(s, i)
<1>1. /\ Len(s) \in Nat /\ DOMAIN s = 1..Len(s) /\ i \in 1..Len(s)
      /\ DOMAIN q = 1..(Len(s) - 1)
      /\ \A j \in 1..(Len(s) - 1) : q[j] = IF j < i THEN s[j] ELSE s[j + 1]
  BY RemoveAtType, LenProperties
<1> HIDE DEF q
<1>2. ASSUME NEW x \in ToSet(q) PROVE x \in ToSet(s) \ {s[i]}
  <2>1. PICK j \in 1..(Len(s) - 1) : x = q[j]
    BY <1>1 DEF ToSet
  <2>2. PICK k \in 1..Len(s) : x = s[k] /\ k # i
    BY <1>1, <2>1
  <2> QED
    BY <1>1, <2>2 DEF ToSet, IsInjective
<1>3. ASSUME NEW x \in ToSet(s) \ {s[i]} PROVE x \in ToSet(q)
  <2>1. PICK k \in 1..Len(s) : x = s[k]
    BY <1>1 DEF ToSet
  <2>2. k # i
    BY <2>1
  <2>3. CASE k < i
    BY <1>1, <2>1, <2>3 DEF ToSet
  <2>4. CASE k > i
    <3>1. k - 1 \in 1..(Len(s) - 1) /\ ~(k - 1 < i) /\ (k - 1) + 1 = k
      BY <1>1, <2>4
    <3>2. q[k - 1] = x
      BY <1>1, <2>1, <3>1
    <3> QED
      BY <1>1, <3>1, <3>2 DEF ToSet
  <2> QED
    BY <1>1, <2>2, <2>3, <2>4
<1>4. ASSUME NEW j \in DOMAIN q, NEW k \in DOMAIN q, q[j] = q[k]
      PROVE  j = k
  <2> DEFINE f(n) == IF n < i THEN n ELSE n + 1
  <2>1. f(j) \in 1..Len(s) /\ f(k) \in 1..Len(s) /\ s[f(j)] = s[f(k)]
    BY <1>1, <1>4
  <2>2. f(j) = f(k)
    BY <1>1, <2>1 DEF IsInjective
  <2> QED
    BY <1>1, <2>2
<1> QED
  BY <1>1, <1>2, <1>3, <1>4 DEF IsInjective, ToSet, q

\* So does pop_front.
LEMMA TailSet ==
    ASSUME NEW S, NEW s \in Seq(S), s # <<>>, IsInjective(s)
    PROVE  /\ Head(s) \in ToSet(s)
           /\ ToSet(Tail(s)) = ToSet(s) \ {Head(s)}
           /\ IsInjective(Tail(s))
<1>1. 1 \in DOMAIN s /\ Head(s) = s[1] /\ Len(s) \in Nat /\ Len(s) > 0
  BY TailType, LenProperties
<1>2. Tail(s) = RemoveAt(s, 1)
  <2>1. Tail(s) \in Seq(S) /\ RemoveAt(s, 1) \in Seq(S)
    BY <1>1, TailType, RemoveAtType
  <2>2. Len(Tail(s)) = Len(s) - 1 /\ Len(RemoveAt(s, 1)) = Len(s) - 1
    BY <1>1, TailType, RemoveAtType
  <2>3. \A j \in 1..(Len(s) - 1) : Tail(s)[j] = s[j + 1]
    BY TailType
  <2>4. \A j \in 1..(Len(s) - 1) : RemoveAt(s, 1)[j] = IF j < 1 THEN s[j] ELSE s[j + 1]
    BY <1>1, RemoveAtType
  <2>5. \A j \in 1..Len(Tail(s)) : Tail(s)[j] = RemoveAt(s, 1)[j]
    BY <1>1, <2>2, <2>3, <2>4
  <2> QED
    BY <2>1, <2>2, <2>5, SeqEqual
<1> QED
  BY <1>1, <1>2, RemoveAtSet

-----------------------------------------------------------------------------
(* A family of disjoint sets, one of whose elements changes its place.     *)

\* Moving one element keeps the family disjoint and its union the same.
LEMMA Move ==
    ASSUME NEW P, NEW C, NEW D, NEW p \in P, NEW q \in P, p # q, NEW t \in C[p],
           \A u, v \in P : u # v => C[u] \cap C[v] = {},
           D[p] = C[p] \ {t},
           D[q] = C[q] \cup {t},
           \A u \in P \ {p, q} : D[u] = C[u]
    PROVE  /\ \A u, v \in P : u # v => D[u] \cap D[v] = {}
           /\ UNION {D[u] : u \in P} = UNION {C[u] : u \in P}
<1>1. ASSUME NEW x, NEW u \in P, NEW v \in P, x \in D[u], x \in D[v]
      PROVE  u = v
  <2>1. CASE x = t
    <3>1. \A w \in P : t \in C[w] => w = p
      OBVIOUS
    <3>2. \A w \in P : t \in D[w] => w = q
      BY <3>1
    <3> QED
      BY <1>1, <2>1, <3>2
  <2>2. CASE x # t
    <3>1. x \in C[u] /\ x \in C[v]
      BY <1>1, <2>2
    <3> QED
      BY <3>1
  <2> QED
    BY <2>1, <2>2
<1>2. ASSUME NEW x
      PROVE  (\E u \in P : x \in D[u]) <=> (\E u \in P : x \in C[u])
  <2>1. CASE x = t
    BY <2>1
  <2>2. CASE x # t
    <3>1. \A u \in P : x \in D[u] <=> x \in C[u]
      BY <2>2
    <3> QED
      BY <3>1
  <2> QED
    BY <2>1, <2>2
<1> QED
  BY <1>1, <1>2

=============================================================================
