----------------------------- MODULE SchedProofs -----------------------------
(***************************************************************************)
(* Theorems about SchedPolicies: what the policies give, and how many free *)
(* PEs they count, for any tasks, PEs and times, and that each of them     *)
(* keeps to the rounds of SchedRound.                                      *)
(***************************************************************************)
EXTENDS SchedPolicies, QueueLemmas, FiniteSetTheorems, WellFoundedInduction

-----------------------------------------------------------------------------
(* Least and greatest elements.                                            *)

\* A set of numbers that is not empty has a least element.
LEMMA LeastNat ==
    ASSUME NEW S \in SUBSET Nat, S # {}
    PROVE  \E x \in S : \A y \in S : x <= y
<1>1. PICK x \in S : \A y \in S : ~(<<y, x>> \in OpToRel(<, Nat))
  BY WFMin, NatLessThanWellFounded
<1>2. ASSUME NEW y \in S PROVE x <= y
  <2> DEFINE p == <<y, x>>
  <2>1. p[1] = y /\ p[2] = x /\ x \in Nat /\ y \in Nat
    BY <1>1
  <2>2. ASSUME y < x PROVE FALSE
    <3>1. p \in Nat \X Nat /\ p[1] < p[2]
      BY <2>1, <2>2
    <3>2. p \in OpToRel(<, Nat)
      BY <3>1 DEF OpToRel
    <3> QED
      BY <1>1, <3>2
  <2> QED
    BY <2>1, <2>2
<1> QED
  BY <1>2

\* So Min finds it.
LEMMA MinIs ==
    ASSUME NEW S \in SUBSET Nat, S # {}
    PROVE  Min(S) \in S /\ \A y \in S : Min(S) <= y
BY LeastNat DEF Min

\* A set of numbers up to n has a greatest element.
LEMMA MaxIs ==
    ASSUME NEW n \in Nat, NEW S \in SUBSET (1..n), S # {}
    PROVE  Max(S) \in S
<1> DEFINE T == {m \in Nat : n - m \in S}
<1>1. T \in SUBSET Nat /\ T # {}
  <2>1. PICK x \in S : TRUE
    OBVIOUS
  <2>2. n - x \in Nat /\ n - (n - x) = x
    BY <2>1
  <2> QED
    BY <2>1, <2>2
<1>2. PICK m \in T : \A y \in T : m <= y
  BY <1>1, LeastNat
<1>3. ASSUME NEW y \in S PROVE n - m >= y
  <2>1. n - y \in T /\ y \in Nat /\ m \in Nat
    <3>1. y \in Nat /\ n - y \in Nat /\ n - (n - y) = y
      OBVIOUS
    <3> QED
      BY <3>1
  <2>2. m <= n - y
    BY <1>2, <2>1
  <2> QED
    BY <2>1, <2>2
<1>4. n - m \in S
  BY <1>2
<1> QED
  BY <1>3, <1>4 DEF Max

\* A numeric function has a minimum over a set that is not empty.
LEMMA LeastExists ==
    ASSUME NEW D, NEW f \in [D -> Nat], D # {}
    PROVE  \E x \in D : \A y \in D : f[x] <= f[y]
<1> DEFINE S == {f[x] : x \in D}
<1>1. S \in SUBSET Nat /\ S # {}
  OBVIOUS
<1>2. PICK v \in S : \A w \in S : v <= w
  BY <1>1, LeastNat
<1>3. PICK x \in D : v = f[x]
  BY <1>2
<1> QED
  BY <1>2, <1>3

-----------------------------------------------------------------------------
(* What the policies compute.                                              *)

\* PEs and their types are numbers.
LEMMA PEType ==
    /\ NumPEs \in Nat /\ NumPEs > 0 /\ PE \subseteq Nat
    /\ \A p \in PE : TypeOf[p] \in Nat
    /\ \A t : CanRun(t) \subseteq PE /\ CanRun(t) \subseteq Nat
BY SchedAssumption DEF PE, CanRun

\* The estimated time of a task on a PE that can run it.
LEMMA ExecType ==
    ASSUME NEW t \in Task, NEW p \in CanRun(t)
    PROVE  p \in PE /\ Exec[t][TypeOf[p]] \in Nat
BY SchedAssumption DEF CanRun

\* The later of two times.
LEMMA LaterType ==
    ASSUME NEW a \in Nat, NEW b \in Nat
    PROVE  Later(a, b) \in Nat /\ Later(a, b) >= a /\ Later(a, b) >= b
BY DEF Later

\* What the policies compare is a number.
LEMMA FinishType ==
    ASSUME TypeOK, NEW t \in Task, NEW p \in CanRun(t)
    PROVE  Finish(t, p) \in Nat
<1>1. p \in PE /\ Exec[t][TypeOf[p]] \in Nat
  BY ExecType
<1>2. avail[p] \in Nat /\ stamp \in Nat
  BY <1>1, SchedAssumption DEF TypeOK
<1>3. Later(stamp, avail[p]) \in Nat
  BY <1>2, LaterType
<1> QED
  BY <1>1, <1>2, <1>3 DEF Finish

\* The search looks at PEs.
LEMMA LooksAtType ==
    ASSUME TypeOK
    PROVE  LooksAt \in PE
<1>1. PICK n \in Nat : n = NumPEs /\ n > 0
  BY PEType
<1>2. PICK s \in 0..(n - 1) : s = seen
  BY <1>1 DEF TypeOK
<1>3. n - s \in 1..n /\ s + 1 \in 1..n
  BY <1>1, <1>2
<1> QED
  BY <1>1, <1>2, <1>3 DEF LooksAt, PE

\* The PEs that a policy which goes round them meets.
LEMMA AtType ==
    ASSUME TypeOK, NEW i \in Nat
    PROVE  At(i) \in PE /\ At(i) % NumPEs \in 0..(NumPEs - 1)
<1>1. rr \in Nat /\ rr + i \in Nat
  BY PEType DEF TypeOK
<1>2. (rr + i) % NumPEs \in 0..(NumPEs - 1)
  BY <1>1, PEType
<1>3. At(i) \in 1..NumPEs
  BY <1>2, PEType DEF At
<1>4. At(i) % NumPEs \in 0..(NumPEs - 1)
  BY <1>3, PEType
<1> QED
  BY <1>3, <1>4 DEF PE

\* It meets each of them.
LEMMA RingReaches ==
    ASSUME TypeOK, NEW p \in PE
    PROVE  \E i \in 0..(NumPEs - 1) : At(i) = p
<1>1. PICK n \in Nat : n = NumPEs /\ n > 0
  BY PEType
<1>2. PICK r \in 0..(n - 1) : r = rr
  BY <1>1 DEF TypeOK
<1>3. p \in 1..n
  BY <1>1 DEF PE
<1>4. CASE p - 1 >= r
  <2> DEFINE i == p - 1 - r
  <2>1. i \in 0..(n - 1) /\ r + i = p - 1
    BY <1>1, <1>2, <1>3, <1>4
  <2>2. (p - 1) % n = p - 1
    BY <1>1, <1>3
  <2>3. At(i) = p
    BY <1>1, <1>2, <1>3, <2>1, <2>2 DEF At
  <2> QED
    BY <1>1, <2>1, <2>3
<1>5. CASE p - 1 < r
  <2> DEFINE i == p - 1 - r + n
  <2>1. i \in 0..(n - 1) /\ r + i = (p - 1) + n
    BY <1>1, <1>2, <1>3, <1>5
  <2>2. ((p - 1) + n) % n = p - 1
    BY <1>1, <1>3
  <2>3. At(i) = p
    BY <1>1, <1>2, <1>3, <2>1, <2>2 DEF At
  <2> QED
    BY <1>1, <2>1, <2>3
<1> QED
  BY <1>2, <1>3, <1>4, <1>5

\* The type MET wants is that of a PE, if there is one that can run the task.
LEMMA MetTypeIs ==
    ASSUME NEW t \in Task, CanRun(t) # {}
    PROVE  \E p \in CanRun(t) : TypeOf[p] = MetType(t)
<1> DEFINE f == [p \in CanRun(t) |-> Exec[t][TypeOf[p]]]
           fastest == Least(CanRun(t), LAMBDA p : Exec[t][TypeOf[p]])
           T == {TypeOf[p] : p \in fastest}
<1>1. f \in [CanRun(t) -> Nat]
  BY ExecType
<1>2. PICK p \in CanRun(t) : \A q \in CanRun(t) : f[p] <= f[q]
  BY <1>1, LeastExists
<1>3. p \in fastest
  BY <1>2 DEF Least
<1>4. fastest \subseteq CanRun(t) /\ fastest \subseteq 1..NumPEs
  BY PEType DEF Least, PE
<1>5. T \subseteq Nat /\ T # {}
  BY <1>3, <1>4, PEType
<1>6. Min(T) \in T /\ Max(fastest) \in fastest
  BY <1>3, <1>4, <1>5, MinIs, MaxIs, PEType
<1>7. MetType(t) \in T
  BY <1>3, <1>6 DEF MetType
<1> QED
  BY <1>4, <1>7

\* A policy that goes round the PEs finds none for a task only if it waits; with
\* queueing, only if no PE can run it.
LEMMA RingRefuses ==
    ASSUME TypeOK, NEW t \in Task,
           \A i \in 0..(NumPEs - 1) : ~(At(i) \in Candidates(t) /\ Takes(t, At(i)))
    PROVE  Waits(t) /\ (cfg.queueing => CanRun(t) = {})
<1>1. CASE CanRun(t) = {}
  BY <1>1 DEF Waits
<1>2. CASE CanRun(t) # {}
  <2>1. PICK p \in CanRun(t) : p \in Candidates(t)
    BY <1>2, MetTypeIs, PEType DEF Candidates
  <2>2. PICK i \in 0..(NumPEs - 1) : At(i) = p
    BY PEType, RingReaches
  <2>3. ~Takes(t, p)
    BY <2>1, <2>2
  <2> QED
    BY <2>1, <2>3 DEF Takes, Waits
<1> QED
  BY <1>1, <1>2

-----------------------------------------------------------------------------
(* The ready queue, put in order.                                          *)

\* A queue without repetitions is as long as the set of its elements.
LEMMA SizeOfSet ==
    ASSUME NEW S, NEW s \in Seq(S), IsInjective(s)
    PROVE  IsFiniteSet(ToSet(s)) /\ Cardinality(ToSet(s)) = Len(s)
<1>0. PICK n \in Nat : n = Len(s)
  BY LenProperties
<1> DEFINE D == 1..n
<1>1. DOMAIN s = D /\ s = [i \in D |-> s[i]]
  BY <1>0, LenProperties
<1>2. s \in [D -> ToSet(s)] /\ \A y \in ToSet(s) : \E i \in D : s[i] = y
  BY <1>1 DEF ToSet
<1>3. s \in Surjection(D, ToSet(s)) /\ s \in Injection(D, ToSet(s))
  BY <1>2 DEF Surjection, Injection
<1>4. IsFiniteSet(D) /\ Cardinality(D) = n
  BY FS_Interval
<1> HIDE DEF D
<1> QED
  BY <1>0, <1>3, <1>4, FS_Surjection

\* The sequences of the elements of a queue are the queue in another order.
LEMMA SeqsPermute ==
    ASSUME NEW S, NEW s \in Seq(S), IsInjective(s), NEW q \in SetToSeqs(ToSet(s))
    PROVE  /\ q \in Seq(S) /\ IsInjective(q)
           /\ Len(q) = Len(s) /\ ToSet(q) = ToSet(s)
<1>1. PICK n \in Nat : n = Len(s)
  BY LenProperties
<1> DEFINE D == 1..n
           R == ToSet(s)
<1>2. IsFiniteSet(R) /\ Cardinality(R) = n
  BY <1>1, SizeOfSet
<1>3. /\ q \in [D -> R]
      /\ \A i, j \in D : i # j => q[i] # q[j]
  BY <1>2 DEF SetToSeqs
<1>4. R \subseteq S
  BY ElementOfSeq, LenProperties DEF ToSet
<1>5. q \in [1..n -> S]
  BY <1>3, <1>4
<1>6. q \in Seq(S) /\ Len(q) = n /\ DOMAIN q = D
  BY <1>5
<1>7. IsFiniteSet(D) /\ Cardinality(D) = n
  BY FS_Interval
<1> HIDE DEF D, R
<1>8. IsInjective(q) /\ q \in Injection(D, R)
  BY <1>3 DEF IsInjective, Injection
<1>9. q \in Surjection(D, R)
  BY <1>2, <1>7, <1>8, FS_Injection
<1>10. ToSet(q) = R
  BY <1>3, <1>6, <1>9 DEF Surjection, ToSet
<1> QED
  BY <1>1, <1>6, <1>8, <1>10 DEF R

\* A policy begins with the tasks that were ready.
LEMMA OrdersPermute ==
    ASSUME TypeOK, IsInjective(ready), NEW s \in Orders
    PROVE  /\ s \in Seq(Task) /\ IsInjective(s)
           /\ Len(s) = Len(ready) /\ ToSet(s) = ToSet(ready)
<1>1. ready \in Seq(Task)
  BY DEF TypeOK
<1>2. CASE s = ready
  BY <1>1, <1>2
<1>3. CASE s \in SetToSeqs(ToSet(ready))
  BY <1>1, <1>3, SeqsPermute
<1>4. s = ready \/ s \in SetToSeqs(ToSet(ready))
  BY DEF Orders
<1> QED
  BY <1>2, <1>3, <1>4

-----------------------------------------------------------------------------
(* Types.                                                                  *)

\* The variables that an attempt to give a task changes.
GiveOK ==
    /\ ready' \in Seq(Task) /\ pending' \in [PE -> Seq(Task)]
    /\ avail' \in [PE -> Nat]
    /\ cache' \in [{Key[t] : t \in Task} -> PE \cup {0}]
    /\ given' \in BOOLEAN

\* Giving a task keeps their types, and is to a PE that can run it.
LEMMA GiveType ==
    ASSUME TypeOK, NEW k \in DOMAIN ready, NEW p, Give(k, p)
    PROVE  GiveOK /\ p \in PE /\ p \in CanRun(ready[k]) /\ ready[k] \in Task
<1> DEFINE t == ready[k]
<1>1. t \in Task
  BY ElementOfSeq, LenProperties DEF TypeOK
<1>2. p \in CanRun(t) /\ p \in PE /\ Exec[t][TypeOf[p]] \in Nat
  BY <1>1, ExecType DEF Give, Takes
<1>3. ready' \in Seq(Task)
  BY RemoveAtType DEF TypeOK, Give
<1>4. pending' \in [PE -> Seq(Task)]
  <2>1. pending[p] \in Seq(Task)
    BY <1>2 DEF TypeOK
  <2>2. Append(pending[p], t) \in Seq(Task)
    BY <1>1, <2>1, AppendType
  <2>3. pending' = [pending EXCEPT ![p] = Append(pending[p], t)]
    BY DEF Give
  <2> QED
    BY <1>2, <2>2, <2>3, UpdateType DEF TypeOK
<1>5. avail' \in [PE -> Nat]
  <2>1. avail[p] \in Nat /\ now \in Nat
    BY <1>2, SchedAssumption DEF TypeOK
  <2>2. Later(now, avail[p]) + Exec[t][TypeOf[p]] \in Nat
    <3>1. Later(now, avail[p]) \in Nat
      BY <2>1, LaterType
    <3> QED
      BY <1>2, <3>1
  <2>3. \/ avail' = [avail EXCEPT ![p] = Later(now, avail[p]) + Exec[t][TypeOf[p]]]
        \/ avail' = avail
    BY DEF Give
  <2>4. avail \in [PE -> Nat]
    BY DEF TypeOK
  <2> QED
    BY <1>2, <2>2, <2>3, <2>4, UpdateType
<1>6. cache' \in [{Key[u] : u \in Task} -> PE \cup {0}]
  <2>1. Key[t] \in {Key[u] : u \in Task} /\ p \in PE \cup {0}
    BY <1>1, <1>2
  <2>2. cache' = [cache EXCEPT ![Key[t]] = p] \/ cache' = cache
    BY DEF Give
  <2>3. cache \in [{Key[u] : u \in Task} -> PE \cup {0}]
    BY DEF TypeOK
  <2> QED
    BY <2>1, <2>2, <2>3, UpdateType
<1>7. given' \in BOOLEAN
  BY DEF Give
<1> QED
  BY <1>1, <1>2, <1>3, <1>4, <1>5, <1>6, <1>7 DEF GiveOK

\* So does keeping it.
LEMMA KeepType ==
    ASSUME TypeOK, Keep
    PROVE  GiveOK
BY DEF TypeOK, Keep, GiveOK

\* The numbers of a policy that counts.
LEMMA CountedType ==
    ASSUME TypeOK, Counted
    PROVE  free' \in 0..(CountMod - 1)
<1>1. PICK m \in Nat : m = CountMod /\ m > 0
  BY SchedAssumption, FS_CardinalityType
<1>2. PICK n \in Nat : n = free
  BY <1>1 DEF TypeOK
<1>3. n + m - 1 \in Nat
  BY <1>1
<1>4. (n + m - 1) % m \in 0..(m - 1)
  BY <1>1, <1>3
<1>5. free' = free \/ free' = (n + m - 1) % m
  BY <1>1, <1>2 DEF Counted, OneLess
<1> QED
  BY <1>1, <1>4, <1>5 DEF TypeOK

\* The first state has its types.
LEMMA TypeInit == Init => TypeOK
<1> SUFFICES ASSUME Init PROVE TypeOK
  OBVIOUS
<1>1. cfg \in Config /\ 0 \in 0..MaxTime
  BY SchedAssumption DEF Init
<1>2. free \in 0..(CountMod - 1)
  <2>1. Cardinality(Task) \in Nat
    BY SchedAssumption, FS_CardinalityType
  <2> QED
    BY <2>1, SchedAssumption DEF Init
<1>3. rr \in 0..(NumPEs - 1)
  BY PEType DEF Init
<1>4. ready \in Seq(Task) /\ pending \in [PE -> Seq(Task)] /\ avail \in [PE -> Nat]
  BY DEF Init
<1>5. cache \in [{Key[t] : t \in Task} -> PE \cup {0}]
  BY DEF Init
<1>6. gone \subseteq Task /\ now \in 0..MaxTime /\ stamp \in 0..MaxTime
  BY <1>1 DEF Init
<1>7. phase = "rest" /\ pos = 0 /\ left = 0 /\ given = FALSE
  BY DEF Init
<1>8. itr = 0 /\ found = 0 /\ pick = 0 /\ seen \in 0..(NumPEs - 1)
  BY PEType DEF Init
<1> QED
  BY <1>1, <1>2, <1>3, <1>4, <1>5, <1>6, <1>7, <1>8 DEF TypeOK

\* Where the main thread stands after an attempt.
LEMMA StopType ==
    ASSUME StopAtZero
    PROVE  phase' \in {"try", "report"}
BY DEF StopAtZero

\* Every step keeps them.
LEMMA TypeStep ==
    ASSUME TypeOK, IsInjective(ready), SearchInv, [Next]_vars
    PROVE  TypeOK'
<1> DEFINE WorldOK == cfg' \in Config /\ gone' \subseteq Task /\ now' \in 0..MaxTime
           CountOK == free' \in 0..(CountMod - 1) /\ rr' \in 0..(NumPEs - 1)
           Phases == {"rest", "cached", "choose", "try", "seek", "ask", "report", "dead", "stray"}
           RoundOK == /\ phase' \in Phases
                      /\ pos' \in Nat /\ left' \in Nat /\ stamp' \in 0..MaxTime
           SearchOK == /\ itr' \in Nat /\ seen' \in 0..(NumPEs - 1)
                       /\ found' \in Nat \cup {Never} /\ pick' \in PE \cup {0}
<1>0. WorldOK /\ CountOK /\ RoundOK /\ SearchOK /\ GiveOK => TypeOK'
  BY DEF GiveOK, TypeOK
<1>a. UNCHANGED world => WorldOK
  BY DEF world, TypeOK
<1>b. UNCHANGED <<free, rr>> => CountOK
  BY DEF TypeOK
<1>c. UNCHANGED roundVars => RoundOK
  BY DEF roundVars, TypeOK
<1>e. UNCHANGED searchVars => SearchOK
  BY DEF searchVars, TypeOK
<1>d. pos \in Nat /\ left \in Nat /\ stamp \in 0..MaxTime /\ pos + 1 \in Nat
  BY DEF TypeOK
<1>1. ASSUME NEW t \in Task, Submit(t) PROVE TypeOK'
  <2>1. ready' \in Seq(Task)
    BY <1>1, AppendType DEF Submit, TypeOK
  <2>2. GiveOK
    BY <1>1, <2>1 DEF Submit, GiveOK, TypeOK, roundVars
  <2> QED
    BY <1>0, <1>a, <1>b, <1>c, <1>e, <1>1, <2>2 DEF Submit
<1>2. ASSUME NEW p \in PE, Drain(p) PROVE TypeOK'
  <2>1. pending[p] \in Seq(Task) /\ pending[p] # <<>>
    BY <1>2 DEF Drain, Idle, TypeOK
  <2>2. Head(pending[p]) \in Task /\ Tail(pending[p]) \in Seq(Task)
    BY <2>1, TailType
  <2>3. pending' = [pending EXCEPT ![p] = Tail(pending[p])] /\ gone' = gone \cup {Head(pending[p])}
    BY <1>2 DEF Drain
  <2>4. pending' \in [PE -> Seq(Task)]
    BY <2>2, <2>3, UpdateType DEF TypeOK
  <2>5. WorldOK /\ GiveOK
    BY <1>2, <2>2, <2>3, <2>4 DEF Drain, GiveOK, TypeOK, roundVars
  <2>6. CountOK
    <3>1. PICK m \in Nat : m = CountMod /\ m > 0
      BY SchedAssumption, FS_CardinalityType
    <3>2. free \in Nat /\ (free + 1) % m \in 0..(m - 1)
      BY <3>1 DEF TypeOK
    <3>3. free' = free \/ free' = (free + 1) % m
      BY <1>2, <3>1 DEF Drain
    <3> QED
      BY <1>2, <3>1, <3>2, <3>3 DEF Drain, TypeOK
  <2>7. RoundOK /\ SearchOK
    BY <1>2, <1>c, <1>e DEF Drain
  <2> QED
    BY <1>0, <2>5, <2>6, <2>7
<1>3. CASE Tick
  <2>1. now' \in 0..MaxTime
    BY <1>3, SchedAssumption DEF Tick, TypeOK
  <2> QED
    BY <1>3, <2>1 DEF Tick, TypeOK, roundVars, searchVars
<1>4. CASE Begin
  BY <1>4 DEF Begin, TypeOK, world, searchVars
<1>5. CASE TryCached
  <2>1. GiveOK
    BY <1>5, GiveType, KeepType DEF TryCached
  <2>2. RoundOK
    BY <1>5, <1>d DEF TryCached, TypeOK
  <2> QED
    BY <1>0, <1>5, <1>a, <1>b, <1>e, <2>1, <2>2 DEF TryCached
<1>6. CASE BeginPolicy
  <2>1. ready' \in Seq(Task)
    BY <1>6, OrdersPermute DEF BeginPolicy
  <2>2. GiveOK
    BY <1>6, <2>1 DEF BeginPolicy, GiveOK, TypeOK
  <2>3. RoundOK
    <3>1. Len(ready) \in Nat /\ 0 \in 0..MaxTime /\ now \in 0..MaxTime
      BY SchedAssumption, LenProperties DEF TypeOK
    <3> QED
      BY <1>6, <3>1 DEF BeginPolicy
  <2>4. SearchOK
    <3>1. 1 \in PE
      BY PEType DEF PE
    <3> QED
      BY <1>6, <3>1 DEF BeginPolicy, TypeOK
  <2> QED
    BY <1>0, <1>6, <1>a, <1>b, <2>2, <2>3, <2>4 DEF BeginPolicy
<1>7. CASE TryRing
  <2>1. GiveOK
    BY <1>7, GiveType, KeepType DEF TryRing
  <2>2. RoundOK
    BY <1>7, <1>d, StopType DEF TryRing, TypeOK
  <2>3. rr' \in 0..(NumPEs - 1)
    <3> DEFINE fits == {i \in 0..(NumPEs - 1) : At(i) \in Candidates(ready[pos]) /\ Takes(ready[pos], At(i))}
    <3>1. CASE fits # {} /\ rr' = At(Min(fits)) % NumPEs
      <4>1. fits \in SUBSET Nat
        OBVIOUS
      <4>2. Min(fits) \in Nat
        BY <3>1, <4>1, MinIs
      <4> QED
        BY <3>1, <4>2, AtType
    <3>2. CASE rr' = rr
      BY <3>2 DEF TypeOK
    <3> QED
      BY <1>7, <3>1, <3>2 DEF TryRing
  <2>4. free' \in 0..(CountMod - 1)
    <3>1. Counted \/ free' = free
      BY <1>7 DEF TryRing
    <3> QED
      BY <3>1, CountedType DEF TypeOK
  <2> QED
    BY <1>0, <1>7, <1>a, <1>e, <2>1, <2>2, <2>3, <2>4 DEF TryRing
<1>8. CASE TryEarliest
  <2>0. pos \in DOMAIN ready
    BY <1>8 DEF TryEarliest, SearchInv
  <2>1. GiveOK
    BY <1>8, <2>0, GiveType, KeepType DEF TryEarliest
  <2>2. RoundOK
    BY <1>8, <1>d, StopType DEF TryEarliest, TypeOK
  <2>3. free' \in 0..(CountMod - 1)
    <3>1. Counted \/ free' = free
      BY <1>8 DEF TryEarliest
    <3> QED
      BY <3>1, CountedType DEF TypeOK
  <2>4. CountOK
    BY <1>8, <2>3 DEF TryEarliest, TypeOK
  <2> QED
    BY <1>0, <1>8, <1>a, <1>e, <2>1, <2>2, <2>4 DEF TryEarliest
<1>9. CASE TryETF
  <2>1. GiveOK
    BY <1>9, GiveType, KeepType DEF TryETF
  <2>2. pos' \in Nat /\ left' \in Nat /\ stamp' \in 0..MaxTime
    <3>1. left' \in Nat
      BY <1>9, <1>d DEF TryETF, SearchInv
    <3> QED
      BY <1>9, <1>d, <3>1 DEF TryETF
  <2>3. phase' \in Phases
    BY <1>9, StopType DEF TryETF, TypeOK
  <2>4. free' \in 0..(CountMod - 1)
    <3>1. Counted \/ free' = free
      BY <1>9 DEF TryETF
    <3> QED
      BY <3>1, CountedType DEF TypeOK
  <2>5. CountOK
    BY <1>9, <2>4 DEF TryETF, TypeOK
  <2> QED
    BY <1>0, <1>9, <1>a, <1>e, <2>1, <2>2, <2>3, <2>5 DEF TryETF
<1>10. CASE EndRound
  <2>1. GiveOK
    BY <1>10 DEF EndRound, GiveOK, TypeOK
  <2>2. RoundOK
    BY <1>10, SchedAssumption DEF EndRound
  <2>3. SearchOK
    BY <1>10 DEF EndRound, TypeOK
  <2> QED
    BY <1>0, <1>10, <1>a, <1>b, <2>1, <2>2, <2>3 DEF EndRound
<1>11. CASE UNCHANGED vars
  BY <1>11 DEF vars, world, roundVars, searchVars, TypeOK
<1>12. CASE BeginSearch
  <2>1. GiveOK /\ RoundOK
    BY <1>12, <1>d DEF BeginSearch, GiveOK, TypeOK
  <2>2. SearchOK
    BY <1>12, <1>d, PEType DEF BeginSearch, TypeOK
  <2> QED
    BY <1>0, <1>12, <1>a, <1>b, <2>1, <2>2 DEF BeginSearch
<1>13. CASE LookAtPE
  <2>1. itr \in DOMAIN ready /\ itr \in Nat /\ itr + 1 \in Nat /\ ready[itr] \in Task
    BY <1>13, ElementOfSeq, LenProperties DEF LookAtPE, SearchInv, TypeOK
  <2>2. Improves(ready[itr], LooksAt) => Finish(ready[itr], LooksAt) \in Nat
    BY <2>1, FinishType DEF Improves
  <2>3. found' \in Nat \cup {Never} /\ pick' \in PE \cup {0} /\ pos' \in Nat
    BY <1>13, <2>1, <2>2, LooksAtType DEF LookAtPE, TypeOK
  <2>4. seen' \in 0..(NumPEs - 1)
    <3>1. PICK n \in Nat : n = NumPEs /\ n > 0
      BY PEType
    <3>2. seen \in 0..(n - 1)
      BY <3>1 DEF TypeOK
    <3>3. seen' = 0 \/ (seen' = seen + 1 /\ seen + 1 < n)
      BY <1>13, <3>1 DEF LookAtPE
    <3>4. 0 \in 0..(n - 1) /\ (seen + 1 < n => seen + 1 \in 0..(n - 1))
      BY <3>1, <3>2
    <3> QED
      BY <3>1, <3>3, <3>4
  <2>5. itr' \in Nat /\ phase' \in Phases
    BY <1>13, <2>1 DEF LookAtPE
  <2>6. GiveOK /\ left' \in Nat /\ stamp' \in 0..MaxTime
    BY <1>13 DEF LookAtPE, GiveOK, TypeOK
  <2> QED
    BY <1>0, <1>13, <1>a, <1>b, <2>3, <2>4, <2>5, <2>6 DEF LookAtPE
<1> QED
  BY <1>1, <1>2, <1>3, <1>4, <1>5, <1>6, <1>7, <1>8, <1>9, <1>10, <1>11, <1>12, <1>13
  DEF Next, Main

-----------------------------------------------------------------------------
(* Every task is in one place.                                             *)

\* The steps that move tasks.
LEMMA Moves ==
    ASSUME TypeOK, SearchInv, [Next]_vars
    PROVE  \/ UNCHANGED <<cfg, ready, pending, gone, free>>
           \/ \E t \in Task : Submit(t)
           \/ \E p \in PE : Drain(p)
           \/ BeginPolicy
           \/ /\ UNCHANGED <<cfg, gone>> /\ (free' = free \/ Counted)
              /\ \E k \in DOMAIN ready, p \in PE : Give(k, p)
<1>1. CASE TryCached
  <2>1. /\ UNCHANGED <<cfg, gone>>
        /\ \/ Keep /\ free' = free
           \/ (free' = free \/ Counted) /\ \E k \in DOMAIN ready : \E p : Give(k, p)
    BY <1>1 DEF TryCached, world
  <2> QED
    BY <2>1, GiveType DEF Keep
<1>2. CASE TryRing
  <2>1. /\ UNCHANGED <<cfg, gone>>
        /\ \/ Keep /\ free' = free
           \/ (free' = free \/ Counted) /\ \E k \in DOMAIN ready : \E p : Give(k, p)
    BY <1>2 DEF TryRing, world
  <2> QED
    BY <2>1, GiveType DEF Keep
<1>3. CASE TryEarliest
  <2>1. /\ UNCHANGED <<cfg, gone>>
        /\ \/ Keep /\ free' = free
           \/ (free' = free \/ Counted) /\ \E k \in DOMAIN ready : \E p : Give(k, p)
    BY <1>3 DEF TryEarliest, world, SearchInv
  <2> QED
    BY <2>1, GiveType DEF Keep
<1>4. CASE TryETF
  <2>1. /\ UNCHANGED <<cfg, gone>>
        /\ \/ Keep /\ free' = free
           \/ (free' = free \/ Counted) /\ \E k \in DOMAIN ready : \E p : Give(k, p)
    BY <1>4 DEF TryETF, world
  <2> QED
    BY <2>1, GiveType DEF Keep
<1>5. CASE Tick \/ Begin \/ BeginSearch \/ LookAtPE \/ EndRound \/ UNCHANGED vars
  BY <1>5 DEF Tick, Begin, BeginSearch, LookAtPE, EndRound, vars, world
<1> QED
  BY <1>1, <1>2, <1>3, <1>4, <1>5 DEF Next, Main

\* A task that is given moves from the ready queue to the PE's.
LEMMA GiveEffect ==
    ASSUME TypeOK, EveryTaskOnce, NEW k \in DOMAIN ready, NEW p \in PE, Give(k, p)
    PROVE  /\ ready[k] \in ToSet(ready) /\ ready[k] \notin ToSet(pending[p])
           /\ ready' \in Seq(Task) /\ Len(ready') = Len(ready) - 1
           /\ \A j \in 1..(Len(ready) - 1) :
                 ready'[j] = IF j < k THEN ready[j] ELSE ready[j + 1]
           /\ ToSet(ready') = ToSet(ready) \ {ready[k]} /\ IsInjective(ready')
           /\ pending'[p] \in Seq(Task) /\ Len(pending'[p]) = Len(pending[p]) + 1
           /\ ToSet(pending'[p]) = ToSet(pending[p]) \cup {ready[k]}
           /\ IsInjective(pending'[p])
           /\ \A q \in PE \ {p} : pending'[q] = pending[q]
<1> DEFINE t == ready[k]
<1>1. t \in Task /\ ready \in Seq(Task) /\ pending[p] \in Seq(Task)
  BY GiveType DEF TypeOK
<1>2. IsInjective(ready) /\ IsInjective(pending[p])
  BY DEF EveryTaskOnce
<1>3. ready' = RemoveAt(ready, k) /\ pending' = [pending EXCEPT ![p] = Append(pending[p], t)]
  BY DEF Give
<1>4. t \in ToSet(ready) /\ ToSet(ready') = ToSet(ready) \ {t} /\ IsInjective(ready')
  BY <1>1, <1>2, <1>3, RemoveAtSet
<1>5. t \notin ToSet(pending[p])
  BY <1>4 DEF EveryTaskOnce
<1>6. pending'[p] = Append(pending[p], t) /\ \A q \in PE \ {p} : pending'[q] = pending[q]
  BY <1>3 DEF TypeOK
<1>7. /\ pending'[p] \in Seq(Task) /\ Len(pending'[p]) = Len(pending[p]) + 1
  BY <1>1, <1>6, AppendType
<1>8. ToSet(pending'[p]) = ToSet(pending[p]) \cup {t} /\ IsInjective(pending'[p])
  BY <1>1, <1>2, <1>5, <1>6, AppendSet
<1>9. /\ ready' \in Seq(Task) /\ Len(ready') = Len(ready) - 1
      /\ \A j \in 1..(Len(ready) - 1) :
            ready'[j] = IF j < k THEN ready[j] ELSE ready[j + 1]
  BY <1>1, <1>3, RemoveAtType
<1> QED
  BY <1>4, <1>5, <1>6, <1>7, <1>8, <1>9

\* A task that is drained leaves its PE's queue.
LEMMA DrainEffect ==
    ASSUME TypeOK, EveryTaskOnce, NEW p \in PE, Drain(p)
    PROVE  \E t \in ToSet(pending[p]) :
              /\ t \in Task /\ gone' = gone \cup {t} /\ t \notin gone
              /\ Len(pending[p]) > 0 /\ Len(pending'[p]) = Len(pending[p]) - 1
              /\ pending'[p] \in Seq(Task)
              /\ ToSet(pending'[p]) = ToSet(pending[p]) \ {t} /\ IsInjective(pending'[p])
              /\ \A q \in PE \ {p} : pending'[q] = pending[q]
              /\ ready' = ready
<1>1. pending[p] \in Seq(Task) /\ pending[p] # <<>> /\ IsInjective(pending[p])
  BY DEF Drain, Idle, TypeOK, EveryTaskOnce
<1>2. /\ gone' = gone \cup {Head(pending[p])} /\ ready' = ready
      /\ pending'[p] = Tail(pending[p]) /\ \A q \in PE \ {p} : pending'[q] = pending[q]
  BY DEF Drain, TypeOK
<1>3. /\ Head(pending[p]) \in Task /\ Len(pending[p]) > 0
      /\ Tail(pending[p]) \in Seq(Task) /\ Len(Tail(pending[p])) = Len(pending[p]) - 1
  BY <1>1, TailType
<1>4. /\ Head(pending[p]) \in ToSet(pending[p])
      /\ ToSet(Tail(pending[p])) = ToSet(pending[p]) \ {Head(pending[p])}
      /\ IsInjective(Tail(pending[p]))
  BY <1>1, TailSet
<1>5. Head(pending[p]) \notin gone
  BY <1>4 DEF EveryTaskOnce
<1> QED
  BY <1>2, <1>3, <1>4, <1>5

\* At first there are no tasks.
LEMMA OnceInit == Init => EveryTaskOnce
BY DEF Init, EveryTaskOnce, IsInjective, ToSet

\* Every step moves a task as a whole.
LEMMA OnceStep ==
    ASSUME TypeOK, EveryTaskOnce, SearchInv, [Next]_vars
    PROVE  EveryTaskOnce'
<1> DEFINE R == ToSet(ready)
           C(p) == ToSet(pending[p])
<1>0. /\ IsInjective(ready) /\ R \cap gone = {}
      /\ \A p \in PE : IsInjective(pending[p]) /\ C(p) \cap (R \cup gone) = {}
      /\ \A p \in PE : \A q \in PE \ {p} : C(p) \cap C(q) = {}
  BY DEF EveryTaskOnce
<1>1. CASE UNCHANGED <<ready, pending, gone>>
  BY <1>1 DEF EveryTaskOnce
<1>2. ASSUME NEW t \in Task, Submit(t) PROVE EveryTaskOnce'
  <2>1. t \notin R /\ t \notin gone /\ \A p \in PE : t \notin C(p)
    BY <1>2 DEF Submit
  <2>2. ToSet(ready') = R \cup {t} /\ IsInjective(ready') /\ pending' = pending /\ gone' = gone
    BY <1>0, <1>2, <2>1, AppendSet DEF Submit, TypeOK, world
  <2> QED
    BY <1>0, <2>1, <2>2 DEF EveryTaskOnce
<1>3. ASSUME NEW p \in PE, Drain(p) PROVE EveryTaskOnce'
  <2>1. PICK t \in C(p) :
           /\ gone' = gone \cup {t} /\ ready' = ready
           /\ ToSet(pending'[p]) = C(p) \ {t} /\ IsInjective(pending'[p])
           /\ \A q \in PE \ {p} : pending'[q] = pending[q]
    BY <1>3, DrainEffect
  <2>2. ASSUME NEW q \in PE
        PROVE  /\ IsInjective(pending'[q]) /\ ToSet(pending'[q]) \subseteq C(q)
               /\ t \notin ToSet(pending'[q]) /\ t \notin R
    BY <1>0, <2>1
  <2> QED
    BY <1>0, <2>1, <2>2 DEF EveryTaskOnce
<1>4. CASE BeginPolicy
  <2>1. ToSet(ready') = R /\ IsInjective(ready') /\ pending' = pending /\ gone' = gone
    BY <1>0, <1>4, OrdersPermute DEF BeginPolicy, world
  <2> QED
    BY <1>0, <2>1 DEF EveryTaskOnce
<1>5. ASSUME gone' = gone, NEW k \in DOMAIN ready, NEW p \in PE, Give(k, p)
      PROVE  EveryTaskOnce'
  <2> DEFINE t == ready[k]
  <2>1. /\ t \in R /\ ToSet(ready') = R \ {t} /\ IsInjective(ready')
        /\ ToSet(pending'[p]) = C(p) \cup {t} /\ IsInjective(pending'[p])
        /\ \A q \in PE \ {p} : pending'[q] = pending[q]
    BY <1>5, GiveEffect
  <2> HIDE DEF t
  <2>2. ASSUME NEW q \in PE
        PROVE  /\ IsInjective(pending'[q])
               /\ ToSet(pending'[q]) \subseteq C(q) \cup {t}
               /\ q # p => ToSet(pending'[q]) = C(q)
               /\ t \notin gone /\ t \notin C(q)
    BY <1>0, <2>1
  <2>3. ASSUME NEW q \in PE, NEW r \in PE \ {q}
        PROVE  ToSet(pending'[q]) \cap ToSet(pending'[r]) = {}
    BY <1>0, <2>1, <2>2
  <2> QED
    BY <1>0, <1>5, <2>1, <2>2, <2>3 DEF EveryTaskOnce
<1> QED
  BY <1>1, <1>2, <1>3, <1>4, <1>5, Moves

-----------------------------------------------------------------------------
(* The count of free PEs.                                                  *)

IdlePEs == {p \in PE : Idle(p)}

\* There are finitely many PEs.
LEMMA IdleFinite ==
    /\ IsFiniteSet(PE) /\ Cardinality(PE) = NumPEs
    /\ IsFiniteSet(IdlePEs) /\ Cardinality(IdlePEs) \in Nat
<1>1. IsFiniteSet(PE) /\ Cardinality(PE) = NumPEs
  BY PEType, FS_Interval DEF PE
<1>2. IsFiniteSet(IdlePEs) /\ Cardinality(IdlePEs) \in Nat
  BY <1>1, FS_Subset, FS_CardinalityType DEF IdlePEs
<1> QED
  BY <1>1, <1>2

\* Counting down does not wrap while some PE is free.
LEMMA OneLessIs ==
    ASSUME NEW n \in 0..(CountMod - 1), n > 0
    PROVE  OneLess(n) = n - 1
<1>1. PICK m \in Nat : m = CountMod /\ m > 0
  BY SchedAssumption, FS_CardinalityType
<1>2. n - 1 \in 0..(m - 1) /\ n + m - 1 = (n - 1) + m
  BY <1>1
<1>3. ((n - 1) + m) % m = n - 1
  BY <1>1, <1>2
<1> QED
  BY <1>1, <1>2, <1>3 DEF OneLess

\* At first all PEs are free, and counted.
LEMMA CountInit == Init => CountIsNeverShort /\ CountInv
<1> SUFFICES ASSUME Init PROVE CountIsNeverShort /\ CountInv
  OBVIOUS
<1>1. \A p \in PE : pending[p] = <<>>
  BY DEF Init
<1>2. IdlePEs = PE
  BY <1>1 DEF IdlePEs, Idle
<1>3. free = NumPEs /\ Cardinality(gone) = 0
  BY FS_EmptySet DEF Init
<1>4. CountIsNeverShort
  <2>1. Cardinality(IdlePEs) = NumPEs
    BY <1>2, IdleFinite
  <2>2. free = Cardinality(IdlePEs) /\ NumPEs \in Nat
    BY <1>3, <2>1, PEType
  <2> QED
    BY <2>1, <2>2 DEF CountIsNeverShort, IdlePEs
<1>5. CountInv
  BY <1>1, <1>3, PEType DEF CountInv
<1> QED
  BY <1>4, <1>5

\* A PE that stops being idle is counted down at most once, one that becomes idle is counted up.
LEMMA CountStep ==
    ASSUME TypeOK, EveryTaskOnce, CountIsNeverShort, CountInv, SearchInv, [Next]_vars
    PROVE  CountIsNeverShort' /\ CountInv'
<1>0. /\ free \in Nat /\ Cardinality(IdlePEs) \in Nat /\ NumPEs \in Nat
      /\ IsFiniteSet(gone) /\ Cardinality(gone) \in Nat
  <2>1. IsFiniteSet(gone)
    BY SchedAssumption, FS_Subset DEF TypeOK
  <2> QED
    BY <2>1, IdleFinite, PEType, FS_CardinalityType DEF TypeOK
<1>1. ASSUME UNCHANGED <<cfg, pending, gone, free>>
      PROVE  CountIsNeverShort' /\ CountInv'
  BY <1>1 DEF CountIsNeverShort, CountInv, Idle
<1>2. ASSUME NEW p \in PE, Drain(p)
      PROVE  CountIsNeverShort' /\ CountInv'
  <2>1. PICK t \in ToSet(pending[p]) :
           /\ t \in Task /\ gone' = gone \cup {t} /\ t \notin gone
           /\ Len(pending[p]) > 0 /\ Len(pending'[p]) = Len(pending[p]) - 1
           /\ pending'[p] \in Seq(Task)
           /\ \A q \in PE \ {p} : pending'[q] = pending[q]
    BY <1>2, DrainEffect
  <2>2. cfg' = cfg /\ pending[p] \in Seq(Task) /\ ~Idle(p)
    BY <1>2 DEF Drain, TypeOK
  <2>3. CASE cfg.queueing
    BY <2>2, <2>3 DEF CountIsNeverShort, CountInv
  <2>4. CASE ~cfg.queueing
    <3>1. Len(pending[p]) = 1 /\ Len(pending'[p]) = 0 /\ pending'[p] = <<>>
      <4>1. Len(pending[p]) \in Nat /\ Len(pending[p]) <= 1
        BY <2>2, <2>4, LenProperties DEF CountInv
      <4>2. PICK n \in Nat : n = Len(pending[p])
        BY <4>1
      <4>3. n > 0 /\ n <= 1
        BY <2>1, <4>1, <4>2
      <4>4. n = 1 /\ n - 1 = 0
        BY <4>3
      <4>5. Len(pending'[p]) = n - 1
        BY <2>1, <4>2
      <4>6. Len(pending[p]) = 1 /\ Len(pending'[p]) = 0
        BY <4>2, <4>4, <4>5
      <4> QED
        BY <2>1, <4>6, EmptySeq
    <3>2. \A q \in PE : Len(pending'[q]) <= 1
      BY <2>1, <2>4, <3>1 DEF CountInv
    <3>3. {q \in PE : pending'[q] = <<>>} = IdlePEs \cup {p} /\ p \notin IdlePEs
      BY <2>1, <2>2, <3>1 DEF IdlePEs, Idle
    <3>4. Cardinality({q \in PE : pending'[q] = <<>>}) = Cardinality(IdlePEs) + 1
      BY <3>3, IdleFinite, FS_AddElement
    <3>5. Cardinality(gone') = Cardinality(gone) + 1
      BY <1>0, <2>1, FS_AddElement
    <3>6. CASE cfg.dag
      <4>1. gone' \in SUBSET Task
        BY <2>1 DEF TypeOK
      <4>2. Cardinality(gone') <= Cardinality(Task) /\ Cardinality(Task) \in Nat
        BY <4>1, SchedAssumption, FS_Subset, FS_CardinalityType
      <4>3. PICK m \in Nat : m = CountMod /\ m > NumPEs + Cardinality(Task)
        BY SchedAssumption
      <4>4. free + 1 \in 0..(m - 1) /\ free + 1 <= NumPEs + Cardinality(gone')
        BY <1>0, <2>4, <3>5, <3>6, <4>2, <4>3 DEF CountInv
      <4>5. (free + 1) % m = free + 1
        BY <4>3, <4>4
      <4>6. free' = free + 1
        BY <1>2, <2>4, <3>6, <4>3, <4>5 DEF Drain
      <4>7. free' >= Cardinality({q \in PE : pending'[q] = <<>>})
        BY <1>0, <2>4, <3>4, <3>6, <4>6 DEF CountIsNeverShort, IdlePEs
      <4> QED
        BY <2>2, <3>2, <4>4, <4>6, <4>7 DEF CountIsNeverShort, CountInv, Idle
    <3>7. CASE ~cfg.dag
      BY <2>2, <3>2, <3>7 DEF CountIsNeverShort, CountInv
    <3> QED
      BY <3>6, <3>7
  <2> QED
    BY <2>3, <2>4
<1>3. ASSUME UNCHANGED <<cfg, gone>>, free' = free \/ Counted,
             NEW k \in DOMAIN ready, NEW p \in PE, Give(k, p)
      PROVE  CountIsNeverShort' /\ CountInv'
  <2>1. /\ Len(pending'[p]) = Len(pending[p]) + 1 /\ pending'[p] \in Seq(Task)
        /\ \A q \in PE \ {p} : pending'[q] = pending[q]
    BY <1>3, GiveEffect
  <2>2. CASE cfg.queueing
    BY <1>3, <2>2 DEF CountIsNeverShort, CountInv
  <2>3. CASE ~cfg.queueing
    <3>1. Idle(p) /\ pending[p] = <<>>
      BY <1>3, <2>3 DEF Give, Takes, Idle
    <3>2. Len(pending'[p]) = 1 /\ pending'[p] # <<>>
      <4>1. Len(<<>>) = 0
        OBVIOUS
      <4>2. Len(pending[p]) = 0
        BY <3>1, <4>1
      <4>3. Len(pending'[p]) = 1
        BY <2>1, <4>2
      <4> QED
        BY <4>1, <4>3
    <3>3. ASSUME NEW q \in PE PROVE Len(pending'[q]) <= 1
      <4>1. CASE q = p
        <5>1. PICK n \in Nat : n = 1 /\ n <= 1
          OBVIOUS
        <5>2. Len(pending'[q]) = n
          BY <3>2, <4>1, <5>1
        <5> QED
          BY <5>1, <5>2
      <4>2. CASE q # p
        BY <2>1, <2>3, <4>2 DEF CountInv
      <4> QED
        BY <4>1, <4>2
    <3>4. {q \in PE : pending'[q] = <<>>} = IdlePEs \ {p} /\ p \in IdlePEs
      BY <2>1, <3>1, <3>2 DEF IdlePEs, Idle
    <3>5. Cardinality({q \in PE : pending'[q] = <<>>}) = Cardinality(IdlePEs) - 1
      BY <3>4, IdleFinite, FS_RemoveElement
    <3>6. CASE cfg.dag
      <4>1. Cardinality(IdlePEs) >= 1
        <5>1. Cardinality(IdlePEs) # 0
          BY <3>4, IdleFinite, FS_EmptySet
        <5> QED
          BY <1>0, <5>1
      <4>2. free >= Cardinality(IdlePEs) /\ free > 0
        BY <1>0, <2>3, <3>6, <4>1 DEF CountIsNeverShort, IdlePEs
      <4>3. free' = free \/ free' = free - 1
        BY <1>3, <2>3, <4>2, OneLessIs DEF TypeOK, Counted
      <4>4. free' >= Cardinality({q \in PE : pending'[q] = <<>>})
        BY <1>0, <3>5, <4>2, <4>3
      <4>5. free' <= NumPEs + Cardinality(gone)
        BY <1>0, <2>3, <3>6, <4>3 DEF CountInv
      <4> QED
        BY <1>3, <3>3, <4>4, <4>5 DEF CountIsNeverShort, CountInv, Idle
    <3>7. CASE ~cfg.dag
      BY <1>3, <3>3, <3>7 DEF CountIsNeverShort, CountInv
    <3> QED
      BY <3>6, <3>7
  <2> QED
    BY <2>2, <2>3
<1>4. ASSUME NEW t \in Task, Submit(t) PROVE CountIsNeverShort' /\ CountInv'
  BY <1>1, <1>4 DEF Submit, world
<1>5. CASE BeginPolicy
  BY <1>1, <1>5 DEF BeginPolicy, world
<1> QED
  BY <1>1, <1>2, <1>3, <1>4, <1>5, Moves

-----------------------------------------------------------------------------
(* What a search has found.                                                *)

\* No search is under way at first.
LEMMA SearchInit == Init => SearchInv
BY DEF Init, SearchInv

\* Between two looks a search has compared what it had, and the PE it looks at.
LEMMA LooksOn ==
    ASSUME TypeOK, SearchInv, LookAtPE,
           NEW k \in DOMAIN ready, NEW q \in PE, Compared(k, q)'
    PROVE  Compared(k, q) \/ (k = itr /\ q = LooksAt)
<1>1. PICK n \in Nat : n = NumPEs /\ n > 0
  BY PEType
<1>2. PICK s \in 0..(n - 1) : s = seen
  BY <1>1 DEF TypeOK
<1>3. q \in 1..n
  BY <1>1 DEF PE
<1>4. PICK m \in Nat : m = Len(ready) /\ DOMAIN ready = 1..m
  BY LenProperties DEF TypeOK
<1>5. PICK i \in 1..m : i = itr
  BY <1>4 DEF LookAtPE, SearchInv
<1>6. cfg' = cfg /\ phase = "seek" /\ k \in 1..m
  BY <1>4 DEF LookAtPE, world
<1>7. /\ cfg.policy = "EFT" => LooksAt = n - s
      /\ cfg.policy # "EFT" => LooksAt = s + 1
  BY <1>1, <1>2 DEF LooksAt
<1>8. CASE s + 1 < n /\ seen' = s + 1 /\ itr' = i /\ phase' = "seek"
  <2>1. CASE cfg.policy = "ETF" /\ k < i
    BY <1>5, <1>6, <2>1 DEF Compared
  <2>2. CASE k = i /\ cfg.policy = "EFT" /\ q > n - (s + 1)
    <3>1. q > n - s \/ q = n - s
      BY <1>2, <1>3, <2>2
    <3> QED
      BY <1>1, <1>2, <1>5, <1>6, <1>7, <2>2, <3>1 DEF Compared
  <2>3. CASE k = i /\ cfg.policy # "EFT" /\ q <= s + 1
    <3>1. q <= s \/ q = s + 1
      BY <1>2, <1>3, <2>3
    <3> QED
      BY <1>2, <1>5, <1>6, <1>7, <2>3, <3>1 DEF Compared
  <2> QED
    BY <1>1, <1>6, <1>8, <2>1, <2>2, <2>3 DEF Compared
<1>9. CASE s + 1 = n /\ cfg.policy = "ETF" /\ seen' = 0 /\ itr' = i + 1 /\ phase' = "seek"
  <2>1. k < i + 1
    <3>1. k < i + 1 \/ q <= 0
      BY <1>6, <1>9 DEF Compared
    <3> QED
      BY <1>3, <3>1
  <2>2. k < i \/ k = i
    BY <1>5, <1>6, <2>1
  <2>3. q <= s \/ q = s + 1
    BY <1>2, <1>3, <1>9
  <2> QED
    BY <1>2, <1>5, <1>6, <1>7, <1>9, <2>2, <2>3 DEF Compared
<1>10. CASE /\ s + 1 = n /\ phase' = "ask"
            /\ cfg.policy = "ETF" => i = m
  <2>1. CASE cfg.policy = "ETF"
    <3>1. k < i \/ k = i
      BY <1>5, <1>6, <1>10, <2>1
    <3>2. q <= s \/ q = s + 1
      BY <1>2, <1>3, <1>10
    <3> QED
      BY <1>2, <1>5, <1>6, <1>7, <2>1, <3>1, <3>2 DEF Compared
  <2>2. CASE cfg.policy # "ETF"
    <3>1. k = i
      BY <1>5, <1>6, <1>10, <2>2 DEF Compared, LookAtPE, SearchInv
    <3>2. /\ q > n - s \/ q = n - s
          /\ q <= s \/ q = s + 1
      BY <1>2, <1>3, <1>10
    <3> QED
      BY <1>1, <1>2, <1>5, <1>6, <1>7, <3>1, <3>2 DEF Compared
  <2> QED
    BY <2>1, <2>2
<1> QED
  BY <1>1, <1>2, <1>4, <1>5, <1>8, <1>9, <1>10 DEF LookAtPE

\* The times that it compares stay the same while it lasts.
LEMMA SameFinish ==
    ASSUME UNCHANGED <<cfg, ready, avail, stamp>>
    PROVE  \A k, q : Finish(ready[k], q)' = Finish(ready[k], q)
BY DEF Finish, Later

\* A look at one PE more.
LEMMA LookKeeps ==
    ASSUME TypeOK, SearchInv, LookAtPE
    PROVE  SearchInv'
<1> DEFINE f(k, q) == Finish(ready[k], q)
           p == LooksAt
           Can(k, q) == q \in CanRun(ready[k])
<1>1. /\ phase = "seek" /\ phase' \in {"seek", "ask"}
      /\ UNCHANGED <<cfg, ready, avail, stamp, left>>
  BY DEF LookAtPE, world
<1>2. /\ itr \in DOMAIN ready /\ p \in PE /\ cfg.policy \in Timed
      /\ cfg.policy # "ETF" => itr = pos
      /\ IF cfg.policy = "ETF" THEN left > 0 ELSE pos \in DOMAIN ready
  BY <1>1, LooksAtType DEF SearchInv
<1>3. ASSUME NEW k \in DOMAIN ready, NEW q \in PE, Can(k, q)
      PROVE  f(k, q) \in Nat
  BY <1>3, FinishType, ElementOfSeq, LenProperties DEF TypeOK
<1>4. /\ cfg.policy # "ETF" => pos' = pos
      /\ cfg.policy # "ETF" /\ phase' = "seek" => itr' = itr
      /\ phase' = "seek" => itr' \in DOMAIN ready
  <2>1. PICK m \in Nat : m = Len(ready) /\ DOMAIN ready = 1..m
    BY LenProperties DEF TypeOK
  <2>2. PICK i \in 1..m : i = itr
    BY <1>2, <2>1
  <2>3. phase' = "seek" => itr' = i \/ (cfg.policy = "ETF" /\ i < m /\ itr' = i + 1)
    BY <2>1, <2>2 DEF LookAtPE
  <2>4. i < m => i + 1 \in 1..m
    BY <2>2
  <2>5. cfg.policy # "ETF" => pos' = pos
    BY <1>2 DEF LookAtPE
  <2> QED
    BY <2>1, <2>2, <2>3, <2>4, <2>5
<1>5. \A k, q : f(k, q)' = f(k, q) /\ (Can(k, q)' <=> Can(k, q))
  BY <1>1, SameFinish DEF CanRun
<1>6. /\ found' = Never =>
            \A k \in DOMAIN ready, q \in PE : Compared(k, q)' => ~Can(k, q)
      /\ found' # Never =>
            /\ pos' \in DOMAIN ready /\ Can(pos', pick')
            /\ found' = f(pos', pick')
            /\ \A k \in DOMAIN ready, q \in PE :
                  Compared(k, q)' /\ Can(k, q) => found' <= f(k, q)
  <2>1. CASE Improves(ready[itr], p)
    <3>1. found' = f(itr, p) /\ pick' = p /\ pos' = itr /\ Can(itr, p)
      BY <2>1 DEF LookAtPE, Improves
    <3>2. found' \in Nat /\ found' # Never
      BY <1>2, <1>3, <3>1 DEF Never
    <3>3. ASSUME NEW k \in DOMAIN ready, NEW q \in PE, Compared(k, q)', Can(k, q)
          PROVE  found' <= f(k, q)
      <4>1. CASE k = itr /\ q = p
        BY <3>1, <3>2, <4>1
      <4>2. CASE Compared(k, q)
        <5>1. found # Never /\ found <= f(k, q) /\ found \in Nat
          BY <1>1, <3>3, <4>2 DEF SearchInv, TypeOK
        <5>2. f(itr, p) < found
          BY <2>1, <5>1 DEF Improves
        <5>3. f(k, q) \in Nat
          BY <1>3, <3>3
        <5> QED
          BY <3>1, <3>2, <5>1, <5>2, <5>3
      <4> QED
        BY <3>3, <4>1, <4>2, LooksOn
    <3> QED
      BY <1>2, <3>1, <3>2, <3>3
  <2>2. CASE ~Improves(ready[itr], p) /\ found = Never
    <3>1. found' = Never /\ ~Can(itr, p)
      BY <2>2 DEF LookAtPE, Improves
    <3>2. ASSUME NEW k \in DOMAIN ready, NEW q \in PE, Compared(k, q)'
          PROVE  ~Can(k, q)
      BY <1>1, <2>2, <3>1, <3>2, LooksOn DEF SearchInv
    <3> QED
      BY <3>1, <3>2
  <2>3. CASE ~Improves(ready[itr], p) /\ found # Never
    <3>1. UNCHANGED <<found, pick, pos>> /\ found \in Nat
      BY <2>3 DEF LookAtPE, TypeOK
    <3>2. ASSUME NEW k \in DOMAIN ready, NEW q \in PE, Compared(k, q)', Can(k, q)
          PROVE  found <= f(k, q)
      <4>1. CASE k = itr /\ q = p
        <5>1. ~(f(k, q) < found) /\ f(k, q) \in Nat
          BY <1>3, <2>3, <3>2, <4>1 DEF Improves
        <5> QED
          BY <3>1, <5>1
      <4>2. CASE Compared(k, q)
        BY <1>1, <2>3, <3>2, <4>2 DEF SearchInv
      <4> QED
        BY <3>2, <4>1, <4>2, LooksOn
    <3> QED
      BY <1>1, <2>3, <3>1, <3>2 DEF SearchInv
  <2> QED
    BY <2>1, <2>2, <2>3
<1>7. /\ found' = Never =>
            \A k \in DOMAIN ready', q \in PE : Compared(k, q)' => ~Can(k, q)'
      /\ found' # Never =>
            /\ pos' \in DOMAIN ready' /\ pick' \in CanRun(ready[pos])'
            /\ found' = Finish(ready[pos], pick)'
            /\ \A k \in DOMAIN ready', q \in PE :
                  Compared(k, q)' /\ Can(k, q)' => found' <= f(k, q)'
  <2>1. CanRun(ready[pos])' = CanRun(ready[pos'])
    BY <1>1 DEF CanRun
  <2>2. Finish(ready[pos], pick)' = Finish(ready[pos'], pick')
    BY <1>1 DEF Finish, Later
  <2> QED
    BY <1>1, <1>5, <1>6, <2>1, <2>2
<1>8. cfg'.policy = cfg.policy /\ left' = left
  BY <1>1
<1> QED
  BY <1>1, <1>2, <1>4, <1>7, <1>8 DEF SearchInv

\* A search begins with nothing compared.
LEMMA SearchBegins ==
    ASSUME TypeOK, RoundInv, BeginSearch
    PROVE  SearchInv'
<1>1. PICK m \in Nat : m = Len(ready) /\ DOMAIN ready = 1..m
  BY LenProperties DEF TypeOK
<1>2. /\ phase = "try" /\ phase' = "seek" /\ cfg.policy \in Timed
      /\ UNCHANGED <<cfg, ready, left, pos>> /\ seen' = 0 /\ found' = Never
  BY DEF BeginSearch, world
<1>3. IF cfg.policy = "ETF" THEN left > 0 /\ itr' = 1 ELSE pos \in DOMAIN ready /\ itr' = pos
  BY DEF BeginSearch
<1>4. itr' \in DOMAIN ready
  <2>1. CASE cfg.policy = "ETF"
    <3>1. left \in Nat /\ left > 0 /\ left <= m
      BY <1>1, <1>2, <1>3, <2>1 DEF RoundInv, Trying, TypeOK
    <3>2. 1 \in 1..m
      BY <3>1
    <3> QED
      BY <1>1, <1>3, <2>1, <3>2
  <2> QED
    BY <1>3, <2>1
<1>5. ASSUME NEW k \in DOMAIN ready, NEW q \in PE PROVE ~Compared(k, q)'
  <2>1. PICK n \in Nat : n = NumPEs
    BY PEType
  <2>2. q \in 1..n /\ ~(q > n - 0) /\ ~(q <= 0)
    BY <2>1 DEF PE
  <2>3. cfg.policy = "ETF" => ~(k < itr')
    BY <1>1, <1>3
  <2> QED
    BY <1>2, <2>1, <2>2, <2>3 DEF Compared
<1> QED
  BY <1>2, <1>3, <1>4, <1>5 DEF SearchInv

\* Every step keeps what a search knows.
LEMMA SearchStep ==
    ASSUME TypeOK, RoundInv, SearchInv, [Next]_vars
    PROVE  SearchInv'
<1>1. ASSUME phase' \notin {"seek", "ask"} PROVE SearchInv'
  BY <1>1 DEF SearchInv
<1>2. CASE Tick \/ UNCHANGED vars
  <2>1. /\ UNCHANGED <<cfg, ready, avail, stamp, phase, left, pos>>
        /\ UNCHANGED <<itr, seen, found, pick>>
    BY <1>2 DEF Tick, vars, world, roundVars, searchVars
  <2>2. \A k, q : /\ Finish(ready[k], q)' = Finish(ready[k], q)
                  /\ Compared(k, q)' <=> Compared(k, q)
    BY <2>1, SameFinish DEF Compared
  <2>3. Finish(ready[pos], pick)' = Finish(ready[pos], pick)
    BY <2>1 DEF Finish, Later
  <2> QED
    BY <2>1, <2>2, <2>3 DEF SearchInv, CanRun
<1>3. ASSUME NEW t \in Task, Submit(t) PROVE SearchInv'
  BY <1>1, <1>3 DEF Submit, roundVars
<1>4. ASSUME NEW p \in PE, Drain(p) PROVE SearchInv'
  BY <1>1, <1>4 DEF Drain, roundVars
<1>5. CASE Begin \/ TryCached \/ BeginPolicy
  BY <1>1, <1>5 DEF Begin, TryCached, BeginPolicy
<1>6. CASE TryRing \/ TryEarliest \/ TryETF \/ EndRound
  BY <1>1, <1>6 DEF TryRing, TryEarliest, TryETF, EndRound, StopAtZero
<1> QED
  BY <1>2, <1>3, <1>4, <1>5, <1>6, SearchBegins, LookKeeps DEF Next, Main

\* The positions whose tasks a search compares.
Searched == IF cfg.policy = "ETF" THEN DOMAIN ready ELSE {pos}

\* A search ends with the least of all times, or nothing it could choose from.
LEMMA SearchEnds ==
    ASSUME SearchInv, phase = "ask"
    PROVE  /\ cfg.policy # "ETF" => pos \in DOMAIN ready
           /\ \/ /\ pos \in DOMAIN ready /\ pick \in CanRun(ready[pos])
                 /\ \A k \in Searched : \A q \in CanRun(ready[k]) :
                       Finish(ready[pos], pick) <= Finish(ready[k], q)
              \/ \A k \in Searched : CanRun(ready[k]) = {}
<1>1. cfg.policy # "ETF" => pos \in DOMAIN ready
  BY DEF SearchInv
<1>2. \A k \in Searched : k \in DOMAIN ready /\ \A q : Compared(k, q)
  BY <1>1 DEF Searched, Compared
<1>3. \A k : CanRun(ready[k]) \subseteq PE
  BY DEF CanRun
<1>4. CASE found = Never
  BY <1>1, <1>2, <1>3, <1>4 DEF SearchInv
<1>5. CASE found # Never
  BY <1>1, <1>2, <1>3, <1>5 DEF SearchInv
<1> QED
  BY <1>4, <1>5

-----------------------------------------------------------------------------
(* How far a round has come.                                               *)

\* At first no round is open.
LEMMA RoundInit == Init => RoundInv
BY DEF Init, RoundInv, Trying

\* What keeps the ready queue keeps what waits in it.
LEMMA KeepWaits ==
    ASSUME UNCHANGED <<ready, pending>>
    PROVE  /\ \A t : Waits(t)' <=> Waits(t)
           /\ Pairs' = Pairs
           /\ (\E t \in ToSet(ready) : Waits(t))' <=> \E t \in ToSet(ready) : Waits(t)
<1>1. \A t : Waits(t)' <=> Waits(t)
  BY DEF Waits, Idle
<1>2. Pairs' = Pairs
  BY DEF Pairs
<1> QED
  BY <1>1, <1>2

\* The task at hand is given: those before it stay.
LEMMA GiveRound ==
    ASSUME TypeOK, EveryTaskOnce, RoundInv, Trying, cfg.policy # "ETF",
           pos \in DOMAIN ready, NEW p, Give(pos, p), pos' = pos, cfg' = cfg,
           phase' = "try" \/ (phase' = "report" /\ ~cfg.queueing)
    PROVE  RoundInv'
<1>1. PICK n \in Nat : n = Len(ready) /\ DOMAIN ready = 1..n
  BY LenProperties DEF TypeOK
<1>2. /\ ready' \in Seq(Task) /\ Len(ready') = n - 1
      /\ \A j \in 1..(n - 1) : ready'[j] = IF j < pos THEN ready[j] ELSE ready[j + 1]
  BY <1>1, GiveType, GiveEffect
<1>3. given' = TRUE /\ pos > 0
  BY DEF Give, RoundInv
<1>4. ASSUME cfg.queueing, NEW i \in DOMAIN ready', i < pos
      PROVE  CanRun(ready'[i]) = {}
  <2>1. i \in 1..(n - 1) /\ i \in 1..n
    <3>1. PICK m \in Nat : m = Len(ready') /\ DOMAIN ready' = 1..m
      BY <1>2, LenProperties
    <3>2. m = n - 1
      BY <1>2, <3>1
    <3> QED
      BY <1>4, <3>1, <3>2
  <2>2. ready'[i] = ready[i]
    BY <1>2, <1>4, <2>1
  <2> QED
    BY <1>1, <1>4, <2>1, <2>2 DEF RoundInv
<1> QED
  BY <1>3, <1>4 DEF RoundInv, Trying

\* The task at hand waits: it is left behind.
LEMMA KeepRound ==
    ASSUME TypeOK, RoundInv, Trying, cfg.policy # "ETF",
           pos \in DOMAIN ready, Keep, pos' = pos + 1, cfg' = cfg,
           phase' = "try" \/ (phase' = "report" /\ ~cfg.queueing),
           Waits(ready[pos]), cfg.queueing => CanRun(ready[pos]) = {}
    PROVE  RoundInv'
<1>1. UNCHANGED <<ready, pending>> /\ pos \in Nat
  BY DEF Keep, TypeOK
<1>2. ready[pos] \in ToSet(ready)
  BY DEF ToSet
<1>3. (\E t \in ToSet(ready) : Waits(t))'
  BY <1>1, <1>2, KeepWaits
<1>4. ASSUME cfg.queueing, NEW i \in DOMAIN ready, i < pos + 1
      PROVE  CanRun(ready[i]) = {}
  <2>1. i \in Nat
    BY LenProperties DEF TypeOK
  <2>2. i < pos \/ i = pos
    BY <1>1, <1>4, <2>1
  <2> QED
    BY <1>4, <2>2 DEF RoundInv
<1>5. pos' > 0
  BY <1>1
<1> QED
  BY <1>1, <1>3, <1>4, <1>5 DEF RoundInv, Trying

\* A search that ended without a PE to ask, or with one that does not take the
\* task, leaves one that waits; with queueing, only what no PE can run.
LEMMA SearchRefuses ==
    ASSUME TypeOK, SearchInv, phase = "ask", pos \in DOMAIN ready,
           ~Takes(ready[pos], pick)
    PROVE  /\ Waits(ready[pos])
           /\ cfg.queueing => \A k \in Searched : CanRun(ready[k]) = {}
<1>1. pos \in Searched
  BY DEF Searched
<1>2. CASE pick \in CanRun(ready[pos])
  BY <1>2 DEF Takes, Waits
<1>3. CASE \A k \in Searched : CanRun(ready[k]) = {}
  BY <1>1, <1>3 DEF Waits
<1> QED
  BY <1>2, <1>3, SearchEnds

\* A pass of ETF.
LEMMA EtfRound ==
    ASSUME TypeOK, EveryTaskOnce, RoundInv, SearchInv, TryETF
    PROVE  RoundInv'
<1>1. PICK n \in Nat : n = Len(ready) /\ DOMAIN ready = 1..n
  BY LenProperties DEF TypeOK
<1>2. PICK l \in Nat : l = left
  BY DEF TypeOK
<1>3. cfg' = cfg /\ cfg.policy = "ETF" /\ phase = "ask" /\ Trying
  BY DEF TryETF, Trying, world
<1>4. l > 0 /\ l <= n /\ left' = l - 1
  BY <1>1, <1>2, <1>3 DEF TryETF, RoundInv, SearchInv
<1>5. CASE pos \in DOMAIN ready /\ Give(pos, pick) /\ StopAtZero
  <2>1. ready' \in Seq(Task) /\ Len(ready') = n - 1 /\ given' = TRUE
    BY <1>1, <1>5, GiveType, GiveEffect DEF Give
  <2>2. phase' = "try" \/ (phase' = "report" /\ ~cfg.queueing)
    BY <1>5 DEF StopAtZero
  <2>3. Pairs # {}
    <3>1. <<pos, pick>> \in Pairs
      BY <1>5, GiveType DEF Pairs
    <3> QED
      BY <3>1
  <2>4. cfg.queueing => l = n
    BY <1>1, <1>2, <1>3, <2>3 DEF RoundInv
  <2>5. left' <= n - 1 /\ (cfg.queueing => left' = n - 1)
    BY <1>4, <2>4
  <2>6. left' <= Len(ready') /\ (cfg.queueing => left' = Len(ready'))
    BY <2>1, <2>5
  <2> QED
    BY <1>3, <2>1, <2>2, <2>6 DEF RoundInv, Trying
<1>6. CASE pos \in DOMAIN ready /\ ~Takes(ready[pos], pick) /\ Keep /\ phase' = "try"
  <2>1. UNCHANGED <<ready, pending>>
    BY <1>6 DEF Keep
  <2>2. left' <= Len(ready')
    <3>1. l - 1 <= n
      BY <1>4
    <3> QED
      BY <1>1, <1>4, <2>1, <3>1
  <2>3. /\ Waits(ready[pos])
        /\ cfg.queueing => \A k \in DOMAIN ready : CanRun(ready[k]) = {}
    BY <1>3, <1>6, SearchRefuses DEF Searched
  <2>4. (\E t \in ToSet(ready) : Waits(t))'
    BY <1>6, <2>1, <2>3, KeepWaits DEF ToSet
  <2>5. cfg.queueing => Pairs' = {}
    <3>1. cfg.queueing => Pairs = {}
      BY <2>3 DEF Pairs
    <3> QED
      BY <2>1, <3>1, KeepWaits
  <2> QED
    BY <1>3, <1>6, <2>2, <2>4, <2>5 DEF RoundInv, Trying
<1>7. CASE phase' = "stray"
  BY <1>7 DEF RoundInv, Trying
<1> QED
  BY <1>5, <1>6, <1>7 DEF TryETF

\* Every step brings a round on as RoundInv says.
LEMMA RoundStep ==
    ASSUME TypeOK, EveryTaskOnce, RoundInv, SearchInv, [Next]_vars
    PROVE  RoundInv'
<1>1. ASSUME UNCHANGED <<cfg, roundVars>>, phase = "rest" PROVE RoundInv'
  BY <1>1 DEF RoundInv, Trying, roundVars
<1>2. ASSUME NEW t \in Task, Submit(t) PROVE RoundInv'
  BY <1>1, <1>2 DEF Submit, world
<1>3. ASSUME NEW p \in PE, Drain(p) PROVE RoundInv'
  BY <1>1, <1>3 DEF Drain
<1>4. CASE Tick \/ UNCHANGED vars
  <2>1. UNCHANGED <<cfg, ready, pending>> /\ UNCHANGED <<phase, pos, left, given>>
    BY <1>4 DEF Tick, vars, world, roundVars
  <2>2. /\ Pairs' = Pairs
        /\ (\E t \in ToSet(ready) : Waits(t))' <=> \E t \in ToSet(ready) : Waits(t)
    BY <2>1, KeepWaits
  <2> QED
    BY <2>1, <2>2 DEF RoundInv, Trying
<1>5. CASE Begin
  BY <1>5 DEF Begin, RoundInv, Trying
<1>6. CASE TryCached
  <2>1. pos' > 0 \/ cfg.policy = "ETF"
    <3>1. cfg.policy # "ETF" => pos > 0 /\ pos \in Nat
      BY <1>6 DEF TryCached, RoundInv, TypeOK
    <3> QED
      BY <1>6, <3>1 DEF TryCached
  <2> QED
    BY <1>6, <2>1 DEF TryCached, RoundInv, Trying, world
<1>7. CASE BeginPolicy
  <2>1. PICK n \in Nat : n = Len(ready) /\ n <= n
    BY LenProperties DEF TypeOK
  <2>2. Len(ready') = n /\ left' = n /\ ready' \in Seq(Task)
    BY <1>7, <2>1, OrdersPermute DEF BeginPolicy, EveryTaskOnce
  <2>3. left' <= Len(ready') /\ left' = Len(ready')
    BY <2>1, <2>2
  <2>4. \A i \in DOMAIN ready' : ~(i < 1)
    BY <2>2, LenProperties
  <2> QED
    BY <1>7, <2>3, <2>4 DEF BeginPolicy, RoundInv, Trying
<1>8. CASE TryRing
  <2> DEFINE t == ready[pos]
             fits == {i \in 0..(NumPEs - 1) : At(i) \in Candidates(t) /\ Takes(t, At(i))}
  <2>1. /\ phase = "try" /\ Trying /\ cfg.policy # "ETF" /\ pos \in DOMAIN ready
        /\ cfg' = cfg /\ t \in Task
    BY <1>8, ElementOfSeq, LenProperties DEF TryRing, Trying, world, Ring, TypeOK
  <2>2. CASE fits # {} /\ Give(pos, At(Min(fits))) /\ pos' = pos /\ StopAtZero
    BY <2>1, <2>2, GiveRound DEF StopAtZero
  <2>3. CASE fits = {} /\ Keep /\ pos' = pos + 1 /\ (phase' = phase \/ StopAtZero)
    <3>1. Waits(t) /\ (cfg.queueing => CanRun(t) = {})
      BY <2>1, <2>3, RingRefuses
    <3> QED
      BY <2>1, <2>3, <3>1, KeepRound DEF StopAtZero
  <2> QED
    BY <1>8, <2>2, <2>3 DEF TryRing
<1>9. CASE TryEarliest
  <2>1. phase = "ask" /\ Trying /\ cfg.policy # "ETF" /\ cfg' = cfg /\ pos \in DOMAIN ready
    BY <1>9, SearchEnds DEF TryEarliest, Trying, world
  <2>2. CASE Give(pos, pick) /\ pos' = pos /\ (phase' = "try" \/ StopAtZero)
    BY <2>1, <2>2, GiveRound DEF StopAtZero
  <2>3. CASE ~Takes(ready[pos], pick) /\ Keep /\ pos' = pos + 1 /\ phase' = "try"
    <3>1. Waits(ready[pos]) /\ (cfg.queueing => CanRun(ready[pos]) = {})
      BY <2>1, <2>3, SearchRefuses DEF Searched
    <3> QED
      BY <2>1, <2>3, <3>1, KeepRound
  <2>4. CASE phase' = "stray"
    BY <2>4 DEF RoundInv, Trying
  <2> QED
    BY <1>9, <2>2, <2>3, <2>4 DEF TryEarliest
<1>10. CASE EndRound
  BY <1>10 DEF EndRound, RoundInv, Trying
<1>11. CASE BeginSearch \/ LookAtPE
  <2>1. /\ UNCHANGED <<cfg, ready, pending, left, given>> /\ Trying /\ Trying'
        /\ phase' # "rest" /\ phase' # "report" /\ phase' # "cached"
    BY <1>11 DEF BeginSearch, LookAtPE, Trying, world
  <2>2. cfg.policy # "ETF" => pos' = pos
    BY <1>11 DEF BeginSearch, LookAtPE, SearchInv
  <2>3. /\ Pairs' = Pairs
        /\ (\E t \in ToSet(ready) : Waits(t))' <=> \E t \in ToSet(ready) : Waits(t)
    BY <2>1, KeepWaits
  <2> QED
    BY <2>1, <2>2, <2>3 DEF RoundInv
<1> QED
  BY <1>2, <1>3, <1>4, <1>5, <1>6, <1>7, <1>8, <1>9, <1>10, <1>11, EtfRound DEF Next, Main

-----------------------------------------------------------------------------
(* The invariant.                                                          *)

\* What every policy, in both daemons, keeps: each task in one place, the count
\* of free PEs within its bounds, rounds that leave behind only what waits, and
\* searches that remember the least of what they compared.
THEOREM SchedInvariance == Spec => []SchedInv
<1>1. Init => SchedInv
  BY TypeInit, OnceInit, CountInit, RoundInit, SearchInit DEF SchedInv
<1>2. SchedInv /\ [Next]_vars => SchedInv'
  <2> SUFFICES ASSUME SchedInv, [Next]_vars PROVE SchedInv'
    OBVIOUS
  <2>1. /\ TypeOK /\ EveryTaskOnce /\ IsInjective(ready)
        /\ CountIsNeverShort /\ CountInv /\ RoundInv /\ SearchInv
    BY DEF SchedInv, EveryTaskOnce
  <2>2. TypeOK' /\ EveryTaskOnce' /\ RoundInv' /\ SearchInv'
    BY <2>1, TypeStep, OnceStep, RoundStep, SearchStep
  <2>3. CountIsNeverShort' /\ CountInv'
    BY <2>1, CountStep
  <2> QED
    BY <2>2, <2>3 DEF SchedInv
<1> QED
  BY <1>1, <1>2, PTL DEF Spec

\* The types.
THEOREM SchedTypes == Spec => []TypeOK
<1>1. SchedInv => TypeOK
  BY DEF SchedInv
<1> QED
  BY <1>1, SchedInvariance, PTL

\* free_resource_count of the DAG daemon: a policy that stops when it has
\* counted down to zero leaves no PE idle.
THEOREM CountsAreNeverShort == Spec => []CountIsNeverShort
<1>1. SchedInv => CountIsNeverShort
  BY DEF SchedInv
<1> QED
  BY <1>1, SchedInvariance, PTL

-----------------------------------------------------------------------------
(* What the timed policies give.                                           *)

\* A step gives what could not have been finished earlier.
LEMMA EarliestStep ==
    ASSUME SchedInv, [Next]_vars
    PROVE  GivenEarliest
<1> SUFFICES ASSUME cfg.policy \in Timed, phase # "cached",
                    NEW p \in PE, NEW t \in ToSet(pending'[p]) \ ToSet(pending[p]),
                    NEW u \in IF cfg.policy = "ETF" THEN ToSet(ready) ELSE {t},
                    NEW q \in CanRun(u)
             PROVE  Finish(t, p) <= Finish(u, q)
  BY DEF GivenEarliest
<1>1. TypeOK /\ EveryTaskOnce /\ SearchInv
  BY DEF SchedInv
<1>2. pending' # pending
  OBVIOUS
<1>3. CASE TryEarliest \/ TryETF
  <2>1. phase = "ask" /\ pos \in DOMAIN ready /\ Give(pos, pick)
    BY <1>1, <1>2, <1>3, SearchEnds DEF TryEarliest, TryETF, Keep
  <2>2. pick \in PE /\ pick \in CanRun(ready[pos])
    BY <1>1, <2>1, GiveType
  <2>3. t = ready[pos] /\ p = pick
    <3>1. /\ ToSet(pending'[pick]) = ToSet(pending[pick]) \cup {ready[pos]}
          /\ \A v \in PE \ {pick} : pending'[v] = pending[v]
      BY <1>1, <2>1, <2>2, GiveEffect
    <3>2. p = pick
      BY <3>1
    <3> QED
      BY <3>1, <3>2
  <2>4. PICK k \in Searched : u = ready[k]
    BY <2>3 DEF Searched, ToSet
  <2>5. pos \in Searched
    BY <2>1 DEF Searched
  <2> QED
    BY <1>1, <2>1, <2>2, <2>3, <2>4, <2>5, SearchEnds
<1>4. ASSUME NEW v \in Task, Submit(v) PROVE FALSE
  BY <1>2, <1>4 DEF Submit
<1>5. ASSUME NEW v \in PE, Drain(v) PROVE FALSE
  <2>1. /\ ToSet(pending'[v]) \subseteq ToSet(pending[v])
        /\ \A r \in PE \ {v} : pending'[r] = pending[r]
    BY <1>1, <1>5, DrainEffect
  <2> QED
    BY <2>1
<1>6. ~TryRing /\ ~TryCached
  BY DEF TryRing, TryCached, Ring, Timed
<1>7. ~(Begin \/ BeginPolicy \/ BeginSearch \/ LookAtPE)
  BY <1>2 DEF Begin, BeginPolicy, BeginSearch, LookAtPE
<1>8. ~(EndRound \/ Tick \/ UNCHANGED vars)
  BY <1>2 DEF EndRound, Tick, vars
<1> QED
  BY <1>3, <1>4, <1>5, <1>6, <1>7, <1>8 DEF Next, Main

\* EFT and HEFT_RT never give a task to a PE that finishes it later than another
\* that can run it, nor ETF while another ready task could be finished earlier.
THEOREM EarliestIsGiven == Spec => GivesEarliest
<1>1. SchedInv /\ [Next]_vars => [GivenEarliest]_vars
  BY EarliestStep
<1> QED
  BY <1>1, SchedInvariance, PTL DEF Spec, GivesEarliest

-----------------------------------------------------------------------------
(* The rounds.                                                             *)

\* The round is open while the main thread is in performScheduling.
Opened == phase \notin {"rest", "dead", "stray"}

\* The queues of the PEs as SchedRound sees them.
Sets == [p \in PE |-> ToSet(pending[p])]

\* The first state is one of SchedRound.
LEMMA InitMaps == Init => Round!Init
<1> SUFFICES ASSUME Init PROVE Round!Init
  OBVIOUS
<1>1. cfg \in Config
  BY SchedAssumption DEF Init
<1>2. ToSet(<<>>) = {}
  BY DEF ToSet
<1>3. cfg.queueing \in BOOLEAN /\ (~cfg.dag) \in BOOLEAN
  BY <1>1 DEF Config
<1>4. ToSet(ready) = {} /\ Sets = [p \in PE |-> {}]
  BY <1>2 DEF Init, Sets
<1> QED
  BY <1>3, <1>4 DEF Init, Round!Init, Sets

\* A step that neither moves a task nor opens or ends the round.
LEMMA StutterMaps ==
    ASSUME ToSet(ready)' = ToSet(ready), UNCHANGED <<cfg, pending, given>>,
           phase' = phase \/ (Opened /\ Opened')
    PROVE  UNCHANGED Round!roundVars
BY DEF Round!roundVars, Opened

\* A task that is given to a PE.
LEMMA GiveMaps ==
    ASSUME TypeOK, EveryTaskOnce, Opened, Opened', cfg' = cfg,
           NEW k \in DOMAIN ready, NEW p, Give(k, p)
    PROVE  Round!Next
<1> DEFINE t == ready[k]
<1>1. t \in Task /\ p \in PE /\ p \in CanRun(t) /\ p \in [v \in Task |-> CanRun(v)][t]
  BY GiveType
<1>2. /\ t \in ToSet(ready) /\ ToSet(ready)' = ToSet(ready) \ {t}
      /\ ToSet(pending'[p]) = ToSet(pending[p]) \cup {t}
      /\ \A q \in PE \ {p} : pending'[q] = pending[q]
  BY <1>1, GiveEffect
<1>3. Sets' = [Sets EXCEPT ![p] = @ \cup {t}]
  BY <1>2 DEF Sets
<1>4. cfg.queueing \/ Sets[p] = {}
  <2>1. ToSet(<<>>) = {}
    BY DEF ToSet
  <2> QED
    BY <1>1, <2>1 DEF Give, Takes, Idle, Sets
<1>5. given' = TRUE
  BY DEF Give
<1>6. Round!Give(t, p)
  BY <1>1, <1>2, <1>3, <1>4, <1>5 DEF Round!Give, Round!Idle, Opened, Sets
<1> QED
  BY <1>1, <1>2, <1>6 DEF Round!Next

\* A policy goes astray over a task that no PE can run.
LEMMA StrayMaps ==
    ASSUME TypeOK, Opened, phase' = "stray", Keep, cfg' = cfg,
           NEW k \in DOMAIN ready, CanRun(ready[k]) = {}
    PROVE  Round!Next
<1>1. ready[k] \in ToSet(ready) /\ ready[k] \in Task
  BY ElementOfSeq, LenProperties DEF ToSet, TypeOK
<1>2. ready' = ready /\ pending' = pending /\ given' = given
  BY DEF Keep
<1>3. Round!GoAstray
  BY <1>1, <1>2 DEF Round!GoAstray, Round!Runnable, Opened
<1> QED
  BY <1>3 DEF Round!Next

\* Tasks that become ready, or are drained.
LEMMA BetweenMaps ==
    ASSUME EveryTaskOnce', phase = "rest", UNCHANGED <<cfg, given>>, phase' \in {"rest", "choose", "cached"},
           ToSet(ready) \subseteq ToSet(ready'),
           \A p \in PE : ToSet(pending'[p]) \subseteq ToSet(pending[p]),
           phase' = "rest" \/ ToSet(ready') # {}
    PROVE  Round!Next
<1>1. Sets' = [p \in PE |-> Sets[p] \cap Sets'[p]]
  BY DEF Sets
<1>2. \A p \in PE : Sets'[p] \cap ToSet(ready') = {}
  BY DEF EveryTaskOnce, Sets
<1>3. Round!Between
  BY <1>1, <1>2 DEF Round!Between, Sets
<1>4. CASE phase' = "rest"
  BY <1>3, <1>4 DEF Round!Rest, Round!Next
<1>5. CASE phase' # "rest" /\ ToSet(ready') # {}
  BY <1>3, <1>5 DEF Round!Open, Round!Next
<1> QED
  BY <1>4, <1>5

\* A round that ends has kept what SchedRound promises.
LEMMA EndMaps ==
    ASSUME TypeOK, RoundInv, EndRound
    PROVE  Round!Next
<1>0. UNCHANGED <<cfg, ready, pending>> /\ given' = FALSE /\ Opened
      /\ phase' = IF given \/ cfg.dag THEN "rest" ELSE "dead"
  BY DEF EndRound, world, Opened
<1>1. PICK n \in Nat : n = Len(ready) /\ DOMAIN ready = 1..n
  BY LenProperties DEF TypeOK
<1>2. \A t \in ToSet(ready) : t \in Task
  BY ElementOfSeq, LenProperties DEF ToSet, TypeOK
<1>3. \/ \A t \in ToSet(ready) : CanRun(t) = {}
      \/ ~cfg.queueing /\ (given \/ \E t \in ToSet(ready) : Waits(t))
  <2>1. CASE phase = "report"
    BY <2>1 DEF RoundInv
  <2>2. CASE phase = "try" /\ cfg.policy # "ETF" /\ pos \notin DOMAIN ready
    <3>1. pos \in Nat /\ pos > 0 /\ \A i \in DOMAIN ready : i < pos
      <4>1. pos \in Nat /\ pos > 0
        BY <2>2 DEF TypeOK, RoundInv, Trying
      <4> QED
        BY <1>1, <2>2, <4>1
    <3>2. CASE cfg.queueing
      BY <2>2, <3>1, <3>2 DEF RoundInv, Trying, ToSet
    <3>3. CASE ~cfg.queueing /\ pos = 1
      <4>1. DOMAIN ready = {}
        BY <1>1, <3>1, <3>3
      <4> QED
        BY <4>1 DEF ToSet
    <3> QED
      BY <2>2, <3>2, <3>3 DEF RoundInv, Trying
  <2>3. CASE phase = "try" /\ cfg.policy = "ETF" /\ left = 0
    <3>1. CASE left = Len(ready)
      <4>1. DOMAIN ready = {}
        BY <1>1, <2>3, <3>1
      <4> QED
        BY <4>1 DEF ToSet
    <3>2. CASE Pairs = {}
      <4>1. ASSUME NEW i \in DOMAIN ready, NEW p \in CanRun(ready[i]) PROVE FALSE
        <5>1. <<i, p>> \in Pairs
          BY PEType DEF Pairs
        <5> QED
          BY <3>2, <5>1
      <4> QED
        BY <4>1 DEF ToSet
    <3> QED
      BY <2>3, <3>1, <3>2 DEF RoundInv, Trying
  <2> QED
    BY <2>1, <2>2, <2>3 DEF EndRound
<1>4. ToSet(<<>>) = {} /\ \A p \in PE : pending[p] # <<>> => Sets[p] # {}
  <2>1. ASSUME NEW p \in PE, pending[p] # <<>> PROVE Sets[p] # {}
    <3>1. Head(pending[p]) \in Task /\ Len(pending[p]) > 0 /\ Len(pending[p]) \in Nat
          /\ DOMAIN pending[p] = 1..Len(pending[p])
      BY <2>1, TailType, LenProperties DEF TypeOK
    <3>2. 1 \in DOMAIN pending[p]
      BY <3>1
    <3> QED
      BY <3>2 DEF Sets, ToSet
  <2> QED
    BY <2>1 DEF ToSet
<1> DEFINE Able == [t \in Task |-> CanRun(t)]
<1>5. \/ \A t \in ToSet(ready) : ~(Able[t] # {})
      \/ ~cfg.queueing /\ (given \/ \E t \in ToSet(ready) :
                             ~(Able[t] # {}) \/ \E p \in Able[t] : ~(Sets[p] = {}))
  BY <1>2, <1>3, <1>4, PEType DEF Waits, Idle
<1>6. Round!Close
  BY <1>0, <1>5 DEF Round!Close, Round!Runnable, Round!Blocked, Round!Idle, Opened, Sets
<1> QED
  BY <1>6 DEF Round!Next

\* An attempt either gives the task at hand, or keeps all as it is.
LEMMA AttemptMaps ==
    ASSUME TypeOK, EveryTaskOnce, Opened, cfg' = cfg,
           \/ Opened' /\ (Keep \/ \E k \in DOMAIN ready : \E p : Give(k, p))
           \/ phase' = "stray" /\ Keep /\ \E k \in DOMAIN ready : CanRun(ready[k]) = {}
    PROVE  [Round!Next]_Round!roundVars
<1>1. CASE Opened' /\ Keep
  BY <1>1, StutterMaps DEF Keep
<1>2. CASE Opened' /\ \E k \in DOMAIN ready : \E p : Give(k, p)
  BY <1>2, GiveMaps
<1>3. CASE phase' = "stray" /\ Keep /\ \E k \in DOMAIN ready : CanRun(ready[k]) = {}
  BY <1>3, StrayMaps
<1> QED
  BY <1>1, <1>2, <1>3

\* Every step is a step of SchedRound or changes nothing it sees.
LEMMA StepMaps ==
    ASSUME SchedInv, [Next]_vars
    PROVE  [Round!Next]_Round!roundVars
<1>0. TypeOK /\ EveryTaskOnce /\ RoundInv /\ SearchInv /\ EveryTaskOnce'
  BY OnceStep DEF SchedInv
<1>1. ASSUME NEW t \in Task, Submit(t) PROVE Round!Next
  <2>1. ToSet(ready') = ToSet(ready) \cup {t}
    BY <1>0, <1>1, AppendSet DEF Submit, TypeOK, EveryTaskOnce
  <2> QED
    BY <1>0, <1>1, <2>1, BetweenMaps DEF Submit, world, roundVars
<1>2. ASSUME NEW p \in PE, Drain(p) PROVE Round!Next
  <2>1. /\ ToSet(pending'[p]) \subseteq ToSet(pending[p]) /\ ready' = ready
        /\ \A q \in PE \ {p} : pending'[q] = pending[q]
    BY <1>0, <1>2, DrainEffect
  <2> QED
    BY <1>0, <1>2, <2>1, BetweenMaps DEF Drain, roundVars
<1>3. CASE Tick \/ UNCHANGED vars
  BY <1>3, StutterMaps DEF Tick, vars, world, roundVars
<1>4. CASE Begin
  <2>1. ToSet(ready) # {}
    <3>1. Len(ready) \in Nat /\ Len(ready) > 0 /\ DOMAIN ready = 1..Len(ready)
      BY <1>0, <1>4, TailType, LenProperties DEF Begin, TypeOK
    <3>2. 1 \in DOMAIN ready
      BY <3>1
    <3> QED
      BY <3>2 DEF ToSet
  <2> QED
    BY <1>0, <1>4, <2>1, BetweenMaps DEF Begin, world
<1>5. CASE TryCached
  <2>1. Opened /\ Opened' /\ cfg' = cfg /\ (Keep \/ \E k \in DOMAIN ready : \E p : Give(k, p))
    BY <1>5 DEF TryCached, Opened, world
  <2> QED
    BY <1>0, <2>1, AttemptMaps
<1>6. CASE BeginPolicy
  <2>1. ToSet(ready)' = ToSet(ready) /\ Opened /\ Opened' /\ UNCHANGED <<cfg, pending, given>>
    BY <1>0, <1>6, OrdersPermute DEF BeginPolicy, Opened, world, EveryTaskOnce
  <2> QED
    BY <2>1, StutterMaps
<1>7. CASE TryRing
  <2>1. Opened /\ Opened' /\ cfg' = cfg /\ (Keep \/ \E k \in DOMAIN ready : \E p : Give(k, p))
    BY <1>7 DEF TryRing, StopAtZero, Opened, world
  <2> QED
    BY <1>0, <2>1, AttemptMaps
<1>8. CASE TryEarliest
  <2>1. Opened /\ cfg' = cfg /\ phase = "ask" /\ cfg.policy # "ETF"
    BY <1>8 DEF TryEarliest, Opened, world
  <2>2. pos \in DOMAIN ready /\ (pick = 0 => CanRun(ready[pos]) = {})
    <3>1. 0 \notin CanRun(ready[pos])
      BY DEF CanRun, PE
    <3> QED
      BY <1>0, <2>1, <3>1, SearchEnds DEF Searched
  <2>3. \/ Opened' /\ (Keep \/ \E k \in DOMAIN ready : \E p : Give(k, p))
        \/ phase' = "stray" /\ Keep /\ \E k \in DOMAIN ready : CanRun(ready[k]) = {}
    BY <1>8, <2>2 DEF TryEarliest, StopAtZero, Opened
  <2> QED
    BY <1>0, <2>1, <2>3, AttemptMaps
<1>9. CASE TryETF
  <2>1. Opened /\ cfg' = cfg /\ phase = "ask" /\ cfg.policy = "ETF"
    BY <1>9 DEF TryETF, Opened, world
  <2>2. pos \notin DOMAIN ready => \E k \in DOMAIN ready : CanRun(ready[k]) = {}
    <3>1. PICK n \in Nat : n = Len(ready) /\ DOMAIN ready = 1..n
      BY <1>0, LenProperties DEF TypeOK
    <3>2. left \in Nat /\ left > 0 /\ left <= n
      BY <1>0, <2>1, <3>1 DEF SearchInv, RoundInv, Trying, TypeOK
    <3>3. 1 \in DOMAIN ready
      BY <3>1, <3>2
    <3> QED
      BY <1>0, <2>1, <3>3, SearchEnds DEF Searched
  <2>3. \/ Opened' /\ (Keep \/ \E k \in DOMAIN ready : \E p : Give(k, p))
        \/ phase' = "stray" /\ Keep /\ \E k \in DOMAIN ready : CanRun(ready[k]) = {}
    BY <1>9, <2>2 DEF TryETF, StopAtZero, Opened
  <2> QED
    BY <1>0, <2>1, <2>3, AttemptMaps
<1>10. CASE EndRound
  BY <1>0, <1>10, EndMaps
<1>11. CASE BeginSearch \/ LookAtPE
  BY <1>11, StutterMaps DEF BeginSearch, LookAtPE, Opened, world
<1> QED
  BY <1>1, <1>2, <1>3, <1>4, <1>5, <1>6, <1>7, <1>8, <1>9, <1>10, <1>11 DEF Next, Main

\* Every policy, in both daemons, implements the round: it gives ready tasks to
\* PEs that can run them and, without queueing, are idle; it ends only when it may
\* leave behind what it leaves; and only a task that no PE can run leads it astray.
THEOREM PoliciesKeepToRounds == Spec => RoundSpec
<1>1. SchedInv /\ [Next]_vars => [Round!Next]_Round!roundVars
  BY StepMaps
<1> QED
  BY <1>1, InitMaps, SchedInvariance, PTL DEF Spec, RoundSpec, Round!Spec
=============================================================================
