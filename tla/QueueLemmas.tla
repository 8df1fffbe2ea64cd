---------------------------- MODULE QueueLemmas ----------------------------
(***************************************************************************)
(* Facts about queues that hold each element once: what push, splice and   *)
(* shift do to the set of waiting elements.  The component proofs reason   *)
(* about sets of calls and cite these lemmas for their queues.  And facts  *)
(* about what is computed step by step over a sequence, and about chunks   *)
(* that lie one behind the other on the end of one.                        *)
(***************************************************************************)
EXTENDS Naturals, SequencesExt, Subsequences, SequenceTheorems, FiniteSetTheorems,
        NaturalsInduction, WellFoundedInduction, TLAPS

(***************************************************************************)
(* Queues without repetition as listings of a set.                         *)
(***************************************************************************)

Lists(q, S) ==
  /\ q \in Seq(S)
  /\ \A i, j \in 1..Len(q) : q[i] = q[j] => i = j
  /\ \A x \in S : \E i \in 1..Len(q) : q[i] = x

\* What Array.splice(i, 1) leaves of a sequence.
LEMMA RemoveAtElements ==
  ASSUME NEW S, NEW q \in Seq(S), NEW i \in 1..Len(q)
  PROVE  /\ RemoveAt(q, i) \in Seq(S)
         /\ Len(RemoveAt(q, i)) = Len(q) - 1
         /\ \A j \in 1..Len(q)-1 :
              RemoveAt(q, i)[j] = IF j < i THEN q[j] ELSE q[j+1]
<1> DEFINE front == SubSeq(q, 1, i-1)
           back == SubSeq(q, i+1, Len(q))
<1>0. Len(q) \in Nat /\ i \in Nat /\ 1 <= i /\ i <= Len(q)
  BY LenProperties
<1>1. /\ front \in Seq(S)
      /\ Len(front) = i-1
      /\ \A j \in 1..i-1 : front[j] = q[j]
  BY SubSeqProperties
<1>2. /\ back \in Seq(S)
      /\ Len(back) = Len(q) - i
      /\ \A j \in 1..Len(q)-i : back[j] = q[i+j]
  BY SubSeqProperties
<1> HIDE DEF front, back
<1>3. /\ front \o back \in Seq(S)
      /\ Len(front \o back) = Len(q) - 1
  <2>1. /\ front \o back \in Seq(S)
        /\ Len(front \o back) = Len(front) + Len(back)
    BY <1>1, <1>2, ConcatProperties
  <2>2. QED
    BY <2>1, <1>0, <1>1, <1>2
<1>4. ASSUME NEW j \in 1..Len(q)-1
      PROVE  (front \o back)[j] = IF j < i THEN q[j] ELSE q[j+1]
  <2>1. (front \o back)[j] = IF j <= Len(front) THEN front[j] ELSE back[j - Len(front)]
    BY <1>1, <1>2, ConcatProperties
  <2>2. CASE j < i
    BY <2>1, <2>2, <1>0, <1>1
  <2>3. CASE ~ (j < i)
    BY <2>1, <2>3, <1>0, <1>1, <1>2
  <2>4. QED
    BY <2>2, <2>3
<1>5. QED
  BY <1>3, <1>4 DEF RemoveAt, front, back

\* queue.push adds the new call to what the queue lists.
LEMMA ListsAppend ==
  ASSUME NEW S, NEW q, Lists(q, S), NEW x, x \notin S
  PROVE  /\ Lists(Append(q, x), S \cup {x})
         /\ Len(Append(q, x)) = Len(q) + 1
BY AppendProperties DEF Lists

\* queue.splice removes the call at that place and no other.
LEMMA ListsRemoveAt ==
  ASSUME NEW S, NEW q, Lists(q, S), NEW i \in 1..Len(q)
  PROVE  /\ Lists(RemoveAt(q, i), S \ {q[i]})
         /\ Len(RemoveAt(q, i)) = Len(q) - 1
<1> DEFINE r == RemoveAt(q, i)
<1> HIDE DEF r
<1>0. q \in Seq(S) /\ Len(q) \in Nat /\ (\A j \in 1..Len(q) : q[j] \in S)
  BY LenProperties DEF Lists
<1>1. /\ r \in Seq(S)
      /\ Len(r) = Len(q) - 1
      /\ \A j \in 1..Len(q)-1 : r[j] = IF j < i THEN q[j] ELSE q[j+1]
  BY <1>0, RemoveAtElements DEF r
<1>2. \A j, k \in 1..Len(q) : q[j] = q[k] => j = k
  BY DEF Lists
<1>3. ASSUME NEW j \in 1..Len(r)
      PROVE  \E k \in 1..Len(q) : k # i /\ r[j] = q[k]
  <2>1. CASE j < i
    BY <2>1, <1>0, <1>1, r[j] = q[j]
  <2>2. CASE ~ (j < i)
    BY <2>2, <1>0, <1>1, r[j] = q[j+1], j+1 \in 1..Len(q)
  <2>3. QED
    BY <2>1, <2>2
<1>4. r \in Seq(S \ {q[i]})
  <2>1. \A j \in 1..Len(r) : r[j] \in S \ {q[i]}
    BY <1>0, <1>2, <1>3
  <2>2. QED
    BY <1>1, <2>1
<1>5. ASSUME NEW j \in 1..Len(r), NEW k \in 1..Len(r), r[j] = r[k]
      PROVE  j = k
  <2> DEFINE old(m) == IF m < i THEN m ELSE m+1
  <2>1. \A m \in 1..Len(r) : old(m) \in 1..Len(q) /\ r[m] = q[old(m)]
    BY <1>0, <1>1
  <2>2. old(j) = old(k)
    <3> HIDE DEF old
    <3> QED BY <2>1, <1>2, <1>5
  <2>3. QED
    BY <2>2, <1>0, <1>1
<1>6. ASSUME NEW x \in S \ {q[i]}
      PROVE  \E j \in 1..Len(r) : r[j] = x
  <2>1. PICK k \in 1..Len(q) : q[k] = x
    BY <1>6 DEF Lists
  <2>2. CASE k < i
    BY <2>1, <2>2, <1>1
  <2>3. CASE k > i
    BY <2>1, <2>3, <1>1, r[k-1] = x
  <2>4. QED
    BY <2>1, <2>2, <2>3
<1>7. QED
  BY <1>1, <1>4, <1>5, <1>6 DEF Lists, r

\* queue.shift removes the oldest call and no other.
LEMMA ListsTail ==
  ASSUME NEW S, NEW q, Lists(q, S), q # <<>>
  PROVE  /\ Head(q) \in S
         /\ Lists(Tail(q), S \ {Head(q)})
         /\ Len(Tail(q)) = Len(q) - 1
<1> DEFINE r == Tail(q)
<1>1. /\ q \in Seq(S)
      /\ Len(q) \in Nat \ {0}
      /\ Head(q) = q[1]
      /\ r \in Seq(S)
      /\ Len(r) = Len(q) - 1
      /\ \A j \in 1..Len(r) : r[j] = q[j+1]
  BY HeadTailProperties, EmptySeq, LenProperties DEF Lists
<1> HIDE DEF r
<1>2. /\ \A j, k \in 1..Len(q) : q[j] = q[k] => j = k
      /\ \A j \in 1..Len(q) : q[j] \in S
  <2>1. \A j, k \in 1..Len(q) : q[j] = q[k] => j = k
    BY DEF Lists
  <2>2. \A j \in 1..Len(q) : q[j] \in S
    BY <1>1
  <2>3. QED
    BY <2>1, <2>2
<1>3. r \in Seq(S \ {q[1]})
  <2>1. ASSUME NEW j \in 1..Len(r)
        PROVE  r[j] \in S \ {q[1]}
    <3>1. j+1 \in 1..Len(q) /\ 1 \in 1..Len(q) /\ j+1 # 1
      BY <1>1
    <3>2. QED
      BY <3>1, <1>1, <1>2
  <2>2. QED
    BY <1>1, <2>1
<1>4. ASSUME NEW x \in S \ {q[1]}
      PROVE  \E j \in 1..Len(r) : r[j] = x
  <2>1. PICK k \in 1..Len(q) : q[k] = x
    BY <1>4 DEF Lists
  <2>2. k - 1 \in 1..Len(r) /\ r[k-1] = x
    BY <2>1, <1>1, <1>4
  <2>3. QED
    BY <2>2
<1>5. ASSUME NEW j \in 1..Len(r), NEW k \in 1..Len(r), r[j] = r[k]
      PROVE  j = k
  <2>1. j+1 \in 1..Len(q) /\ k+1 \in 1..Len(q) /\ q[j+1] = q[k+1]
    BY <1>1, <1>5
  <2>2. QED
    BY <2>1, <1>2
<1>6. QED
  BY <1>1, <1>3, <1>4, <1>5 DEF Lists, r

\* A queue is as long as the set it lists is large.
LEMMA ListsCardinality ==
  ASSUME NEW S, NEW q, Lists(q, S)
  PROVE  Cardinality(S) = Len(q)
<1>1. q \in [1..Len(q) -> S] /\ Len(q) \in Nat
  BY LenProperties DEF Lists
<1>2. q \in Bijection(1..Len(q), S)
  BY <1>1 DEF Lists, Bijection, Injection, Surjection, IsInjective
<1>3. QED
  BY <1>1, <1>2, FS_CountingElements DEF ExistsBijection

-----------------------------------------------------------------------------
(***************************************************************************)
(* The three operations keep the order of the elements that stay.          *)
(***************************************************************************)

LEMMA OrderAfterAppend ==
  ASSUME NEW S, NEW q, Lists(q, S), NEW x, x \notin S
  PROVE  /\ \A j \in 1..Len(q) : j \in 1..Len(Append(q, x)) /\ Append(q, x)[j] = q[j]
         /\ Len(q) + 1 \in 1..Len(Append(q, x))
         /\ Append(q, x)[Len(q) + 1] = x
<1>1. q \in Seq(S \cup {x}) /\ Len(q) \in Nat
  BY LenProperties, SeqMonotonic DEF Lists
<1>2. QED
  BY <1>1, AppendProperties

Precedes(q, x, y) == \E j, k \in 1..Len(q) : j < k /\ q[j] = x /\ q[k] = y

LEMMA OrderAfterRemoveAt ==
  ASSUME NEW S, NEW q, Lists(q, S), NEW i \in 1..Len(q),
         NEW x, NEW y, Precedes(q, x, y), x # q[i], y # q[i]
  PROVE  Precedes(RemoveAt(q, i), x, y)
<1> DEFINE r == RemoveAt(q, i)
           new(p) == IF p < i THEN p ELSE p - 1
<1>0. q \in Seq(S)
  BY DEF Lists
<1>1. /\ Len(q) \in Nat
      /\ Len(r) = Len(q) - 1
      /\ \A p \in 1..Len(q)-1 : r[p] = IF p < i THEN q[p] ELSE q[p+1]
  <2>1. Len(q) \in Nat
    BY <1>0, LenProperties
  <2>2. /\ Len(r) = Len(q) - 1
        /\ \A p \in 1..Len(q)-1 : r[p] = IF p < i THEN q[p] ELSE q[p+1]
    BY <1>0, RemoveAtElements
  <2>3. QED
    BY <2>1, <2>2
<1>2. PICK j \in 1..Len(q), k \in 1..Len(q) : j < k /\ q[j] = x /\ q[k] = y
  BY DEF Precedes
<1>3. j # i /\ k # i
  BY <1>2
<1> HIDE DEF r
<1>4. /\ new(j) \in 1..Len(r) /\ r[new(j)] = x
      /\ new(k) \in 1..Len(r) /\ r[new(k)] = y
  BY <1>1, <1>2, <1>3
<1>5. new(j) < new(k)
  BY <1>1, <1>2, <1>3
<1>6. QED
  BY <1>4, <1>5 DEF r, Precedes

\* The splice brings no element in front of another one.
LEMMA OrderBeforeRemoveAt ==
  ASSUME NEW S, NEW q, Lists(q, S), NEW i \in 1..Len(q),
         NEW x, NEW y, Precedes(RemoveAt(q, i), x, y)
  PROVE  Precedes(q, x, y) /\ x # q[i] /\ y # q[i]
<1> DEFINE r == RemoveAt(q, i)
           old(p) == IF p < i THEN p ELSE p + 1
<1>0. q \in Seq(S)
  BY DEF Lists
<1>1. /\ Len(q) \in Nat
      /\ Len(r) = Len(q) - 1
      /\ \A p \in 1..Len(q)-1 : r[p] = IF p < i THEN q[p] ELSE q[p+1]
  <2>1. Len(q) \in Nat
    BY <1>0, LenProperties
  <2>2. /\ Len(r) = Len(q) - 1
        /\ \A p \in 1..Len(q)-1 : r[p] = IF p < i THEN q[p] ELSE q[p+1]
    BY <1>0, RemoveAtElements
  <2>3. QED
    BY <2>1, <2>2
<1>2. PICK j, k \in 1..Len(r) : j < k /\ r[j] = x /\ r[k] = y
  BY DEF Precedes
<1> HIDE DEF r
<1>3. /\ old(j) \in 1..Len(q) /\ old(k) \in 1..Len(q)
      /\ old(j) < old(k) /\ old(j) # i /\ old(k) # i
  BY <1>1, <1>2
<1>4. q[old(j)] = x /\ q[old(k)] = y
  BY <1>1, <1>2
<1> HIDE DEF old
<1>5. QED
  BY <1>3, <1>4 DEF Precedes, Lists

LEMMA OrderBeforeAppend ==
  ASSUME NEW S, NEW q, Lists(q, S), NEW z, NEW x, NEW y,
         Precedes(Append(q, z), x, y), y # z
  PROVE  Precedes(q, x, y)
<1>1. q \in Seq(S \cup {z}) /\ Len(q) \in Nat
  BY LenProperties DEF Lists
<1>2. /\ Len(Append(q, z)) = Len(q) + 1
      /\ \A j \in 1..Len(q) : Append(q, z)[j] = q[j]
      /\ Append(q, z)[Len(q) + 1] = z
  BY <1>1, AppendProperties
<1>3. PICK j, k \in 1..Len(Append(q, z)) : j < k /\ Append(q, z)[j] = x /\ Append(q, z)[k] = y
  BY DEF Precedes
<1>4. k \in 1..Len(q) /\ j \in 1..Len(q)
  BY <1>1, <1>2, <1>3
<1>5. QED
  BY <1>2, <1>3, <1>4 DEF Precedes

LEMMA OrderAfterTail ==
  ASSUME NEW S, NEW q, Lists(q, S), q # <<>>,
         NEW x, NEW y, Precedes(q, x, y), x # Head(q)
  PROVE  Precedes(Tail(q), x, y)
<1>1. /\ q \in Seq(S) /\ Len(q) \in Nat
      /\ Head(q) = q[1]
      /\ Len(Tail(q)) = Len(q) - 1
      /\ \A p \in 1..Len(Tail(q)) : Tail(q)[p] = q[p+1]
  BY HeadTailProperties, LenProperties DEF Lists
<1>2. PICK j \in 1..Len(q), k \in 1..Len(q) : j < k /\ q[j] = x /\ q[k] = y
  BY DEF Precedes
<1>3. j - 1 \in 1..Len(Tail(q)) /\ k - 1 \in 1..Len(Tail(q)) /\ j - 1 < k - 1
  BY <1>1, <1>2
<1>4. Tail(q)[j-1] = x /\ Tail(q)[k-1] = y
  BY <1>1, <1>2, <1>3
<1>5. QED
  BY <1>3, <1>4 DEF Precedes

-----------------------------------------------------------------------------
(***************************************************************************)
(* Sequences element by element.                                           *)
(***************************************************************************)

\* A sequence is the concatenation of two others if it holds their elements.
LEMMA ConcatIs ==
  ASSUME NEW S, NEW s \in Seq(S), NEW t \in Seq(S), NEW r \in Seq(S),
         Len(r) = Len(s) + Len(t),
         \A i \in 1..Len(r) : r[i] = IF i <= Len(s) THEN s[i] ELSE t[i - Len(s)]
  PROVE  s \o t = r
<1>1. /\ s \o t \in Seq(S) /\ Len(s \o t) = Len(s) + Len(t)
      /\ \A i \in 1..Len(s) + Len(t) : (s \o t)[i] = IF i <= Len(s) THEN s[i] ELSE t[i - Len(s)]
  BY ConcatProperties, Zenon
<1>2. Len(s \o t) = Len(r) /\ \A i \in 1..Len(s \o t) : (s \o t)[i] = r[i]
  BY <1>1
<1>3. QED
  BY <1>1, <1>2, SeqEqual

-----------------------------------------------------------------------------
\* Among some numbers there is a least one.
LEMMA LeastNumber ==
  ASSUME NEW T, T \subseteq Nat, T # {}
  PROVE  \E m \in T : \A n \in T : m <= n
<1> DEFINE less == {p \in Nat \X Nat : p[1] < p[2]}
<1>1. IsWellFoundedOn(less, Nat)
  BY NatLessThanWellFounded DEF OpToRel
<1> HIDE DEF less
<1>2. PICK m \in T : \A n \in T : ~ (<<n, m>> \in less)
  BY <1>1, WFMin
<1>3. ASSUME NEW n \in T PROVE m <= n
  <2>1. n \in Nat /\ m \in Nat
    OBVIOUS
  <2>2. n < m => <<n, m>> \in less
    BY <2>1 DEF less
  <2> QED
    BY <1>2, <2>1, <2>2
<1> QED
  BY <1>3

\* A set of numbers that holds 0, and with a number the next one, holds them all.
LEMMA CountingUp ==
  ASSUME NEW G, 0 \in G, \A n \in Nat : n \in G => n + 1 \in G
  PROVE  \A n \in Nat : n \in G
<1> DEFINE left == {n \in Nat : n \notin G}
<1>1. SUFFICES ASSUME left # {} PROVE FALSE
  OBVIOUS
<1>2. PICK m \in left : \A n \in left : m <= n
  BY <1>1, LeastNumber
<1>3. m \in Nat /\ m \notin G /\ m # 0
  BY <1>2
<1>4. m - 1 \in left
  BY <1>3
<1> QED
  BY <1>2, <1>3, <1>4

\* Two functions that begin alike, and go on alike from alike values, are alike.
LEMMA AlikeAsFarAs ==
  ASSUME NEW L \in Nat, NEW f, NEW g, f[0] = g[0],
         \A n \in 1..L : f[n - 1] = g[n - 1] => f[n] = g[n]
  PROVE  f[L] = g[L]
<1> DEFINE G == {n \in Nat : n <= L => f[n] = g[n]}
<1>1. 0 \in G
  OBVIOUS
<1>2. ASSUME NEW n \in Nat, n \in G PROVE n + 1 \in G
  <2>1. CASE n + 1 <= L
    <3>1. n + 1 \in 1..L /\ (n + 1) - 1 = n /\ f[n] = g[n]
      BY <1>2, <2>1
    <3> QED
      BY <3>1
  <2>2. CASE ~ (n + 1 <= L)
    BY <2>2
  <2> QED
    BY <2>1, <2>2
<1>3. \A n \in Nat : n \in G
  <2> HIDE DEF G
  <2>1. \A n \in Nat : n \in G => n + 1 \in G
    BY <1>2
  <2> QED
    BY <1>1, <2>1, CountingUp, Zenon
<1> QED
  BY <1>3

\* What is computed from the left, one step for every place of a sequence.
FoldSteps(L, X) == [1..L -> [X -> X]]
Folds(L, X, base, step) ==
  {f \in [0..L -> X] : f[0] = base /\ \A n \in 1..L : f[n] = step[n][f[n - 1]]}

LEMMA FoldIsDefined ==
  ASSUME NEW L \in Nat, NEW X, NEW base \in X, NEW step \in FoldSteps(L, X)
  PROVE  Folds(L, X, base, step) # {}
<1> USE DEF FoldSteps
<1> DEFINE Upto(m) == \E f \in [0..m -> X] :
                        f[0] = base /\ \A n \in 1..m : f[n] = step[n][f[n - 1]]
           G == {m \in Nat : m <= L => Upto(m)}
<1>1. 0 \in G
  <2>1. [n \in 0..0 |-> base] \in [0..0 -> X]
    OBVIOUS
  <2>2. [n \in 0..0 |-> base][0] = base /\ 1..0 = {}
    OBVIOUS
  <2> QED
    BY <2>1, <2>2
<1>2. ASSUME NEW m \in Nat, m \in G PROVE m + 1 \in G
  <2>1. CASE m + 1 <= L
    <3>1. PICK f \in [0..m -> X] : f[0] = base /\ \A n \in 1..m : f[n] = step[n][f[n - 1]]
      BY <1>2, <2>1
    <3> DEFINE g == [n \in 0..(m + 1) |-> IF n <= m THEN f[n] ELSE step[m + 1][f[m]]]
    <3>2. step[m + 1][f[m]] \in X
      BY <2>1, <3>1
    <3>3. g \in [0..(m + 1) -> X]
      BY <3>2
    <3>4. g[0] = base
      BY <3>1
    <3>5. ASSUME NEW n \in 1..(m + 1) PROVE g[n] = step[n][g[n - 1]]
      <4>1. g[n - 1] = f[n - 1]
        OBVIOUS
      <4>2. CASE n <= m
        <5>1. g[n] = f[n] /\ n \in 1..m
          BY <4>2
        <5> QED
          BY <3>1, <4>1, <5>1
      <4>3. CASE n = m + 1
        <5>1. g[n] = step[m + 1][f[m]] /\ n - 1 = m
          BY <4>3
        <5> QED
          BY <4>1, <4>3, <5>1
      <4> QED
        BY <4>2, <4>3
    <3>6. Upto(m + 1)
      BY <3>3, <3>4, <3>5
    <3> QED
      BY <3>6, SMTT(20)
  <2>2. CASE ~ (m + 1 <= L)
    <3> HIDE DEF Upto
    <3> QED
      BY <2>2
  <2> QED
    BY <2>1, <2>2
<1>3. \A m \in Nat : m \in G
  <2> HIDE DEF G
  <2>1. \A n \in Nat : n \in G => n + 1 \in G
    BY <1>2
  <2> QED
    BY <1>1, <2>1, CountingUp, Zenon
<1>4. Upto(L)
  BY <1>3
<1> QED
  BY <1>4 DEF Folds
\* Keep is a fold from the left.
LEMMA KeepIsAFold ==
  ASSUME NEW S, NEW s \in Seq(S), NEW I
  PROVE  \E f \in [0..Len(s) -> Seq(S)] :
           /\ f[0] = <<>>
           /\ \A n \in 1..Len(s) : f[n] = IF n \in I THEN Append(f[n - 1], s[n]) ELSE f[n - 1]
           /\ Keep(s, I) = f[Len(s)]
<1> DEFINE L == Len(s)
           step == [n \in 1..L |-> [q \in Seq(S) |-> IF n \in I THEN Append(q, s[n]) ELSE q]]
           X == Seq(S)
           Next(f, n) == IF n = 0 THEN <<>>
                         ELSE IF n \in I THEN Append(f[n - 1], s[n]) ELSE f[n - 1]
           kept == CHOOSE f : f = [n \in 0..L |-> Next(f, n)]
<1>1. L \in Nat /\ (\A n \in 1..L : s[n] \in S)
  BY LenProperties, ElementOfSeq
<1>2. <<>> \in X /\ step \in FoldSteps(L, X)
  BY <1>1, AppendProperties, EmptySeq DEF FoldSteps
<1>3. PICK f \in [0..L -> X] :
        f[0] = <<>> /\ \A n \in 1..L : f[n] = step[n][f[n - 1]]
  <2>1. Folds(L, X, <<>>, step) # {}
    <3> HIDE DEF step, L, X
    <3> QED
      BY <1>1, <1>2, FoldIsDefined
  <2> HIDE DEF step, L, X
  <2> QED
    BY <2>1 DEF Folds
<1>4. \A n \in 1..L : n - 1 \in 0..L /\ f[n - 1] \in Seq(S)
                      /\ f[n] = IF n \in I THEN Append(f[n - 1], s[n]) ELSE f[n - 1]
  <2> TAKE n \in 1..L
  <2>1. n - 1 \in 0..L
    BY <1>1
  <2>2. f[n - 1] \in Seq(S)
    BY <2>1, <1>3
  <2>3. step[n][f[n - 1]] = IF n \in I THEN Append(f[n - 1], s[n]) ELSE f[n - 1]
    BY <2>2
  <2> QED
    BY <2>1, <2>2, <2>3, <1>3
<1>5. f = [n \in 0..L |-> Next(f, n)]
  <2>1. \A n \in 0..L : f[n] = Next(f, n)
    <3>1. f[0] = Next(f, 0)
      BY <1>3
    <3>2. \A n \in 0..L : n = 0 \/ n \in 1..L
      BY <1>1
    <3>3. \A n \in 1..L : n # 0
      BY <1>1
    <3> HIDE DEF step, L
    <3> QED
      BY <3>1, <3>2, <3>3, <1>4, Zenon
  <2> HIDE DEF Next
  <2> QED
    BY <2>1, <1>3
<1>6. kept = [n \in 0..L |-> Next(kept, n)]
  <2> HIDE DEF Next
  <2> QED
    BY <1>5
<1>7. Keep(s, I) = kept[L]
  BY DEF Keep
<1> HIDE DEF kept
<1>8. \A n \in 0..L : kept[n] = Next(kept, n)
  <2> HIDE DEF Next
  <2> QED
    BY <1>6, Zenon
<1>9. \A n \in Nat : n <= L => kept[n] = f[n]
  <2> DEFINE G == {n \in Nat : n <= L => kept[n] = f[n]}
  <2>1. 0 \in G
    BY <1>1, <1>3, <1>8
  <2>2. ASSUME NEW n \in Nat, n \in G PROVE n + 1 \in G
    <3>1. CASE n + 1 <= L
      <4>1. n + 1 \in 1..L /\ n + 1 \in 0..L /\ (n + 1) - 1 = n /\ kept[n] = f[n]
        BY <2>2, <3>1, <1>1
      <4>2. kept[n + 1] = Next(kept, n + 1)
        BY <1>8, <4>1
      <4>3. kept[n + 1] = f[n + 1]
        BY <4>1, <4>2, <1>4
      <4> QED
        BY <4>3
    <3> QED
      BY <3>1, <1>1
  <2>3. \A n \in Nat : n \in G => n + 1 \in G
    BY <2>2
  <2>4. \A n \in Nat : n \in G
    <3> HIDE DEF G
    <3> QED
      BY <2>1, <2>3, CountingUp, Zenon
  <2> QED
    BY <2>4
<1>10. f \in [0..Len(s) -> Seq(S)] /\ f[0] = <<>>
  BY <1>3
<1>11. \A n \in 1..Len(s) : f[n] = IF n \in I THEN Append(f[n - 1], s[n]) ELSE f[n - 1]
  BY <1>4
<1>12. Keep(s, I) = f[Len(s)]
  BY <1>1, <1>7, <1>9
<1> QED
  BY <1>10, <1>11, <1>12, Zenon

\* What is kept comes from the places asked for, and all of them.
LEMMA KeepElements ==
  ASSUME NEW S, NEW s \in Seq(S), NEW I
  PROVE  /\ Keep(s, I) \in Seq(S) /\ Len(Keep(s, I)) <= Len(s)
         /\ \A j \in 1..Len(Keep(s, I)) : \E i \in 1..Len(s) : i \in I /\ Keep(s, I)[j] = s[i]
         /\ \A i \in 1..Len(s) : i \in I => \E j \in 1..Len(Keep(s, I)) : Keep(s, I)[j] = s[i]
<1>1. PICK f \in [0..Len(s) -> Seq(S)] :
        /\ f[0] = <<>>
        /\ \A n \in 1..Len(s) : f[n] = IF n \in I THEN Append(f[n - 1], s[n]) ELSE f[n - 1]
        /\ Keep(s, I) = f[Len(s)]
  BY KeepIsAFold, Z3
<1>2. Len(s) \in Nat /\ \A n \in 1..Len(s) : s[n] \in S
  BY LenProperties, ElementOfSeq
<1> DEFINE Good(n) ==
      /\ Len(f[n]) <= n
      /\ \A j \in 1..Len(f[n]) : \E i \in 1..n : i \in I /\ f[n][j] = s[i]
      /\ \A i \in 1..n : i \in I => \E j \in 1..Len(f[n]) : f[n][j] = s[i]
<1>3. \A n \in Nat : n <= Len(s) => Good(n)
  <2> DEFINE G == {n \in Nat : n <= Len(s) => Good(n)}
  <2>1. 0 \in G
    BY <1>1, EmptySeq
  <2>2. ASSUME NEW n \in Nat, n \in G PROVE n + 1 \in G
    <3>1. CASE n + 1 <= Len(s)
      <4>1. Good(n) /\ n + 1 \in 1..Len(s) /\ (n + 1) - 1 = n /\ n \in 0..Len(s)
        BY <2>2, <3>1, <1>2
      <4>2. f[n] \in Seq(S) /\ Len(f[n]) \in Nat /\ s[n + 1] \in S
        BY <4>1, <1>1, <1>2, LenProperties
      <4>3. f[n + 1] = IF n + 1 \in I THEN Append(f[n], s[n + 1]) ELSE f[n]
        BY <4>1, <1>1
      <4>4. CASE n + 1 \in I
        <5> DEFINE q == f[n]  x == s[n + 1]
        <5>1. f[n + 1] = Append(q, x)
          BY <4>3, <4>4
        <5>2. /\ Len(Append(q, x)) = Len(q) + 1
              /\ \A j \in 1..Len(q) : Append(q, x)[j] = q[j]
              /\ Append(q, x)[Len(q) + 1] = x
          BY <4>2, AppendProperties
        <5>3. /\ Len(q) \in Nat /\ Len(q) <= n
              /\ \A j \in 1..Len(q) : \E i \in 1..n : i \in I /\ q[j] = s[i]
              /\ \A i \in 1..n : i \in I => \E j \in 1..Len(q) : q[j] = s[i]
          BY <4>1, <4>2
        <5> HIDE DEF q
        <5>4. Len(f[n + 1]) <= n + 1
          BY <5>1, <5>2, <5>3
        <5>5. \A j \in 1..Len(f[n + 1]) : \E i \in 1..(n + 1) : i \in I /\ f[n + 1][j] = s[i]
          BY <5>1, <5>2, <5>3, <4>4
        <5>6. \A i \in 1..(n + 1) : i \in I => \E j \in 1..Len(f[n + 1]) : f[n + 1][j] = s[i]
          <6>1. ASSUME NEW i \in 1..(n + 1), i \in I
                PROVE  \E j \in 1..Len(f[n + 1]) : f[n + 1][j] = s[i]
            <7>1. CASE i = n + 1
              <8>1. Len(q) + 1 \in 1..Len(f[n + 1]) /\ f[n + 1][Len(q) + 1] = s[i]
                BY <7>1, <5>1, <5>2, <5>3
              <8> QED
                BY <8>1
            <7>2. CASE i # n + 1
              <8>1. PICK j \in 1..Len(q) : q[j] = s[i]
                BY <7>2, <6>1, <5>3
              <8>2. j \in 1..Len(f[n + 1]) /\ f[n + 1][j] = s[i]
                BY <8>1, <5>1, <5>2, <5>3
              <8> QED
                BY <8>2
            <7> QED
              BY <7>1, <7>2
          <6> QED
            BY <6>1
        <5> QED
          BY <5>4, <5>5, <5>6
      <4>5. CASE n + 1 \notin I
        <5>1. f[n + 1] = f[n]
          BY <4>3, <4>5
        <5>2. Good(n + 1)
          BY <5>1, <4>1, <4>2, <4>5
        <5> QED
          BY <5>2
      <4> QED
        BY <4>4, <4>5
    <3>2. CASE ~ (n + 1 <= Len(s))
      <4> HIDE DEF Good
      <4> QED
        BY <3>2
    <3> QED
      BY <3>1, <3>2
  <2>3. \A n \in Nat : n \in G => n + 1 \in G
    BY <2>2
  <2>4. \A n \in Nat : n \in G
    <3> HIDE DEF G
    <3> QED
      BY <2>1, <2>3, CountingUp, Zenon
  <2> QED
    BY <2>4
<1>4. Good(Len(s))
  <2> HIDE DEF Good
  <2> QED
    BY <1>2, <1>3
<1>5. f[Len(s)] \in Seq(S)
  BY <1>1, <1>2
<1> QED
  BY <1>1, <1>4, <1>5

\* What is kept of a sequence without repetition has none.
LEMMA KeepOnce ==
  ASSUME NEW S, NEW s \in Seq(S), NEW I
  PROVE  (\A i, j \in 1..Len(s) : s[i] = s[j] => i = j) =>
           \A i, j \in 1..Len(Keep(s, I)) : Keep(s, I)[i] = Keep(s, I)[j] => i = j
<1>1. PICK f \in [0..Len(s) -> Seq(S)] :
        /\ f[0] = <<>>
        /\ \A n \in 1..Len(s) : f[n] = IF n \in I THEN Append(f[n - 1], s[n]) ELSE f[n - 1]
        /\ Keep(s, I) = f[Len(s)]
  BY KeepIsAFold, Z3
<1>2. Len(s) \in Nat /\ \A n \in 1..Len(s) : s[n] \in S
  BY LenProperties, ElementOfSeq
<1> SUFFICES ASSUME \A i, j \in 1..Len(s) : s[i] = s[j] => i = j
             PROVE  \A i, j \in 1..Len(Keep(s, I)) : Keep(s, I)[i] = Keep(s, I)[j] => i = j
  OBVIOUS
<1> DEFINE Good(n) ==
      /\ \A j \in 1..Len(f[n]) : \E i \in 1..n : f[n][j] = s[i]
      /\ \A i, j \in 1..Len(f[n]) : f[n][i] = f[n][j] => i = j
<1>3. \A n \in Nat : n <= Len(s) => Good(n)
  <2> DEFINE G == {n \in Nat : n <= Len(s) => Good(n)}
  <2>1. 0 \in G
    BY <1>1, EmptySeq
  <2>2. ASSUME NEW n \in Nat, n \in G PROVE n + 1 \in G
    <3>1. CASE n + 1 <= Len(s)
      <4>1. Good(n) /\ n + 1 \in 1..Len(s) /\ (n + 1) - 1 = n /\ n \in 0..Len(s)
        <5> HIDE DEF Good
        <5>1. n <= Len(s) => Good(n)
          BY <2>2
        <5> QED
          BY <5>1, <3>1, <1>2
      <4>2. f[n] \in Seq(S) /\ Len(f[n]) \in Nat /\ s[n + 1] \in S
        BY <4>1, <1>1, <1>2, LenProperties
      <4>3. f[n + 1] = IF n + 1 \in I THEN Append(f[n], s[n + 1]) ELSE f[n]
        BY <4>1, <1>1
      <4>4. CASE n + 1 \in I
        <5> DEFINE q == f[n]  x == s[n + 1]
        <5>1. f[n + 1] = Append(q, x)
          BY <4>3, <4>4
        <5>2. /\ Len(Append(q, x)) = Len(q) + 1
              /\ \A j \in 1..Len(q) : Append(q, x)[j] = q[j]
              /\ Append(q, x)[Len(q) + 1] = x
          BY <4>2, AppendProperties
        <5>3. /\ Len(q) \in Nat
              /\ \A j \in 1..Len(q) : \E i \in 1..n : q[j] = s[i]
              /\ \A i, j \in 1..Len(q) : q[i] = q[j] => i = j
          BY <4>1, <4>2
        <5>4. \A j \in 1..Len(q) : q[j] # x
          BY <5>3, <4>1, <1>2
        <5> HIDE DEF q, x
        <5>5. \A j \in 1..Len(f[n + 1]) : \E i \in 1..(n + 1) : f[n + 1][j] = s[i]
          BY <5>1, <5>2, <5>3 DEF x
        <5>6. \A i, j \in 1..Len(f[n + 1]) : f[n + 1][i] = f[n + 1][j] => i = j
          BY <5>1, <5>2, <5>3, <5>4
        <5> QED
          BY <5>5, <5>6
      <4>5. CASE n + 1 \notin I
        <5>1. f[n + 1] = f[n]
          BY <4>3, <4>5
        <5>2. Good(n + 1)
          BY <5>1, <4>1, <4>2, <4>5
        <5> QED
          BY <5>2
      <4> QED
        BY <4>4, <4>5
    <3>2. CASE ~ (n + 1 <= Len(s))
      <4> HIDE DEF Good
      <4> QED
        BY <3>2
    <3> QED
      BY <3>1, <3>2
  <2>3. \A n \in Nat : n \in G => n + 1 \in G
    BY <2>2
  <2>4. \A n \in Nat : n \in G
    <3> HIDE DEF G
    <3> QED
      BY <2>1, <2>3, CountingUp, Zenon
  <2> QED
    BY <2>4
<1>4. Good(Len(s))
  <2> HIDE DEF Good
  <2> QED
    BY <1>2, <1>3
<1> QED
  BY <1>1, <1>4

\* Of a sequence from which only a beginning is dropped the rest is kept as it is.
LEMMA KeepRest ==
  ASSUME NEW S, NEW s \in Seq(S), NEW m \in 0..Len(s), NEW I,
         \A i \in 1..Len(s) : i \in I <=> i > m
  PROVE  /\ Len(Keep(s, I)) = Len(s) - m
         /\ \A i \in 1..(Len(s) - m) : Keep(s, I)[i] = s[m + i]
<1>1. PICK f \in [0..Len(s) -> Seq(S)] :
        /\ f[0] = <<>>
        /\ \A n \in 1..Len(s) : f[n] = IF n \in I THEN Append(f[n - 1], s[n]) ELSE f[n - 1]
        /\ Keep(s, I) = f[Len(s)]
  BY KeepIsAFold, ZenonT(30)
<1>2. Len(s) \in Nat /\ m \in Nat /\ \A n \in 1..Len(s) : s[n] \in S
  BY LenProperties, ElementOfSeq
<1> DEFINE Good(n) ==
      /\ n <= m => Len(f[n]) = 0
      /\ n > m => /\ Len(f[n]) = n - m
                  /\ \A i \in 1..(n - m) : f[n][i] = s[m + i]
<1>3. \A n \in Nat : n <= Len(s) => Good(n)
  <2> DEFINE G == {n \in Nat : n <= Len(s) => Good(n)}
  <2>1. 0 \in G
    BY <1>1, <1>2, EmptySeq
  <2>2. ASSUME NEW n \in Nat, n \in G PROVE n + 1 \in G
    <3>1. CASE n + 1 <= Len(s)
      <4>1. Good(n) /\ n + 1 \in 1..Len(s) /\ (n + 1) - 1 = n /\ n \in 0..Len(s)
        BY <2>2, <3>1, <1>2
      <4>2. f[n] \in Seq(S) /\ Len(f[n]) \in Nat /\ s[n + 1] \in S
        BY <4>1, <1>1, <1>2, LenProperties
      <4>3. f[n + 1] = IF n + 1 \in I THEN Append(f[n], s[n + 1]) ELSE f[n]
        BY <4>1, <1>1
      <4>4. CASE n + 1 > m
        <5> DEFINE q == f[n]  x == s[n + 1]
        <5>1. f[n + 1] = Append(q, x)
          BY <4>1, <4>3, <4>4
        <5>2. /\ Len(Append(q, x)) = Len(q) + 1
              /\ \A j \in 1..Len(q) : Append(q, x)[j] = q[j]
              /\ Append(q, x)[Len(q) + 1] = x
          BY <4>2, AppendProperties
        <5>3. Len(q) = n - m /\ (\A i \in 1..(n - m) : q[i] = s[m + i]) /\ n - m \in Nat
          BY <4>1, <4>2, <4>4, <1>2
        <5> HIDE DEF q
        <5>4. Len(f[n + 1]) = (n + 1) - m
          BY <5>1, <5>2, <5>3, <1>2
        <5>5. ASSUME NEW i \in 1..((n + 1) - m) PROVE f[n + 1][i] = s[m + i]
          <6>1. CASE i \in 1..(n - m)
            BY <6>1, <5>1, <5>2, <5>3
          <6>2. CASE i = (n - m) + 1
            <7>1. m + i = n + 1
              BY <6>2, <1>2
            <7> QED
              BY <7>1, <6>2, <5>1, <5>2, <5>3
          <6> QED
            BY <6>1, <6>2, <1>2, <5>3
        <5> QED
          BY <5>4, <5>5, <4>4, <1>2
      <4>5. CASE ~ (n + 1 > m)
        <5>1. f[n + 1] = f[n]
          BY <4>1, <4>3, <4>5
        <5> QED
          BY <5>1, <4>1, <4>5, <1>2
      <4> QED
        BY <4>4, <4>5
    <3>2. CASE ~ (n + 1 <= Len(s))
      <4> HIDE DEF Good
      <4> QED
        BY <3>2
    <3> QED
      BY <3>1, <3>2
  <2>3. \A n \in Nat : n \in G => n + 1 \in G
    BY <2>2
  <2>4. \A n \in Nat : n \in G
    <3> HIDE DEF G
    <3> QED
      BY <2>1, <2>3, CountingUp, Zenon
  <2> QED
    BY <2>4
<1>4. Good(Len(s))
  <2> HIDE DEF Good
  <2> QED
    BY <1>2, <1>3
<1>5. CASE m = Len(s)
  <2>1. Len(f[Len(s)]) = 0
    BY <1>2, <1>4, <1>5
  <2>2. Len(Keep(s, I)) = 0
    BY <1>1, <2>1, Zenon
  <2>3. Len(s) - m = 0
    BY <1>2, <1>5
  <2> HIDE DEF Good
  <2> QED
    BY <2>2, <2>3
<1>6. CASE m < Len(s)
  <2>1. /\ Len(f[Len(s)]) = Len(s) - m
        /\ \A i \in 1..(Len(s) - m) : f[Len(s)][i] = s[m + i]
    BY <1>2, <1>4, <1>6
  <2> HIDE DEF Good
  <2> QED
    BY <1>1, <2>1, Zenon
<1> HIDE DEF Good
<1> QED
  BY <1>2, <1>5, <1>6

-----------------------------------------------------------------------------
\* The first n of a sequence, the others, and some in between.
LEMMA FrontOf ==
  ASSUME NEW S, NEW s \in Seq(S), NEW n \in 0..Len(s)
  PROVE  /\ SubSeq(s, 1, n) \in Seq(S) /\ Len(SubSeq(s, 1, n)) = n
         /\ \A i \in 1..n : SubSeq(s, 1, n)[i] = s[i]
<1> DEFINE t == SubSeq(s, 1, n)
<1>1. Len(s) \in Nat /\ n \in Nat
  BY LenProperties
<1>2. 1 \in Int /\ n \in Int /\ \A i \in 1..n : s[i] \in S
  <2>1. \A i \in 1..n : i \in 1..Len(s)
    BY <1>1
  <2> QED
    BY <1>1, <2>1, ElementOfSeq
<1>3. /\ t \in Seq(S) /\ Len(t) = (IF 1 <= n THEN n - 1 + 1 ELSE 0)
      /\ \A i \in 1..(n - 1 + 1) : t[i] = s[1 + i - 1]
  BY <1>2, SubSeqProperties
<1>4. n - 1 + 1 = n /\ \A i \in 1..n : 1 + i - 1 = i
  BY <1>1
<1> HIDE DEF t
<1>5. t \in Seq(S) /\ Len(t) = n /\ \A i \in 1..n : t[i] = s[i]
  BY <1>1, <1>3, <1>4
<1> QED
  BY <1>5 DEF t

LEMMA BackOf ==
  ASSUME NEW S, NEW s \in Seq(S), NEW n \in 0..Len(s)
  PROVE  /\ SubSeq(s, n + 1, Len(s)) \in Seq(S) /\ Len(SubSeq(s, n + 1, Len(s))) = Len(s) - n
         /\ \A i \in 1..(Len(s) - n) : SubSeq(s, n + 1, Len(s))[i] = s[n + i]
<1> DEFINE L == Len(s)
           t == SubSeq(s, n + 1, L)
<1>1. L \in Nat /\ n \in Nat /\ n <= L
  BY LenProperties
<1>2. n + 1 \in Int /\ L \in Int /\ \A i \in (n + 1)..L : s[i] \in S
  <2>1. \A i \in (n + 1)..L : i \in 1..L
    <3> HIDE DEF L
    <3> QED
      BY <1>1
  <2> QED
    BY <1>1, <2>1, ElementOfSeq
<1>3. /\ t \in Seq(S) /\ Len(t) = (IF n + 1 <= L THEN L - (n + 1) + 1 ELSE 0)
      /\ \A i \in 1..(L - (n + 1) + 1) : t[i] = s[(n + 1) + i - 1]
  BY <1>2, SubSeqProperties
<1> HIDE DEF t, L
<1>4. L - (n + 1) + 1 = L - n /\ (n + 1 <= L \/ L - n = 0) /\ \A i \in 1..(L - n) : (n + 1) + i - 1 = n + i
  BY <1>1
<1>5. t \in Seq(S) /\ Len(t) = L - n /\ \A i \in 1..(L - n) : t[i] = s[n + i]
  BY <1>3, <1>4
<1> QED
  BY <1>5 DEF t, L

LEMMA MiddleOf ==
  ASSUME NEW S, NEW s \in Seq(S), NEW a \in Nat, NEW b \in Nat, a <= b, b <= Len(s)
  PROVE  /\ SubSeq(s, a + 1, b) \in Seq(S) /\ Len(SubSeq(s, a + 1, b)) = b - a
         /\ \A i \in 1..(b - a) : SubSeq(s, a + 1, b)[i] = s[a + i]
<1> DEFINE t == SubSeq(s, a + 1, b)
<1>1. Len(s) \in Nat
  BY LenProperties
<1>2. a + 1 \in Int /\ b \in Int /\ \A i \in (a + 1)..b : s[i] \in S
  <2>1. \A i \in (a + 1)..b : i \in 1..Len(s)
    BY <1>1
  <2> QED
    BY <2>1, ElementOfSeq
<1>3. /\ t \in Seq(S) /\ Len(t) = (IF a + 1 <= b THEN b - (a + 1) + 1 ELSE 0)
      /\ \A i \in 1..(b - (a + 1) + 1) : t[i] = s[(a + 1) + i - 1]
  BY <1>2, SubSeqProperties
<1> HIDE DEF t
<1>4. b - (a + 1) + 1 = b - a /\ (a + 1 <= b \/ b - a = 0) /\ \A i \in 1..(b - a) : (a + 1) + i - 1 = a + i
  OBVIOUS
<1>5. t \in Seq(S) /\ Len(t) = b - a /\ \A i \in 1..(b - a) : t[i] = s[a + i]
  BY <1>3, <1>4
<1> QED
  BY <1>5 DEF t

\* One sequence behind the other.
LEMMA JoinIs ==
  ASSUME NEW S, NEW s \in Seq(S), NEW t \in Seq(S)
  PROVE  /\ s \o t \in Seq(S) /\ Len(s \o t) = Len(s) + Len(t)
         /\ \A i \in 1..Len(s) : (s \o t)[i] = s[i]
         /\ \A i \in 1..Len(t) : (s \o t)[Len(s) + i] = t[i]
<1> DEFINE u == s \o t
<1>1. Len(s) \in Nat /\ Len(t) \in Nat
  BY LenProperties
<1>2. /\ u \in Seq(S) /\ Len(u) = Len(s) + Len(t)
      /\ \A i \in 1..Len(s) + Len(t) : u[i] = IF i <= Len(s) THEN s[i] ELSE t[i - Len(s)]
  BY ConcatProperties
<1> HIDE DEF u
<1>3. ASSUME NEW i \in 1..Len(s) PROVE u[i] = s[i]
  <2>1. i \in 1..Len(s) + Len(t) /\ i <= Len(s)
    BY <1>1
  <2> QED
    BY <1>2, <2>1
<1>4. ASSUME NEW i \in 1..Len(t) PROVE u[Len(s) + i] = t[i]
  <2>1. Len(s) + i \in 1..Len(s) + Len(t) /\ ~(Len(s) + i <= Len(s)) /\ (Len(s) + i) - Len(s) = i
    BY <1>1
  <2> QED
    BY <1>2, <2>1
<1> QED
  BY <1>2, <1>3, <1>4 DEF u

-----------------------------------------------------------------------------
\* One element more makes a set larger by one at most.
LEMMA OneElementMore ==
  ASSUME NEW S, NEW T, NEW x, IsFiniteSet(S), T \subseteq S \cup {x}
  PROVE  Cardinality(T) <= Cardinality(S) + 1 /\ Cardinality(S) \in Nat /\ Cardinality(T) \in Nat
<1>1. /\ IsFiniteSet(S \cup {x})
      /\ Cardinality(S \cup {x}) = IF x \in S THEN Cardinality(S) ELSE Cardinality(S) + 1
  BY FS_AddElement
<1>2. T \in SUBSET (S \cup {x})
  OBVIOUS
<1>3. IsFiniteSet(T) /\ Cardinality(T) <= Cardinality(S \cup {x})
  BY <1>1, <1>2, FS_Subset
<1>4. Cardinality(T) \in Nat /\ Cardinality(S) \in Nat
  BY <1>3, FS_CardinalityType
<1> QED
  BY <1>1, <1>3, <1>4

LEMMA Beginning ==
  ASSUME NEW s \in Seq(Nat), NEW m \in 1..Len(s)
  PROVE  /\ SubSeq(s, 1, m - 1) \in Seq(Nat) /\ Len(SubSeq(s, 1, m - 1)) = m - 1
         /\ \A i \in 1..(m - 1) : SubSeq(s, 1, m - 1)[i] = s[i]
<1> DEFINE t == SubSeq(s, 1, m - 1)
<1>1. Len(s) \in Nat /\ m \in Nat /\ m >= 1
  BY LenProperties
<1>2. 1 \in Int /\ m - 1 \in Int /\ \A i \in 1..(m - 1) : s[i] \in Nat
  <2>1. \A i \in 1..(m - 1) : i \in 1..Len(s)
    BY <1>1
  <2> QED
    BY <1>1, <2>1, ElementOfSeq
<1>3. /\ t \in Seq(Nat) /\ Len(t) = (IF 1 <= m - 1 THEN (m - 1) - 1 + 1 ELSE 0)
      /\ \A i \in 1..((m - 1) - 1 + 1) : t[i] = s[1 + i - 1]
  BY <1>2, SubSeqProperties
<1>4. (m - 1) - 1 + 1 = m - 1 /\ \A i \in 1..(m - 1) : 1 + i - 1 = i
  BY <1>1
<1> HIDE DEF t
<1>5. t \in Seq(Nat) /\ Len(t) = m - 1 /\ \A i \in 1..(m - 1) : t[i] = s[i]
  BY <1>1, <1>3, <1>4
<1> QED
  BY <1>5, Zenon DEF t

-----------------------------------------------------------------------------
(***************************************************************************)
(* Chunks of bytes, laid on what they are the end of.  Zero is a byte in   *)
(* which no character begins.                                              *)
(***************************************************************************)
\* A character of w begins behind its first i bytes, or w ends there.
BeginsAt(w, i) == i = Len(w) \/ w[i + 1] # 0

\* c is what is behind the first r bytes of b.
IsEnd(c, b, r) ==
  /\ r \in 0..Len(b) /\ c \in Seq(0..4) /\ Len(c) = Len(b) - r
  /\ \A i \in 1..Len(c) : c[i] = b[r + i]

\* The bytes s to n of an end of w: a part of an end is a part of the whole.
IsPartOfEnd(w, b, h, s, n) ==
  /\ w \in Seq(0..4) /\ IsEnd(b, w, h)
  /\ s \in Nat /\ n \in Nat /\ s <= n /\ n <= Len(b)

\* These bytes are the bytes h + s to h + n of the whole.
SameBytes(w, b, h, s, n) == SubSeq(b, s + 1, n) = SubSeq(w, (h + s) + 1, h + n)

\* What they are.
LEMMA PartOfEnd ==
  ASSUME NEW w, NEW b, NEW h, NEW s, NEW n, IsPartOfEnd(w, b, h, s, n)
  PROVE  SameBytes(w, b, h, s, n)
<1>p. w \in Seq(0..4) /\ IsEnd(b, w, h) /\ s \in Nat /\ n \in Nat /\ s <= n /\ n <= Len(b)
  BY DEF IsPartOfEnd
<1>1. /\ h \in 0..Len(w) /\ b \in Seq(0..4) /\ Len(b) = Len(w) - h
      /\ \A i \in 1..Len(b) : b[i] = w[h + i]
  BY <1>p DEF IsEnd
<1>2. Len(w) \in Nat /\ Len(b) \in Nat /\ h \in Nat
  BY <1>p, <1>1, LenProperties
<1> DEFINE x == h + s
           y == h + n
<1>3. x \in Nat /\ y \in Nat /\ x <= y /\ y <= Len(w) /\ y - x = n - s /\ n - s \in Nat
  BY <1>p, <1>1, <1>2
<1>4. \A i \in 1..(n - s) : s + i \in 1..Len(b) /\ h + (s + i) = x + i
  BY <1>p, <1>2
<1> HIDE DEF x, y
<1> DEFINE c == SubSeq(b, s + 1, n)
           d == SubSeq(w, x + 1, y)
<1>5. c \in Seq(0..4) /\ Len(c) = n - s /\ \A i \in 1..(n - s) : c[i] = b[s + i]
  BY <1>p, <1>1, MiddleOf
<1>6. d \in Seq(0..4) /\ Len(d) = y - x /\ \A i \in 1..(y - x) : d[i] = w[x + i]
  <2>1. w \in Seq(0..4) /\ x \in Nat /\ y \in Nat /\ x <= y /\ y <= Len(w)
    BY <1>p, <1>3
  <2> QED
    BY ONLY <2>1, MiddleOf
<1> HIDE DEF c, d
<1>7. ASSUME NEW i \in 1..(n - s) PROVE c[i] = d[i]
  <2>1. c[i] = b[s + i] /\ b[s + i] = w[h + (s + i)]
    BY <1>1, <1>4, <1>5
  <2> QED
    BY <1>3, <1>4, <1>6, <2>1
<1>8. c = d
  BY <1>3, <1>5, <1>6, <1>7, SeqEqual
<1> QED
  BY <1>8 DEF c, d, x, y, SameBytes

\* The chunks cs are the bytes of w behind the first e[0]; the k-th ends at e[k], and
\* where it ends a character begins.
Laid(cs, w, e) ==
  /\ e \in [0..Len(cs) -> 0..Len(w)] /\ e[Len(cs)] = Len(w)
  /\ \A j, k \in 0..Len(cs) : j <= k => e[j] <= e[k]
  /\ \A k \in 1..Len(cs) :
       /\ cs[k] \in Seq(0..4) /\ e[k] = e[k - 1] + Len(cs[k])
       /\ \A i \in 1..Len(cs[k]) : cs[k][i] = w[e[k - 1] + i]
  /\ \A k \in 0..Len(cs) : BeginsAt(w, e[k])

\* The types of all that.
LEMMA LaidFacts ==
  ASSUME NEW cs \in Seq(Seq(0..4)), NEW w \in Seq(0..4), NEW e, Laid(cs, w, e)
  PROVE  /\ Len(cs) \in Nat /\ Len(w) \in Nat
         /\ \A k \in 0..Len(cs) : e[k] \in Nat /\ e[k] <= Len(w) /\ e[k] \in 0..Len(w)
         /\ \A k \in 1..Len(cs) : cs[k] \in Seq(0..4) /\ Len(cs[k]) \in Nat /\ k - 1 \in 0..Len(cs) /\ k \in 0..Len(cs)
<1>1. Len(cs) \in Nat /\ Len(w) \in Nat
  BY LenProperties
<1>2. \A k \in 0..Len(cs) : e[k] \in 0..Len(w)
  BY Zenon DEF Laid
<1>3. \A k \in 1..Len(cs) : cs[k] \in Seq(0..4)
  BY DEF Laid
<1> QED
  BY <1>1, <1>2, <1>3, LenProperties

\* No chunks.
LEMMA NothingLaid ==
  ASSUME NEW w \in Seq(0..4)
  PROVE  \E e : Laid(<<>>, w, e) /\ e[0] = Len(w)
<1> DEFINE e == [k \in 0..0 |-> Len(w)]
<1>1. Len(w) \in Nat /\ Len(<<>>) = 0 /\ <<>> \in Seq(Seq(0..4))
  BY LenProperties, EmptySeq
<1>2. e \in [0..0 -> 0..Len(w)] /\ e[0] = Len(w) /\ \A k \in 0..0 : e[k] = Len(w)
  BY <1>1
<1> HIDE DEF e
<1>3. \A k \in 0..0 : BeginsAt(w, e[k])
  BY <1>2 DEF BeginsAt
<1>4. Laid(<<>>, w, e)
  BY <1>1, <1>2, <1>3 DEF Laid
<1> QED
  BY <1>2, <1>4

\* A text behind the chunks is one of them.
LEMMA AppendLaid ==
  ASSUME NEW cs \in Seq(Seq(0..4)), NEW w \in Seq(0..4), NEW e, Laid(cs, w, e),
         NEW t \in Seq(0..4), t # <<>>, t[1] # 0
  PROVE  \E f : Laid(Append(cs, t), w \o t, f) /\ f[0] = e[0]
<1> DEFINE L == Len(cs)
           ds == Append(cs, t)
           u == w \o t
           f == [k \in 0..(L + 1) |-> IF k <= L THEN e[k] ELSE Len(w) + Len(t)]
<1>1. /\ L \in Nat /\ Len(w) \in Nat /\ Len(t) \in Nat /\ Len(t) > 0
      /\ \A k \in 0..L : e[k] \in Nat /\ e[k] <= Len(w)
  BY LaidFacts, LenProperties, EmptySeq
<1>2. /\ ds \in Seq(Seq(0..4)) /\ Len(ds) = L + 1 /\ ds[L + 1] = t
      /\ \A k \in 1..L : ds[k] = cs[k]
  BY AppendProperties
<1>3. /\ u \in Seq(0..4) /\ Len(u) = Len(w) + Len(t)
      /\ \A i \in 1..Len(w) : u[i] = w[i]
      /\ \A i \in 1..Len(t) : u[Len(w) + i] = t[i]
  BY JoinIs
<1> HIDE DEF ds, u, L
<1>4. (\A k \in 0..L : f[k] = e[k]) /\ f[L + 1] = Len(w) + Len(t) /\ e[L] = Len(w)
  BY <1>1 DEF Laid, L
<1>5. f \in [0..(L + 1) -> 0..Len(u)]
  BY <1>1, <1>3
<1> HIDE DEF f
<1>6. ASSUME NEW j \in 0..(L + 1), NEW k \in 0..(L + 1), j <= k PROVE f[j] <= f[k]
  <2>1. \A i \in 0..(L + 1) : i \in 0..L \/ i = L + 1
    BY <1>1
  <2>2. CASE k \in 0..L
    <3>1. j \in 0..L
      BY <1>1, <1>6, <2>2
    <3>2. e[j] <= e[k]
      BY <1>6, <2>2, <3>1 DEF Laid, L
    <3> QED
      BY <1>4, <2>2, <3>1, <3>2
  <2>3. CASE k = L + 1
    <3>1. f[k] \in Nat /\ f[k] = Len(w) + Len(t)
      BY <1>1, <1>4, <2>3
    <3>2. CASE j \in 0..L
      <4>1. f[j] \in Nat /\ f[j] <= Len(w)
        BY <1>1, <1>4, <3>2, Zenon
      <4> QED
        BY <1>1, <3>1, <4>1
    <3>3. CASE j = L + 1
      BY <2>3, <3>1, <3>3
    <3> QED
      BY <2>1, <3>2, <3>3
  <2> QED
    BY <2>1, <2>2, <2>3
<1>7. ASSUME NEW k \in 1..(L + 1)
      PROVE  /\ ds[k] \in Seq(0..4) /\ f[k] = f[k - 1] + Len(ds[k])
             /\ \A i \in 1..Len(ds[k]) : ds[k][i] = u[f[k - 1] + i]
  <2>1. CASE k \in 1..L
    <3>1. k - 1 \in 0..L /\ k \in 0..L
      BY <1>1, <2>1
    <3>2. /\ cs[k] \in Seq(0..4) /\ e[k] = e[k - 1] + Len(cs[k])
          /\ \A i \in 1..Len(cs[k]) : cs[k][i] = w[e[k - 1] + i]
      BY <2>1, Zenon DEF Laid, L
    <3>3. e[k] \in Nat /\ e[k - 1] \in Nat /\ Len(cs[k]) \in Nat /\ e[k] <= Len(w)
      BY <1>1, <3>1, <3>2, LenProperties, Zenon
    <3>4. \A i \in 1..Len(cs[k]) : e[k - 1] + i \in 1..Len(w)
      <4> DEFINE x == e[k - 1]
                 l == Len(cs[k])
                 m == Len(w)
      <4>1. x \in Nat /\ l \in Nat /\ m \in Nat /\ x + l <= m
        BY <1>1, <3>2, <3>3
      <4> HIDE DEF x, l, m
      <4>2. \A i \in 1..l : x + i \in 1..m
        BY <4>1
      <4> QED
        BY <4>2 DEF x, l, m
    <3>5. \A i \in 1..Len(cs[k]) : cs[k][i] = u[e[k - 1] + i]
      BY <1>3, <3>2, <3>4, Zenon
    <3> QED
      BY <1>2, <1>4, <2>1, <3>1, <3>2, <3>5, Zenon
  <2>2. CASE k = L + 1
    <3>1. (L + 1) - 1 = L /\ L \in 0..L
      BY <1>1
    <3>2. f[k] = Len(w) + Len(t) /\ f[k - 1] = Len(w) /\ ds[k] = t
      BY <1>2, <1>4, <2>2, <3>1, Zenon
    <3> QED
      BY <1>3, <3>2
  <2> QED
    BY <1>1, <2>1, <2>2
<1>8. ASSUME NEW k \in 0..(L + 1) PROVE BeginsAt(u, f[k])
  <2>1. CASE k \in 0..L
    <3>1. f[k] = e[k] /\ e[k] \in Nat /\ e[k] <= Len(w) /\ BeginsAt(w, e[k])
      BY <1>1, <1>4, <2>1 DEF Laid, L
    <3>2. CASE e[k] = Len(w)
      <4>1. 1 \in 1..Len(t)
        BY <1>1
      <4>2. u[Len(w) + 1] = t[1]
        BY <1>3, <4>1
      <4> QED
        BY <3>1, <3>2, <4>2 DEF BeginsAt
    <3>3. CASE e[k] # Len(w)
      <4>1. e[k] + 1 \in 1..Len(w)
        BY <1>1, <3>1, <3>3
      <4>2. u[e[k] + 1] = w[e[k] + 1]
        BY <1>3, <4>1
      <4> QED
        BY <3>1, <3>3, <4>2 DEF BeginsAt
    <3> QED
      BY <3>2, <3>3
  <2>2. CASE k = L + 1
    <3>1. f[k] = Len(u)
      BY <1>3, <1>4, <2>2
    <3> QED
      BY <3>1 DEF BeginsAt
  <2> QED
    BY <1>1, <2>1, <2>2
<1>9. Laid(ds, u, f)
  <2>1. f[L + 1] = Len(u)
    BY <1>3, <1>4
  <2> QED
    BY <1>2, <1>5, <1>6, <1>7, <1>8, <2>1, Zenon DEF Laid
<1>10. f[0] = e[0]
  BY <1>1, <1>4
<1> QED
  BY <1>9, <1>10 DEF ds, u

\* Without the first n chunks.
IsBack(ds, cs, n) == n \in 0..Len(cs) /\ ds = SubSeq(cs, n + 1, Len(cs))

\* It lies there, from where the n-th chunk ended.
LEMMA DropLaid ==
  ASSUME NEW cs \in Seq(Seq(0..4)), NEW w \in Seq(0..4), NEW e, Laid(cs, w, e),
         NEW n, NEW ds, IsBack(ds, cs, n)
  PROVE  \E f : Laid(ds, w, f) /\ f[0] = e[n]
<1>n. n \in 0..Len(cs) /\ ds = SubSeq(cs, n + 1, Len(cs))
  BY DEF IsBack
<1> DEFINE L == Len(cs)
           m == L - n
           f == [k \in 0..m |-> e[n + k]]
<1>1. L \in Nat /\ n \in Nat /\ m \in Nat /\ n + m = L
  BY <1>n, LenProperties
<1>2. ds \in Seq(Seq(0..4)) /\ Len(ds) = m /\ \A k \in 1..m : ds[k] = cs[n + k]
  BY <1>n, BackOf
<1> HIDE DEF m
<1>3. \A k \in 0..m : f[k] = e[n + k] /\ n + k \in 0..L
  BY <1>1
<1>4. f \in [0..m -> 0..Len(w)]
  BY <1>3 DEF Laid
<1> HIDE DEF f
<1>5. ASSUME NEW j \in 0..m, NEW k \in 0..m, j <= k PROVE f[j] <= f[k]
  <2>1. n + j <= n + k
    BY <1>1, <1>5
  <2> QED
    BY <1>3, <2>1 DEF Laid
<1>6. ASSUME NEW k \in 1..m
      PROVE  /\ ds[k] \in Seq(0..4) /\ f[k] = f[k - 1] + Len(ds[k])
             /\ \A i \in 1..Len(ds[k]) : ds[k][i] = w[f[k - 1] + i]
  <2>1. k \in 0..m /\ k - 1 \in 0..m /\ n + k \in 1..L /\ n + (k - 1) = (n + k) - 1
    BY <1>1
  <2>2. f[k] = e[n + k] /\ f[k - 1] = e[(n + k) - 1] /\ ds[k] = cs[n + k]
    BY <1>2, <1>3, <2>1
  <2>3. /\ cs[n + k] \in Seq(0..4) /\ e[n + k] = e[(n + k) - 1] + Len(cs[n + k])
        /\ \A i \in 1..Len(cs[n + k]) : cs[n + k][i] = w[e[(n + k) - 1] + i]
    BY <2>1, Zenon DEF Laid
  <2> QED
    BY <2>2, <2>3
<1>7. \A k \in 0..m : BeginsAt(w, f[k])
  BY <1>3 DEF Laid
<1>8. f[m] = Len(w) /\ f[0] = e[n]
  <2>1. m \in 0..m /\ 0 \in 0..m /\ n + 0 = n
    BY <1>1
  <2> QED
    BY <1>1, <1>3, <2>1, Zenon DEF Laid
<1>9. Laid(ds, w, f)
  BY <1>2, <1>4, <1>5, <1>6, <1>7, <1>8, Zenon DEF Laid
<1> QED
  BY <1>8, <1>9

\* ds is cs without the first bytes of its first chunk, up to where the character at i
\* of w begins.
IsCut(ds, cs, w, e, i) ==
  \E r, c : /\ IsEnd(c, cs[1], r) /\ i = e[0] + r /\ BeginsAt(w, i)
            /\ ds = [cs EXCEPT ![1] = c]

\* What such a cut leaves ends where it ended, and begins at that character.
LEMMA CutLaid ==
  ASSUME NEW cs \in Seq(Seq(0..4)), NEW w \in Seq(0..4), NEW e, Laid(cs, w, e), Len(cs) > 0,
         NEW ds, NEW x, IsCut(ds, cs, w, e, x)
  PROVE  /\ ds \in Seq(Seq(0..4))
         /\ \E f : Laid(ds, w, f) /\ f[0] = x
<1>c. PICK r, c : /\ IsEnd(c, cs[1], r) /\ x = e[0] + r /\ BeginsAt(w, x)
                  /\ ds = [cs EXCEPT ![1] = c]
  BY Zenon DEF IsCut
<1> DEFINE L == Len(cs)
           f == [e EXCEPT ![0] = e[0] + r]
<1>0. /\ r \in 0..Len(cs[1]) /\ c \in Seq(0..4) /\ Len(c) = Len(cs[1]) - r
      /\ \A i \in 1..Len(c) : c[i] = cs[1][r + i]
  BY <1>c DEF IsEnd
<1>1. /\ L \in Nat /\ Len(w) \in Nat /\ 1 \in 1..L /\ 0 \in 0..L
      /\ \A k \in 0..L : e[k] \in Nat /\ e[k] <= Len(w)
  BY LaidFacts
<1>2. /\ ds \in Seq(Seq(0..4)) /\ Len(ds) = L /\ ds[1] = c
      /\ \A k \in 1..L : k # 1 => ds[k] = cs[k]
  <2>1. cs \in [1..L -> Seq(0..4)]
    BY LenProperties
  <2>2. ds \in [1..L -> Seq(0..4)]
    BY <1>c, <1>0, <2>1
  <2> QED
    BY <1>c, <1>1, <2>1, <2>2
<1>3. /\ cs[1] \in Seq(0..4) /\ e[1] = e[0] + Len(cs[1])
      /\ \A i \in 1..Len(cs[1]) : cs[1][i] = w[e[0] + i]
  <2>1. 1 - 1 = 0
    OBVIOUS
  <2> QED
    BY <1>1, <2>1 DEF Laid
<1>4. Len(cs[1]) \in Nat /\ r \in Nat /\ r <= Len(cs[1]) /\ e[0] \in Nat /\ e[1] \in Nat /\ 1 \in 0..L
  BY <1>0, <1>1, <1>3, LenProperties
<1>5. e \in [0..L -> 0..Len(w)]
  BY DEF Laid
<1>6. f[0] = e[0] + r /\ \A k \in 0..L : k # 0 => f[k] = e[k]
  BY <1>1, <1>5
<1>7. f[0] \in Nat /\ e[0] <= f[0] /\ f[0] <= e[1] /\ f[0] \in 0..Len(w)
  BY <1>1, <1>3, <1>4, <1>6
<1>8. f \in [0..L -> 0..Len(w)]
  BY <1>5, <1>6, <1>7
<1> HIDE DEF f
<1>9. ASSUME NEW j \in 0..L, NEW k \in 0..L, j <= k PROVE f[j] <= f[k]
  <2>1. e[j] <= e[k]
    BY <1>9 DEF Laid
  <2>2. CASE j # 0
    <3>1. k # 0
      BY <1>9, <2>2
    <3> QED
      BY <1>6, <2>1, <2>2, <3>1
  <2>3. CASE j = 0 /\ k = 0
    BY <1>7, <2>3
  <2>4. CASE j = 0 /\ k # 0
    <3>1. 1 <= k
      BY <1>1, <2>4
    <3>2. e[1] <= e[k] /\ e[k] \in Nat
      BY <1>1, <1>4, <3>1 DEF Laid
    <3> QED
      BY <1>4, <1>6, <1>7, <2>4, <3>2
  <2> QED
    BY <2>2, <2>3, <2>4
<1>10. ASSUME NEW k \in 1..L
       PROVE  /\ ds[k] \in Seq(0..4) /\ f[k] = f[k - 1] + Len(ds[k])
              /\ \A i \in 1..Len(ds[k]) : ds[k][i] = w[f[k - 1] + i]
  <2>1. CASE k = 1
    <3>1. f[k] = e[1] /\ f[k - 1] = e[0] + r /\ ds[k] = c
      BY <1>2, <1>4, <1>6, <2>1
    <3>2. e[1] = (e[0] + r) + Len(c)
      BY <1>0, <1>3, <1>4
    <3>3. ASSUME NEW i \in 1..Len(c) PROVE c[i] = w[(e[0] + r) + i]
      <4>1. r + i \in 1..Len(cs[1]) /\ e[0] + (r + i) = (e[0] + r) + i
        <5> DEFINE l == Len(cs[1])
                   y == e[0]
        <5>1. l \in Nat /\ y \in Nat /\ r \in Nat /\ r <= l /\ i \in 1..(l - r)
          BY <1>0, <1>4
        <5> HIDE DEF l, y
        <5>2. r + i \in 1..l /\ y + (r + i) = (y + r) + i
          BY <5>1
        <5> QED
          BY <5>2 DEF l, y
      <4>2. c[i] = cs[1][r + i] /\ cs[1][r + i] = w[e[0] + (r + i)]
        BY <1>0, <1>3, <4>1, Zenon
      <4> QED
        BY <4>1, <4>2, Zenon
    <3> QED
      BY <1>0, <3>1, <3>2, <3>3, Zenon
  <2>2. CASE k # 1
    <3>1. k - 1 \in 0..L /\ k - 1 # 0 /\ k \in 0..L /\ k # 0
      BY <1>1, <2>2
    <3>2. /\ cs[k] \in Seq(0..4) /\ e[k] = e[k - 1] + Len(cs[k])
          /\ \A i \in 1..Len(cs[k]) : cs[k][i] = w[e[k - 1] + i]
      BY DEF Laid
    <3> QED
      BY <1>2, <1>6, <2>2, <3>1, <3>2, Zenon
  <2> QED
    BY <2>1, <2>2
<1>11. ASSUME NEW k \in 0..L PROVE BeginsAt(w, f[k])
  <2>1. BeginsAt(w, e[k])
    BY DEF Laid
  <2> QED
    BY <1>c, <1>6, <2>1
<1>12. f[L] = Len(w)
  <2>1. L \in 0..L /\ L # 0 /\ e[L] = Len(w)
    BY <1>1 DEF Laid
  <2> QED
    BY <1>6, <2>1
<1>13. Laid(ds, w, f)
  BY <1>2, <1>8, <1>9, <1>10, <1>11, <1>12 DEF Laid
<1> QED
  BY <1>c, <1>2, <1>6, <1>13

\* The end of an only chunk.
LEMMA CutOneLaid ==
  ASSUME NEW b \in Seq(0..4), NEW w \in Seq(0..4), NEW e, Laid(<<b>>, w, e),
         NEW r, NEW c, IsEnd(c, b, r), BeginsAt(w, e[0] + r)
  PROVE  /\ <<c>> \in Seq(Seq(0..4))
         /\ \E f : Laid(<<c>>, w, f) /\ f[0] = e[0] + r
<1> DEFINE cs == <<b>>
           ds == <<c>>
           i == e[0] + r
<1>1. cs \in Seq(Seq(0..4)) /\ Len(cs) > 0 /\ cs[1] = b /\ ds = [cs EXCEPT ![1] = c]
  OBVIOUS
<1>2. Laid(cs, w, e) /\ IsEnd(c, cs[1], r)
  BY <1>1
<1> HIDE DEF cs, ds
<1>3. IsCut(ds, cs, w, e, i)
  BY <1>1, <1>2, Zenon DEF IsCut
<1> HIDE DEF i
<1>4. cs \in Seq(Seq(0..4)) /\ Len(cs) > 0
  BY <1>1
<1>5. ds \in Seq(Seq(0..4)) /\ \E f : Laid(ds, w, f) /\ f[0] = i
  BY <1>2, <1>3, <1>4, CutLaid
<1> QED
  BY <1>5 DEF ds, i
=============================================================================
