---------------------------- MODULE SequenceLemmas ----------------------------
(***************************************************************************)
(* Facts about the operators of SequencesExt and of Lists that the models  *)
(* use.                                                                    *)
(***************************************************************************)
EXTENDS Integers, SequencesExt, SequenceTheorems, WellFoundedInduction, TLAPS, Lists

\* A non-empty set of naturals has a least element, and Min is that element.
LEMMA MinProperty ==
    ASSUME NEW S \in SUBSET Nat, S # {}
    PROVE  Min(S) \in S /\ \A y \in S : Min(S) <= y
<1>1. PICK x \in S : \A y \in S : ~ (<<y, x>> \in OpToRel(<, Nat))
  BY NatLessThanWellFounded, WFMin, Zenon
<1>2. \A y \in S : ~ (y < x)
  BY <1>1, Zenon DEF OpToRel
<1>3. \A y \in S : x <= y
  BY <1>2
<1> QED
  BY <1>3 DEF Min

\* What holds of 0 and, up to k, of the successor of what it holds of, holds up
\* to k.  The numbers it holds of are a set, so the lemma has no operator.
LEMMA Reaches ==
    ASSUME NEW P, NEW k \in Nat, 0 \in P, \A n \in 0..(k - 1) : n \in P => n + 1 \in P
    PROVE  \A n \in 0..k : n \in P
<1> DEFINE bad == {n \in 0..k : n \notin P}
<1>1. bad = {}
  <2> SUFFICES ASSUME bad # {} PROVE FALSE
    OBVIOUS
  <2>1. bad \in SUBSET Nat
    OBVIOUS
  <2>2. Min(bad) \in bad /\ \A y \in bad : Min(bad) <= y
    <3> HIDE DEF bad
    <3> QED
      BY <2>1, MinProperty
  <2>3. PICK n : n = Min(bad)
    OBVIOUS
  <2>4. n \in 0..k /\ n \notin P /\ n # 0
    BY <2>2, <2>3
  <2>5. n - 1 \in 0..(k - 1) /\ n - 1 \in 0..k /\ (n - 1) + 1 = n /\ ~ (n <= n - 1)
    BY <2>4
  <2>6. n - 1 \in P
    BY <2>2, <2>3, <2>5
  <2> QED
    BY <2>4, <2>5, <2>6
<1> QED
  BY <1>1

\* f holds the values of a variable of a loop of k steps.
IsLoop(f, V, k, base, turn) ==
    /\ f \in [0..k -> V]
    /\ f[0] = base /\ \A n \in 1..k : f[n] = turn[n][f[n - 1]]

\* A loop of k steps runs through values of V, if every turn leads from one to
\* another.
LEMMA LoopExists ==
    ASSUME NEW V, NEW k \in Nat, NEW base \in V, NEW turn \in [1..k -> [V -> V]]
    PROVE  \E f : IsLoop(f, V, k, base, turn)
<1> DEFINE Loop(n) == \E f \in [0..n -> V] :
                        f[0] = base /\ \A i \in 1..n : f[i] = turn[i][f[i - 1]]
           done == {n \in 0..k : Loop(n)}
<1>1. Loop(0)
  <2> DEFINE f == [i \in 0..0 |-> base]
  <2>1. f \in [0..0 -> V] /\ f[0] = base /\ 1..0 = {}
    OBVIOUS
  <2> HIDE DEF f
  <2> QED
    BY <2>1
<1>2. ASSUME NEW n \in 0..(k - 1), Loop(n) PROVE Loop(n + 1)
  <2>1. PICK f \in [0..n -> V] : f[0] = base /\ \A i \in 1..n : f[i] = turn[i][f[i - 1]]
    BY <1>2
  <2> DEFINE g == [i \in 0..(n + 1) |-> IF i <= n THEN f[i] ELSE turn[n + 1][f[n]]]
  <2>2. n \in Nat /\ n + 1 \in 1..k /\ n \in 0..n /\ 0 \in 0..n
    BY <1>2
  <2>3. f[n] \in V /\ turn[n + 1] \in [V -> V]
    BY <2>1, <2>2
  <2>4. turn[n + 1][f[n]] \in V
    BY <2>3
  <2>5. g \in [0..(n + 1) -> V]
    <3>1. \A i \in 0..(n + 1) : i <= n => i \in 0..n
      BY <2>2
    <3> QED
      BY <2>1, <2>4, <3>1
  <2>6. /\ \A i \in 0..n : g[i] = f[i]
        /\ g[n + 1] = turn[n + 1][f[n]]
    BY <2>2
  <2> HIDE DEF g
  <2>7. ASSUME NEW i \in 1..(n + 1) PROVE g[i] = turn[i][g[i - 1]]
    <3>1. CASE i = n + 1
      BY <2>2, <2>6, <3>1
    <3>2. CASE i # n + 1
      <4>1. i \in 1..n /\ i \in 0..n /\ i - 1 \in 0..n
        BY <2>2, <2>7, <3>2
      <4> QED
        BY <2>1, <2>6, <4>1
    <3> QED
      BY <3>1, <3>2
  <2> QED
    BY <2>1, <2>2, <2>5, <2>6, <2>7
<1> HIDE DEF Loop
<1>3. \A n \in 0..k : n \in done
  <2>1. 0 \in done
    BY <1>1
  <2>2. \A n \in 0..(k - 1) : n \in done => n + 1 \in done
    BY <1>2
  <2> HIDE DEF done
  <2> QED
    BY <2>1, <2>2, Reaches
<1>4. Loop(k)
  BY <1>3
<1> QED
  BY <1>4 DEF Loop, IsLoop

\* Removing the k-th element moves the ones after it by one.
LEMMA RemoveAtElements ==
    ASSUME NEW R, NEW s \in Seq(R), NEW k \in 1..Len(s)
    PROVE  /\ RemoveAt(s, k) \in Seq(R)
           /\ DOMAIN RemoveAt(s, k) = 1..(Len(s) - 1)
           /\ \A i \in 1..(Len(s) - 1) :
                RemoveAt(s, k)[i] = IF i < k THEN s[i] ELSE s[i + 1]
<1> DEFINE front == SubSeq(s, 1, k - 1)
           back  == SubSeq(s, k + 1, Len(s))
<1>1. /\ front \in Seq(R) /\ Len(front) = k - 1
      /\ \A i \in 1..Len(front) : front[i] = s[i]
  BY SubSeqProperties
<1>2. /\ back \in Seq(R) /\ Len(back) = Len(s) - k
      /\ \A i \in 1..Len(back) : back[i] = s[k + i]
  BY SubSeqProperties
<1>3. RemoveAt(s, k) = front \o back
  BY DEF RemoveAt
<1> HIDE DEF front, back
<1>4. front \o back \in Seq(R) /\ Len(front \o back) = Len(s) - 1
  BY <1>1, <1>2
<1>5. ASSUME NEW i \in 1..(Len(s) - 1)
      PROVE  (front \o back)[i] = IF i < k THEN s[i] ELSE s[i + 1]
  <2>1. CASE i < k
    BY <2>1, <1>1, <1>2
  <2>2. CASE i >= k
    <3>1. (front \o back)[i] = back[i - (k - 1)]
      BY <2>2, <1>1, <1>2
    <3>2. back[i - (k - 1)] = s[k + (i - (k - 1))]
      BY <2>2, <1>2
    <3>3. k + (i - (k - 1)) = i + 1
      OBVIOUS
    <3>4. ~ (i < k)
      BY <2>2
    <3> QED
      BY <3>1, <3>2, <3>3, <3>4, Zenon
  <2>3. i < k \/ i >= k
    OBVIOUS
  <2> QED
    BY <2>1, <2>2, <2>3
<1> QED
  BY <1>3, <1>4, <1>5

\* Removing an element by position leaves a sequence of the same elements.
LEMMA RemoveAtProperties ==
    ASSUME NEW R, NEW s \in Seq(R), NEW k \in 1..Len(s)
    PROVE  /\ RemoveAt(s, k) \in Seq(R)
           /\ ToSet(RemoveAt(s, k)) \subseteq ToSet(s)
<1>1. /\ RemoveAt(s, k) \in Seq(R)
      /\ DOMAIN RemoveAt(s, k) = 1..(Len(s) - 1)
      /\ \A i \in 1..(Len(s) - 1) :
            RemoveAt(s, k)[i] = IF i < k THEN s[i] ELSE s[i + 1]
  BY RemoveAtElements
<1>2. \A i \in 1..(Len(s) - 1) : i \in DOMAIN s /\ i + 1 \in DOMAIN s
  OBVIOUS
<1> QED
  BY <1>1, <1>2 DEF ToSet

\* RemoveFirst(s, e) is a sequence of elements of s.
LEMMA RemoveFirstProperties ==
    ASSUME NEW R, NEW s \in Seq(R), NEW e
    PROVE  /\ RemoveFirst(s, e) \in Seq(R)
           /\ ToSet(RemoveFirst(s, e)) \subseteq ToSet(s)
<1> DEFINE I == {i \in 1..Len(s) : s[i] = e}
<1>1. CASE I = {}
  BY <1>1 DEF RemoveFirst
<1>2. CASE I # {}
  <2>1. Min(I) \in I
    <3> I \in SUBSET Nat
      OBVIOUS
    <3> HIDE DEF I
    <3> QED
      BY <1>2, MinProperty
  <2>2. RemoveFirst(s, e) = RemoveAt(s, Min(I))
    BY <1>2, Zenon DEF RemoveFirst, SelectInSeq
  <2>3. Min(I) \in 1..Len(s)
    BY <2>1
  <2> HIDE DEF I
  <2> QED
    BY <2>2, <2>3, RemoveAtProperties
<1> QED
  BY <1>1, <1>2

\* The elements of an extended sequence.
LEMMA AppendElements ==
    ASSUME NEW R, NEW s \in Seq(R), NEW e \in R
    PROVE  /\ Append(s, e) \in Seq(R)
           /\ ToSet(Append(s, e)) = ToSet(s) \cup {e}
<1>1. /\ Append(s, e) \in Seq(R)
      /\ DOMAIN Append(s, e) = 1..(Len(s) + 1)
      /\ \A i \in 1..Len(s) : Append(s, e)[i] = s[i]
      /\ Append(s, e)[Len(s) + 1] = e
  BY AppendProperties
<1> QED
  BY <1>1 DEF ToSet

\* Inserting an element moves the elements from that place on by one.
LEMMA InsertAtProperties ==
    ASSUME NEW R, NEW s \in Seq(R), NEW k \in 1..(Len(s) + 1), NEW e \in R
    PROVE  /\ InsertAt(s, k, e) \in Seq(R)
           /\ DOMAIN InsertAt(s, k, e) = 1..(Len(s) + 1)
           /\ InsertAt(s, k, e)[k] = e
           /\ \A i \in 1..(Len(s) + 1) :
                /\ i < k => InsertAt(s, k, e)[i] = s[i]
                /\ i > k => InsertAt(s, k, e)[i] = s[i - 1]
<1> DEFINE front == SubSeq(s, 1, k - 1)
           back  == SubSeq(s, k, Len(s))
<1>1. /\ front \in Seq(R) /\ Len(front) = k - 1
      /\ \A i \in 1..(k - 1) : front[i] = s[i]
  BY SubSeqProperties
<1>2. /\ back \in Seq(R) /\ Len(back) = Len(s) - k + 1
      /\ \A i \in 1..(Len(s) - k + 1) : back[i] = s[k + i - 1]
  BY SubSeqProperties
<1>3. InsertAt(s, k, e) = front \o <<e>> \o back
  BY DEF InsertAt
<1> HIDE DEF front, back
<1>4. /\ front \o <<e>> \in Seq(R) /\ Len(front \o <<e>>) = k
      /\ \A i \in 1..k : (front \o <<e>>)[i] = IF i < k THEN s[i] ELSE e
  BY <1>1
<1>5. /\ (front \o <<e>>) \o back \in Seq(R)
      /\ Len((front \o <<e>>) \o back) = Len(s) + 1
  BY <1>2, <1>4
<1>6. ASSUME NEW i \in 1..(Len(s) + 1)
      PROVE  /\ i < k => ((front \o <<e>>) \o back)[i] = s[i]
             /\ i = k => ((front \o <<e>>) \o back)[i] = e
             /\ i > k => ((front \o <<e>>) \o back)[i] = s[i - 1]
  <2> DEFINE head == front \o <<e>>
  <2>1. head \in Seq(R) /\ Len(head) = k
        /\ \A j \in 1..k : head[j] = IF j < k THEN s[j] ELSE e
    BY <1>4
  <2> HIDE DEF head
  <2>2. (head \o back)[i] = IF i <= k THEN head[i] ELSE back[i - k]
    BY <1>2, <2>1
  <2>3. i > k => back[i - k] = s[i - 1]
    BY <1>2
  <2>4. /\ i < k => (head \o back)[i] = s[i]
        /\ i = k => (head \o back)[i] = e
        /\ i > k => (head \o back)[i] = s[i - 1]
    BY <2>1, <2>2, <2>3
  <2> QED
    BY <2>4 DEF head
<1>7. k \in 1..(Len(s) + 1) /\ DOMAIN InsertAt(s, k, e) = 1..(Len(s) + 1)
  BY <1>3, <1>5
<1> QED
  BY <1>3, <1>5, <1>6, <1>7

\* A stack without its top.
LEMMA FrontProperties ==
    ASSUME NEW R, NEW s \in Seq(R), s # <<>>
    PROVE  /\ Len(s) \in Nat \ {0} /\ Last(s) \in R
           /\ Front(s) \in Seq(R) /\ Len(Front(s)) = Len(s) - 1
           /\ \A i \in 1..(Len(s) - 1) : Front(s)[i] = s[i]
<1>1. Len(s) \in Nat \ {0}
  BY EmptySeq
<1>2. Last(s) \in R
  BY <1>1 DEF Last
<1> DEFINE n == Len(s) - 1
           front == SubSeq(s, 1, n)
<1>3. n \in 0..Len(s) /\ n \in Nat /\ 1 \in 1..(Len(s) + 1)
  BY <1>1
<1> HIDE DEF n
<1>4. /\ front \in Seq(R) /\ Len(front) = n
      /\ \A i \in 1..n : front[i] = s[i]
  BY <1>3, SubSeqProperties
<1>5. Front(s) = front
  BY DEF Front, n
<1> HIDE DEF front
<1> QED
  BY <1>1, <1>2, <1>4, <1>5 DEF n

\* x occurs at most once in s.
Once(s, x) == \A i, j \in DOMAIN s : s[i] = x /\ s[j] = x => i = j

\* RemoveFirst(s, e) keeps every other element of s, repeats none that s does
\* not repeat, and is without e if s has it once.
LEMMA RemoveFirstElements ==
    ASSUME NEW R, NEW s \in Seq(R), NEW e, NEW x
    PROVE  /\ x \in ToSet(s) /\ x # e => x \in ToSet(RemoveFirst(s, e))
           /\ Once(s, x) => Once(RemoveFirst(s, e), x)
           /\ Once(s, e) => e \notin ToSet(RemoveFirst(s, e))
<1> DEFINE I == {i \in 1..Len(s) : s[i] = e}
           k == Min(I)
<1>1. CASE I = {}
  <2>1. RemoveFirst(s, e) = s
    BY <1>1 DEF RemoveFirst
  <2>2. e \notin ToSet(s)
    BY <1>1 DEF ToSet
  <2> QED
    BY <2>1, <2>2
<1>2. CASE I # {}
  <2>1. k \in I
    <3> I \in SUBSET Nat
      OBVIOUS
    <3> HIDE DEF I
    <3> QED
      BY <1>2, MinProperty
  <2>2. RemoveFirst(s, e) = RemoveAt(s, k)
    BY <1>2, Zenon DEF RemoveFirst, SelectInSeq
  <2>3. k \in 1..Len(s) /\ s[k] = e
    BY <2>1
  <2> DEFINE rest == RemoveAt(s, k)
  <2> HIDE DEF I, k
  <2>4. /\ DOMAIN rest = 1..(Len(s) - 1)
        /\ \A i \in 1..(Len(s) - 1) : rest[i] = IF i < k THEN s[i] ELSE s[i + 1]
    BY <2>3, RemoveAtElements
  <2> HIDE DEF rest
  <2>5. ASSUME x \in ToSet(s), x # e
        PROVE  x \in ToSet(rest)
    <3>1. PICK j \in 1..Len(s) : s[j] = x
      BY <2>5 DEF ToSet
    <3>2. CASE j < k
      <4>1. j \in 1..(Len(s) - 1) /\ rest[j] = x
        BY <2>3, <2>4, <3>1, <3>2
      <4> QED
        BY <2>4, <4>1 DEF ToSet
    <3>3. CASE j > k
      <4>1. j - 1 \in 1..(Len(s) - 1) /\ rest[j - 1] = x
        BY <2>3, <2>4, <3>1, <3>3
      <4> QED
        BY <2>4, <4>1 DEF ToSet
    <3> QED
      BY <2>3, <2>5, <3>1, <3>2, <3>3
  <2> DEFINE was(i) == IF i < k THEN i ELSE i + 1
  <2>6. \A i \in DOMAIN rest : was(i) \in DOMAIN s /\ was(i) # k /\ rest[i] = s[was(i)]
    BY <2>3, <2>4
  <2>7. \A i, j \in DOMAIN rest : was(i) = was(j) => i = j
    BY <2>3, <2>4
  <2> HIDE DEF was
  <2>8. Once(s, x) => Once(rest, x)
    BY <2>6, <2>7 DEF Once
  <2>9. Once(s, e) => e \notin ToSet(rest)
    <3> SUFFICES ASSUME Once(s, e), NEW i \in DOMAIN rest, rest[i] = e
                 PROVE  FALSE
      BY DEF ToSet
    <3> QED
      BY <2>3, <2>6 DEF Once
  <2> QED
    BY <2>2, <2>5, <2>8, <2>9 DEF rest
<1> QED
  BY <1>1, <1>2

\* The elements of a concatenation.
LEMMA ConcatElements ==
    ASSUME NEW R, NEW s \in Seq(R), NEW t \in Seq(R)
    PROVE  s \o t \in Seq(R) /\ ToSet(s \o t) = ToSet(s) \cup ToSet(t)
<1>1. /\ s \o t \in Seq(R) /\ DOMAIN (s \o t) = 1..(Len(s) + Len(t))
      /\ \A i \in 1..Len(s) : (s \o t)[i] = s[i]
      /\ \A i \in 1..Len(t) : (s \o t)[Len(s) + i] = t[i]
  OBVIOUS
<1>2. ToSet(s) \subseteq ToSet(s \o t)
  BY <1>1 DEF ToSet
<1>3. ToSet(t) \subseteq ToSet(s \o t)
  <2> SUFFICES ASSUME NEW i \in 1..Len(t)
               PROVE  t[i] \in ToSet(s \o t)
    BY DEF ToSet
  <2>1. Len(s) + i \in 1..(Len(s) + Len(t))
    OBVIOUS
  <2> QED
    BY <1>1, <2>1 DEF ToSet
<1>4. ASSUME NEW i \in 1..(Len(s) + Len(t))
      PROVE  (s \o t)[i] \in ToSet(s) \cup ToSet(t)
  <2>1. CASE i <= Len(s)
    BY <1>1, <2>1 DEF ToSet
  <2>2. CASE i > Len(s)
    <3>1. i - Len(s) \in 1..Len(t) /\ i = Len(s) + (i - Len(s))
      BY <2>2
    <3> QED
      BY <1>1, <3>1 DEF ToSet
  <2> QED
    BY <2>1, <2>2
<1> QED
  BY <1>1, <1>2, <1>3, <1>4 DEF ToSet

\* An appended element occurs once more, the others as often as before.
LEMMA AppendOnce ==
    ASSUME NEW R, NEW s \in Seq(R), NEW e \in R, NEW x, Once(s, x),
           x = e => x \notin ToSet(s)
    PROVE  Once(Append(s, e), x)
<1>1. /\ DOMAIN Append(s, e) = 1..(Len(s) + 1)
      /\ \A i \in 1..Len(s) : Append(s, e)[i] = s[i]
      /\ Append(s, e)[Len(s) + 1] = e
  BY AppendProperties
<1> QED
  BY <1>1 DEF Once, ToSet

\* The list with the new element has the others too, and repeats none.
LEMMA InsertAtElements ==
    ASSUME NEW R, NEW s \in Seq(R), NEW k \in 1..(Len(s) + 1), NEW e \in R
    PROVE  /\ ToSet(InsertAt(s, k, e)) = ToSet(s) \cup {e}
           /\ IsInjective(s) /\ e \notin ToSet(s) => IsInjective(InsertAt(s, k, e))
<1>1. ASSUME NEW list, NEW n \in Nat, NEW old, NEW i \in 1..(n + 1), NEW j \in 1..(n + 1),
             NEW l \in 1..(n + 1),
             \A m \in 1..(n + 1) :
                list[m] = IF m < l THEN old[m] ELSE IF m = l THEN e ELSE old[m - 1],
             \A a, b \in 1..n : old[a] = old[b] => a = b,
             \A a \in 1..n : old[a] # e,
             list[i] = list[j]
      PROVE  i = j
  <2>1. (i < l => i \in 1..n) /\ (i > l => i - 1 \in 1..n)
    OBVIOUS
  <2>2. (j < l => j \in 1..n) /\ (j > l => j - 1 \in 1..n)
    OBVIOUS
  <2>3. i = l <=> j = l
    BY <1>1, <2>1, <2>2
  <2>4. i < l => list[i] = old[i]
    BY <1>1
  <2>5. i > l => list[i] = old[i - 1]
    BY <1>1
  <2>6. j < l => list[j] = old[j]
    BY <1>1
  <2>7. j > l => list[j] = old[j - 1]
    BY <1>1
  <2>8. CASE i = l
    BY <2>3, <2>8
  <2>9. CASE i < l /\ j < l
    BY <1>1, <2>1, <2>2, <2>4, <2>6, <2>9
  <2>10. CASE i < l /\ j > l
    <3>1. i = j - 1
      BY <1>1, <2>1, <2>2, <2>4, <2>7, <2>10
    <3> QED
      BY <2>10, <3>1
  <2>11. CASE i > l /\ j < l
    <3>1. i - 1 = j
      BY <1>1, <2>1, <2>2, <2>5, <2>6, <2>11
    <3> QED
      BY <2>11, <3>1
  <2>12. CASE i > l /\ j > l
    <3>1. i - 1 = j - 1
      BY <1>1, <2>1, <2>2, <2>5, <2>7, <2>12
    <3> QED
      BY <3>1
  <2> QED
    BY <2>3, <2>8, <2>9, <2>10, <2>11, <2>12
<1> DEFINE list == InsertAt(s, k, e)
<1>2. /\ DOMAIN list = 1..(Len(s) + 1) /\ list[k] = e
      /\ \A i \in 1..(Len(s) + 1) :
            /\ i < k => list[i] = s[i]
            /\ i > k => list[i] = s[i - 1]
  BY InsertAtProperties
<1>3. Len(s) \in Nat /\ DOMAIN s = 1..Len(s)
  OBVIOUS
<1> HIDE DEF list
<1>4. ToSet(list) \subseteq ToSet(s) \cup {e}
  <2> SUFFICES ASSUME NEW i \in 1..(Len(s) + 1)
               PROVE  list[i] \in ToSet(s) \cup {e}
    BY <1>2 DEF ToSet
  <2>1. (i < k => i \in 1..Len(s)) /\ (i > k => i - 1 \in 1..Len(s))
    BY <1>3
  <2>2. \A j \in 1..Len(s) : s[j] \in ToSet(s)
    BY <1>3 DEF ToSet
  <2>3. i < k \/ i = k \/ i > k
    BY <1>3
  <2> QED
    BY <1>2, <1>3, <2>1, <2>2, <2>3
<1>5. e \in ToSet(list)
  BY <1>2, <1>3 DEF ToSet
<1>6. ASSUME NEW i \in 1..Len(s) PROVE s[i] \in ToSet(list)
  <2>1. CASE i < k
    <3>1. i \in DOMAIN list /\ list[i] = s[i]
      BY <1>2, <1>3, <2>1
    <3> QED
      BY <3>1 DEF ToSet
  <2>2. CASE ~ (i < k)
    <3>1. i + 1 \in 1..(Len(s) + 1) /\ i + 1 > k /\ (i + 1) - 1 = i
      BY <1>3, <2>2
    <3>2. list[i + 1] = s[i]
      BY <1>2, <3>1
    <3> QED
      BY <1>2, <3>1, <3>2 DEF ToSet
  <2> QED
    BY <2>1, <2>2
<1>7. ToSet(list) = ToSet(s) \cup {e}
  BY <1>3, <1>4, <1>5, <1>6 DEF ToSet
<1>8. IsInjective(s) /\ e \notin ToSet(s) => IsInjective(list)
  <2> SUFFICES ASSUME IsInjective(s), e \notin ToSet(s),
                      NEW i \in 1..(Len(s) + 1), NEW j \in 1..(Len(s) + 1),
                      list[i] = list[j]
               PROVE  i = j
    BY <1>2 DEF IsInjective
  <2>1. \A a, b \in 1..Len(s) : s[a] = s[b] => a = b
    BY <1>3 DEF IsInjective
  <2>2. \A a \in 1..Len(s) : s[a] # e
    BY <1>3 DEF ToSet
  <2> QED
    BY <1>1, <1>2, <1>3, <2>1, <2>2
<1> QED
  BY <1>7, <1>8 DEF list

\* The elements of the shortest sequences.
LEMMA SingleElement ==
    ASSUME NEW x
    PROVE  ToSet(<<x>>) = {x} /\ ToSet(<<>>) = {}
<1>1. PICK s : s = <<x>>
  OBVIOUS
<1>2. DOMAIN s = 1..1 /\ s[1] = x
  BY <1>1
<1>3. ToSet(s) = {x}
  <2>1. \A i : i \in DOMAIN s <=> i = 1
    BY <1>2
  <2> QED
    BY <1>2, <2>1 DEF ToSet
<1>4. ToSet(<<>>) = {}
  BY DEF ToSet
<1> QED
  BY <1>1, <1>3, <1>4

\* The two of a pair.
LEMMA PairElements ==
    ASSUME NEW x, NEW y
    PROVE  ToSet(<<x, y>>) = {x, y}
<1>1. PICK s : s = <<x, y>>
  OBVIOUS
<1>2. DOMAIN s = 1..2 /\ s[1] = x /\ s[2] = y
  BY <1>1
<1>3. \A i : i \in DOMAIN s <=> i = 1 \/ i = 2
  BY <1>2
<1>4. ToSet(s) = {x, y}
  BY <1>2, <1>3 DEF ToSet
<1> QED
  BY <1>1, <1>4

-----------------------------------------------------------------------------
(* Filter and FlattenSeq.                                                  *)

\* The values of the loop of Filter.
IsFilter(f, s, T) ==
    /\ f[0] = <<>> /\ Filter(s, T) = f[Len(s)]
    /\ \A i \in 1..Len(s) : f[i] = IF s[i] \in T THEN Append(f[i - 1], s[i]) ELSE f[i - 1]

\* The function of the loop of Filter exists, and Filter is its last value.
LEMMA FilterLoop ==
    ASSUME NEW R, NEW s \in Seq(R), NEW T
    PROVE  \E f : IsFilter(f, s, T)
<1> DEFINE k == Len(s)
           turn == [i \in 1..k |->
                        [l \in Seq(R) |-> IF s[i] \in T THEN Append(l, s[i]) ELSE l]]
           Body(f, i) == IF i = 0 THEN <<>>
                         ELSE IF s[i] \in T THEN Append(f[i - 1], s[i]) ELSE f[i - 1]
           kept == CHOOSE f : f = [i \in 0..k |-> Body(f, i)]
<1>1. Filter(s, T) = kept[k]
  BY DEF Filter
<1>2. turn \in [1..k -> [Seq(R) -> Seq(R)]] /\ k \in Nat /\ <<>> \in Seq(R)
  BY AppendElements
<1>3. PICK f : /\ f \in [0..k -> Seq(R)] /\ f[0] = <<>>
               /\ \A i \in 1..k : f[i] = turn[i][f[i - 1]]
  <2> HIDE DEF turn, k
  <2>1. \E f : IsLoop(f, Seq(R), k, <<>>, turn)
    BY <1>2, LoopExists
  <2> QED
    BY <2>1 DEF IsLoop
<1>4. \A i \in 0..k : f[i] = Body(f, i)
  <2>1. \A i \in 0..k : i # 0 => i \in 1..k /\ i - 1 \in 0..k
    OBVIOUS
  <2> QED
    BY <1>3, <2>1
<1>5. f = [i \in 0..k |-> Body(f, i)]
  <2> HIDE DEF Body, turn, k
  <2> QED
    BY <1>3, <1>4
<1>6. kept = [i \in 0..k |-> Body(kept, i)]
  <2> HIDE DEF Body, k
  <2> QED
    BY <1>5
<1> HIDE DEF kept
<1>7. \A i \in 0..k : kept[i] = Body(kept, i)
  <2> HIDE DEF Body, k
  <2> QED
    BY <1>6
<1>8. 0 \in 0..k /\ \A i \in 1..k : i \in 0..k /\ i # 0
  BY <1>2
<1> QED
  BY <1>1, <1>7, <1>8 DEF IsFilter

\* What Filter keeps are the elements in T.
LEMMA FilterElements ==
    ASSUME NEW R, NEW s \in Seq(R), NEW T
    PROVE  /\ Filter(s, T) \in Seq(R)
           /\ ToSet(Filter(s, T)) = ToSet(s) \cap T
<1>1. PICK f : IsFilter(f, s, T)
  BY FilterLoop
<1> DEFINE seen(n) == {s[j] : j \in 1..n}
           fine == {n \in 0..Len(s) : f[n] \in Seq(R) /\ ToSet(f[n]) = seen(n) \cap T}
<1>2. 0 \in fine
  <2>1. seen(0) = {} /\ 0 \in 0..Len(s)
    OBVIOUS
  <2>2. f[0] = <<>> /\ <<>> \in Seq(R)
    BY <1>1 DEF IsFilter
  <2>3. ToSet(f[0]) = {}
    BY <2>2 DEF ToSet
  <2> HIDE DEF seen
  <2> QED
    BY <2>1, <2>2, <2>3
<1>3. ASSUME NEW n \in 0..(Len(s) - 1), n \in fine PROVE n + 1 \in fine
  <2>1. /\ n + 1 \in 1..Len(s) /\ n + 1 \in 0..Len(s) /\ (n + 1) - 1 = n
        /\ 1..(n + 1) = 1..n \cup {n + 1}
    OBVIOUS
  <2>2. f[n + 1] = IF s[n + 1] \in T THEN Append(f[n], s[n + 1]) ELSE f[n]
    BY <1>1, <2>1 DEF IsFilter
  <2>3. PICK l, e, next : l = f[n] /\ e = s[n + 1] /\ next = f[n + 1]
    OBVIOUS
  <2>4. l \in Seq(R) /\ e \in R /\ ToSet(l) = seen(n) \cap T
    BY <1>3, <2>1, <2>3
  <2>5. Append(l, e) \in Seq(R) /\ ToSet(Append(l, e)) = ToSet(l) \cup {e}
    BY <2>4, AppendElements
  <2>6. seen(n + 1) = seen(n) \cup {e}
    BY <2>1, <2>3
  <2> HIDE DEF seen
  <2>7. next \in Seq(R) /\ ToSet(next) = seen(n + 1) \cap T
    BY <2>2, <2>3, <2>4, <2>5, <2>6
  <2> QED
    BY <2>1, <2>3, <2>7
<1>4. \A n \in 0..Len(s) : n \in fine
  <2>1. Len(s) \in Nat
    OBVIOUS
  <2> HIDE DEF fine
  <2> QED
    BY <1>2, <1>3, <2>1, Reaches
<1>5. Len(s) \in 0..Len(s) /\ seen(Len(s)) = ToSet(s) /\ Filter(s, T) = f[Len(s)]
  BY <1>1 DEF ToSet, IsFilter
<1>6. f[Len(s)] \in Seq(R) /\ ToSet(f[Len(s)]) = seen(Len(s)) \cap T
  <2> HIDE DEF seen
  <2> QED
    BY <1>4, <1>5
<1> QED
  BY <1>5, <1>6

\* The values of the loop of FlattenSeq.
IsFlatten(f, ss) ==
    /\ FlattenSeq(ss) = f[Len(ss)]
    /\ \A i \in 1..Len(ss) : f[i] = IF i = 1 THEN ss[i] ELSE f[i - 1] \o ss[i]

\* The function of the loop of FlattenSeq exists, and FlattenSeq is its last value.
LEMMA FlattenLoop ==
    ASSUME NEW R, NEW ss \in Seq(Seq(R)), Len(ss) # 0
    PROVE  \E f : IsFlatten(f, ss)
<1> DEFINE k == Len(ss)
           turn == [i \in 1..k |-> [l \in Seq(R) |-> l \o ss[i]]]
           Body(f, i) == IF i = 1 THEN ss[i] ELSE f[i - 1] \o ss[i]
           flat == CHOOSE f : f = [i \in 1..k |-> Body(f, i)]
<1>1. FlattenSeq(ss) = flat[k]
  BY DEF FlattenSeq
<1>2. turn \in [1..k -> [Seq(R) -> Seq(R)]] /\ k \in Nat /\ <<>> \in Seq(R)
  <2>1. \A i \in 1..k : ss[i] \in Seq(R)
    OBVIOUS
  <2>2. \A i \in 1..k : \A l \in Seq(R) : l \o ss[i] \in Seq(R)
    BY <2>1, ConcatElements
  <2> QED
    BY <2>2
<1>3. PICK f : /\ f \in [0..k -> Seq(R)] /\ f[0] = <<>>
               /\ \A i \in 1..k : f[i] = turn[i][f[i - 1]]
  <2> HIDE DEF turn, k
  <2>1. \E f : IsLoop(f, Seq(R), k, <<>>, turn)
    BY <1>2, LoopExists
  <2> QED
    BY <2>1 DEF IsLoop
<1> DEFINE g == [i \in 1..k |-> f[i]]
<1>4. \A i \in 1..k : g[i] = Body(g, i)
  <2> SUFFICES ASSUME NEW i \in 1..k PROVE g[i] = Body(g, i)
    OBVIOUS
  <2>1. i - 1 \in 0..k /\ (i # 1 => i - 1 \in 1..k) /\ (i = 1 => i - 1 = 0)
    BY <1>2
  <2>2. f[i] = f[i - 1] \o ss[i] /\ ss[i] \in Seq(R)
    <3>1. f[i] = turn[i][f[i - 1]] /\ f[i - 1] \in Seq(R)
      <4> HIDE DEF turn
      <4> QED
        BY <1>3, <2>1
    <3>2. turn[i] = [l \in Seq(R) |-> l \o ss[i]]
      OBVIOUS
    <3>3. PICK l : l = f[i - 1]
      OBVIOUS
    <3>4. turn[i][l] = l \o ss[i]
      BY <3>1, <3>2, <3>3
    <3>5. ss[i] \in Seq(R)
      OBVIOUS
    <3> HIDE DEF turn
    <3> QED
      BY <3>1, <3>3, <3>4, <3>5
  <2>3. <<>> \o ss[i] = ss[i]
    BY <2>2
  <2> QED
    BY <1>3, <2>1, <2>2, <2>3
<1>5. g = [i \in 1..k |-> Body(g, i)]
  <2>1. g = [i \in 1..k |-> g[i]]
    OBVIOUS
  <2> HIDE DEF Body, turn, k, g
  <2> QED
    BY <1>4, <2>1
<1> HIDE DEF g
<1>6. flat = [i \in 1..k |-> Body(flat, i)]
  <2> HIDE DEF Body, k
  <2> QED
    BY <1>5
<1> HIDE DEF flat
<1>7. \A i \in 1..k : flat[i] = Body(flat, i)
  <2> HIDE DEF Body, k
  <2> QED
    BY <1>6
<1> QED
  BY <1>1, <1>7 DEF IsFlatten

\* A sequence of sequences has the elements of all of them.
LEMMA FlattenElements ==
    ASSUME NEW R, NEW ss \in Seq(Seq(R))
    PROVE  /\ FlattenSeq(ss) \in Seq(R)
           /\ ToSet(FlattenSeq(ss)) = UNION {ToSet(ss[i]) : i \in DOMAIN ss}
<1>1. CASE Len(ss) = 0
  <2>1. FlattenSeq(ss) = <<>> /\ DOMAIN ss = {}
    BY <1>1 DEF FlattenSeq
  <2>2. ToSet(FlattenSeq(ss)) = {}
    BY <2>1 DEF ToSet
  <2> QED
    BY <2>1, <2>2
<1>2. CASE Len(ss) # 0
  <2>1. PICK f : IsFlatten(f, ss)
    BY <1>2, FlattenLoop
  <2> DEFINE seen(n) == UNION {ToSet(ss[i]) : i \in 1..n}
             fine == {n \in 0..Len(ss) : n = 0 \/ (f[n] \in Seq(R) /\ ToSet(f[n]) = seen(n))}
  <2>2. 0 \in fine
    OBVIOUS
  <2>3. ASSUME NEW n \in 0..(Len(ss) - 1), n \in fine PROVE n + 1 \in fine
    <3>1. /\ n + 1 \in 1..Len(ss) /\ n + 1 \in 0..Len(ss) /\ (n + 1) - 1 = n
          /\ 1..(n + 1) = 1..n \cup {n + 1}
      OBVIOUS
    <3>2. f[n + 1] = IF n = 0 THEN ss[n + 1] ELSE f[n] \o ss[n + 1]
      BY <2>1, <3>1 DEF IsFlatten
    <3>3. PICK l, t, next : l = f[n] /\ t = ss[n + 1] /\ next = f[n + 1]
      OBVIOUS
    <3>4. t \in Seq(R) /\ (n # 0 => l \in Seq(R) /\ ToSet(l) = seen(n))
      BY <2>3, <3>1, <3>3
    <3>5. l \in Seq(R) => l \o t \in Seq(R) /\ ToSet(l \o t) = ToSet(l) \cup ToSet(t)
      BY <3>4, ConcatElements
    <3>6. seen(n + 1) = seen(n) \cup ToSet(t)
      BY <3>1, <3>3
    <3>7. n = 0 => seen(n) = {}
      OBVIOUS
    <3> HIDE DEF seen
    <3>8. next \in Seq(R) /\ ToSet(next) = seen(n + 1)
      BY <3>2, <3>3, <3>4, <3>5, <3>6, <3>7
    <3> QED
      BY <3>1, <3>3, <3>8
  <2>4. \A n \in 0..Len(ss) : n \in fine
    <3>1. Len(ss) \in Nat
      OBVIOUS
    <3> HIDE DEF fine
    <3> QED
      BY <2>2, <2>3, <3>1, Reaches
  <2>5. Len(ss) \in 0..Len(ss) /\ FlattenSeq(ss) = f[Len(ss)]
    BY <2>1 DEF IsFlatten
  <2>6. f[Len(ss)] \in Seq(R) /\ ToSet(f[Len(ss)]) = seen(Len(ss))
    <3> HIDE DEF seen
    <3> QED
      BY <1>2, <2>4, <2>5
  <2>7. seen(Len(ss)) = UNION {ToSet(ss[i]) : i \in DOMAIN ss}
    <3>1. 1..Len(ss) = DOMAIN ss
      OBVIOUS
    <3> QED
      BY <3>1
  <2> QED
    BY <2>5, <2>6, <2>7
<1> QED
  BY <1>1, <1>2

-----------------------------------------------------------------------------
(* Positions.                                                              *)

\* The places of the elements of a concatenation.
LEMMA ConcatPositions ==
    ASSUME NEW R, NEW s \in Seq(R), NEW t \in Seq(R)
    PROVE  /\ s \o t \in Seq(R) /\ Len(s \o t) = Len(s) + Len(t)
           /\ \A i \in 1..Len(s) : (s \o t)[i] = s[i]
           /\ \A i \in 1..Len(t) : (s \o t)[Len(s) + i] = t[i]
OBVIOUS

\* A bounded set of naturals has a greatest element.
LEMMA GreatestElement ==
    ASSUME NEW m \in Nat, NEW I \in SUBSET (1..m), I # {}
    PROVE  \E k \in I : \A n \in I : n <= k
<1> DEFINE J == {m - k : k \in I}
<1>1. J \in SUBSET Nat /\ J # {}
  <2>1. \A k \in I : k \in 1..m /\ m - k \in Nat
    OBVIOUS
  <2> QED
    BY <2>1
<1>2. Min(J) \in J /\ \A y \in J : Min(J) <= y
  <2> HIDE DEF J
  <2> QED
    BY <1>1, MinProperty
<1>3. PICK k \in I : Min(J) = m - k
  BY <1>2
<1>4. \A n \in I : n <= k
  <2> SUFFICES ASSUME NEW n \in I PROVE n <= k
    OBVIOUS
  <2>1. m - k <= m - n
    BY <1>2, <1>3
  <2>2. n \in Int /\ k \in Int
    OBVIOUS
  <2> QED
    BY <2>1, <2>2
<1> QED
  BY <1>4

\* What is added to the end of a sequence can be taken off again.
LEMMA AppendApart ==
    ASSUME NEW R, NEW x \in Seq(R), NEW y \in Seq(R), NEW s \in R, NEW t \in R
    PROVE  /\ Append(x, s) \in Seq(R) /\ Append(x, s) # <<>> /\ Last(Append(x, s)) = s
           /\ Append(x, s) = Append(y, t) => x = y /\ s = t
<1>1. /\ Append(x, s) \in Seq(R) /\ Append(x, s) # <<>>
      /\ Len(Append(x, s)) = Len(x) + 1 /\ Append(x, s)[Len(x) + 1] = s
  BY AppendProperties
<1>2. ASSUME Append(x, s) = Append(y, t) PROVE x = y /\ s = t
  <2>1. PICK u : u = Append(x, s)
    OBVIOUS
  <2>2. /\ Len(u) = Len(x) + 1 /\ u[Len(x) + 1] = s
        /\ \A i \in 1..Len(x) : u[i] = x[i]
    BY <2>1, AppendProperties, Zenon
  <2>3. /\ Len(u) = Len(y) + 1 /\ u[Len(y) + 1] = t
        /\ \A i \in 1..Len(y) : u[i] = y[i]
    <3>1. u = Append(y, t)
      BY <1>2, <2>1, Zenon
    <3> QED
      BY <3>1, AppendProperties, Zenon
  <2>4. Len(x) \in Nat /\ Len(y) \in Nat
    OBVIOUS
  <2>5. Len(x) = Len(y)
    BY <2>2, <2>3, <2>4
  <2>6. x = y
    BY <2>2, <2>3, <2>5, SeqEqual
  <2> QED
    BY <2>2, <2>3, <2>5, <2>6
<1>3. Last(Append(x, s)) = s
  <2>1. Last(Append(x, s)) = Append(x, s)[Len(Append(x, s))]
    BY DEF Last
  <2> QED
    BY <1>1, <2>1, Zenon
<1> QED
  BY <1>1, <1>2, <1>3

\* An element that Filter keeps comes no later than it was.
LEMMA FilterBehind ==
    ASSUME NEW R, NEW s \in Seq(R), NEW T
    PROVE  /\ Len(Filter(s, T)) <= Len(s)
           /\ \A k \in 1..Len(Filter(s, T)) : \E j \in k..Len(s) : Filter(s, T)[k] = s[j]
<1>1. PICK f : IsFilter(f, s, T)
  BY FilterLoop
<1> DEFINE Fine(l, n) ==
              l \in Seq(R) /\ Len(l) <= n /\ \A k \in 1..Len(l) : \E j \in k..n : l[k] = s[j]
           fine == {n \in 0..Len(s) : Fine(f[n], n)}
<1>2. 0 \in fine
  <2>1. f[0] = <<>> /\ 0 \in 0..Len(s)
    BY <1>1 DEF IsFilter
  <2>2. PICK l : l = f[0]
    OBVIOUS
  <2>3. l \in Seq(R) /\ Len(l) = 0
    BY <2>1, <2>2
  <2>4. Fine(l, 0)
    BY <2>3
  <2> HIDE DEF Fine
  <2> QED
    BY <2>1, <2>2, <2>4
<1>3. ASSUME NEW n \in 0..(Len(s) - 1), n \in fine PROVE n + 1 \in fine
  <2>1. n + 1 \in 1..Len(s) /\ n + 1 \in 0..Len(s) /\ (n + 1) - 1 = n /\ n \in Nat
    OBVIOUS
  <2>2. f[n + 1] = IF s[n + 1] \in T THEN Append(f[n], s[n + 1]) ELSE f[n]
    BY <1>1, <2>1 DEF IsFilter
  <2>3. PICK l, e, next : l = f[n] /\ e = s[n + 1] /\ next = f[n + 1]
    OBVIOUS
  <2>4. Fine(l, n) /\ e \in R
    BY <1>3, <2>1, <2>3
  <2>5. Fine(l, n + 1)
    BY <2>1, <2>4
  <2>6. Fine(Append(l, e), n + 1)
    <3>1. /\ Append(l, e) \in Seq(R) /\ Len(Append(l, e)) = Len(l) + 1
          /\ Append(l, e)[Len(l) + 1] = e /\ \A k \in 1..Len(l) : Append(l, e)[k] = l[k]
      BY <2>4, AppendProperties
    <3>2. PICK u : u = Append(l, e)
      OBVIOUS
    <3>3. /\ u \in Seq(R) /\ Len(u) = Len(l) + 1
          /\ u[Len(l) + 1] = e /\ \A k \in 1..Len(l) : u[k] = l[k]
      BY <3>1, <3>2, Zenon
    <3>4. Len(l) \in Nat /\ Len(l) <= n
      BY <2>4
    <3>5. ASSUME NEW k \in 1..Len(u) PROVE \E j \in k..(n + 1) : u[k] = s[j]
      <4>1. CASE k = Len(l) + 1
        <5>1. n + 1 \in k..(n + 1) /\ u[k] = s[n + 1]
          BY <2>1, <2>3, <3>3, <3>4, <4>1
        <5> QED
          BY <5>1
      <4>2. CASE k # Len(l) + 1
        <5>1. k \in 1..Len(l)
          BY <3>3, <3>4, <4>2
        <5>2. PICK j \in k..n : l[k] = s[j]
          BY <2>4, <5>1
        <5>3. j \in k..(n + 1) /\ u[k] = s[j]
          BY <2>1, <3>3, <5>1, <5>2
        <5> QED
          BY <5>3
      <4> QED
        BY <4>1, <4>2
    <3>6. Fine(u, n + 1)
      BY <2>1, <3>3, <3>4, <3>5
    <3> QED
      BY <3>2, <3>6
  <2> HIDE DEF Fine
  <2>7. Fine(next, n + 1)
    BY <2>2, <2>3, <2>5, <2>6
  <2> QED
    BY <2>1, <2>3, <2>7
<1>4. \A n \in 0..Len(s) : n \in fine
  <2>1. Len(s) \in Nat
    OBVIOUS
  <2> HIDE DEF fine
  <2> QED
    BY <1>2, <1>3, <2>1, Reaches
<1>5. Len(s) \in 0..Len(s) /\ Filter(s, T) = f[Len(s)]
  BY <1>1 DEF IsFilter
<1>6. Fine(f[Len(s)], Len(s))
  <2> HIDE DEF Fine
  <2> QED
    BY <1>4, <1>5
<1> QED
  BY <1>5, <1>6

\* Filter repeats no element that the sequence does not repeat.
LEMMA FilterOnce ==
    ASSUME NEW R, NEW s \in Seq(R), NEW T, \A i, j \in DOMAIN s : s[i] = s[j] => i = j
    PROVE  \A i, j \in DOMAIN Filter(s, T) : Filter(s, T)[i] = Filter(s, T)[j] => i = j
<1>1. PICK f : IsFilter(f, s, T)
  BY FilterLoop
<1> DEFINE Fine(l, n) ==
              /\ l \in Seq(R) /\ \A k \in 1..Len(l) : \E j \in 1..n : l[k] = s[j]
              /\ \A i, j \in 1..Len(l) : l[i] = l[j] => i = j
           fine == {n \in 0..Len(s) : Fine(f[n], n)}
<1>2. 0 \in fine
  <2>1. f[0] = <<>> /\ 0 \in 0..Len(s)
    BY <1>1 DEF IsFilter
  <2>2. PICK l : l = f[0]
    OBVIOUS
  <2>3. l \in Seq(R) /\ Len(l) = 0
    BY <2>1, <2>2
  <2>4. Fine(l, 0)
    BY <2>3
  <2> HIDE DEF Fine
  <2> QED
    BY <2>1, <2>2, <2>4
<1>3. ASSUME NEW n \in 0..(Len(s) - 1), n \in fine PROVE n + 1 \in fine
  <2>1. n + 1 \in 1..Len(s) /\ n + 1 \in 0..Len(s) /\ (n + 1) - 1 = n /\ n \in Nat
    OBVIOUS
  <2>2. f[n + 1] = IF s[n + 1] \in T THEN Append(f[n], s[n + 1]) ELSE f[n]
    BY <1>1, <2>1 DEF IsFilter
  <2>3. PICK l, e, next : l = f[n] /\ e = s[n + 1] /\ next = f[n + 1]
    OBVIOUS
  <2>4. Fine(l, n) /\ e \in R
    BY <1>3, <2>1, <2>3
  <2>5. Fine(l, n + 1)
    BY <2>1, <2>4
  <2>6. \A k \in 1..Len(l) : l[k] # e
    <3> SUFFICES ASSUME NEW k \in 1..Len(l), l[k] = e PROVE FALSE
      OBVIOUS
    <3>1. PICK j \in 1..n : l[k] = s[j]
      BY <2>4
    <3>2. s[j] = s[n + 1] /\ j \in DOMAIN s /\ n + 1 \in DOMAIN s /\ j # n + 1
      BY <2>1, <2>3, <3>1
    <3> QED
      BY <3>2
  <2>7. Fine(Append(l, e), n + 1)
    <3>1. /\ Append(l, e) \in Seq(R) /\ Len(Append(l, e)) = Len(l) + 1
          /\ Append(l, e)[Len(l) + 1] = e /\ \A k \in 1..Len(l) : Append(l, e)[k] = l[k]
      BY <2>4, AppendProperties
    <3>2. PICK u : u = Append(l, e)
      OBVIOUS
    <3>3. /\ u \in Seq(R) /\ Len(u) = Len(l) + 1
          /\ u[Len(l) + 1] = e /\ \A k \in 1..Len(l) : u[k] = l[k]
      BY <3>1, <3>2, Zenon
    <3>4. Len(l) \in Nat
      BY <2>4
    <3>5. \A k \in 1..Len(u) : k = Len(l) + 1 \/ k \in 1..Len(l)
      BY <3>3, <3>4
    <3>6. \A k \in 1..Len(u) : \E j \in 1..(n + 1) : u[k] = s[j]
      BY <2>1, <2>3, <2>5, <3>3, <3>5
    <3>7. \A i, j \in 1..Len(u) : u[i] = u[j] => i = j
      BY <2>4, <2>6, <3>3, <3>5
    <3>8. Fine(u, n + 1)
      BY <3>3, <3>6, <3>7
    <3> QED
      BY <3>2, <3>8
  <2> HIDE DEF Fine
  <2>8. Fine(next, n + 1)
    BY <2>2, <2>3, <2>5, <2>7
  <2> QED
    BY <2>1, <2>3, <2>8
<1>4. \A n \in 0..Len(s) : n \in fine
  <2>1. Len(s) \in Nat
    OBVIOUS
  <2> HIDE DEF fine
  <2> QED
    BY <1>2, <1>3, <2>1, Reaches
<1>5. Len(s) \in 0..Len(s) /\ Filter(s, T) = f[Len(s)]
  BY <1>1 DEF IsFilter
<1>6. Fine(f[Len(s)], Len(s))
  <2> HIDE DEF Fine
  <2> QED
    BY <1>4, <1>5
<1> QED
  BY <1>5, <1>6

\* What one of the sequences has, and has once, their concatenation has once.
LEMMA FlattenOnce ==
    ASSUME NEW R, NEW ss \in Seq(Seq(R)), NEW x,
           \A i, j \in DOMAIN ss : x \in ToSet(ss[i]) /\ x \in ToSet(ss[j]) => i = j,
           \A i \in DOMAIN ss : Once(ss[i], x)
    PROVE  Once(FlattenSeq(ss), x)
<1>1. CASE Len(ss) = 0
  <2>1. FlattenSeq(ss) = <<>>
    BY <1>1 DEF FlattenSeq
  <2> QED
    BY <2>1 DEF Once
<1>2. CASE Len(ss) # 0
  <2>1. PICK f : IsFlatten(f, ss)
    BY <1>2, FlattenLoop
  <2> DEFINE Fine(l, n) ==
                 /\ l \in Seq(R) /\ Once(l, x)
                 /\ x \in ToSet(l) => \E i \in 1..n : x \in ToSet(ss[i])
             fine == {n \in 0..Len(ss) : n = 0 \/ Fine(f[n], n)}
  <2>2. 0 \in fine
    OBVIOUS
  <2>3. ASSUME NEW n \in 0..(Len(ss) - 1), n \in fine PROVE n + 1 \in fine
    <3>1. n + 1 \in 1..Len(ss) /\ n + 1 \in 0..Len(ss) /\ (n + 1) - 1 = n /\ n \in Nat
      OBVIOUS
    <3>2. f[n + 1] = IF n = 0 THEN ss[n + 1] ELSE f[n] \o ss[n + 1]
      BY <2>1, <3>1 DEF IsFlatten
    <3>3. PICK l, t, next : l = f[n] /\ t = ss[n + 1] /\ next = f[n + 1]
      OBVIOUS
    <3>4. t \in Seq(R) /\ Once(t, x) /\ Fine(t, n + 1)
      BY <3>1, <3>3
    <3>5. n # 0 => Fine(l, n)
      BY <2>3, <3>3
    <3>6. ASSUME n # 0 PROVE Fine(l \o t, n + 1)
      <4>1. l \in Seq(R) /\ Once(l, x)
        BY <3>5, <3>6
      <4>2. l \o t \in Seq(R) /\ ToSet(l \o t) = ToSet(l) \cup ToSet(t)
        BY <3>4, <4>1, ConcatElements
      <4>3. ~ (x \in ToSet(l) /\ x \in ToSet(t))
        <5> SUFFICES ASSUME x \in ToSet(l), x \in ToSet(t) PROVE FALSE
          OBVIOUS
        <5>1. PICK i \in 1..n : x \in ToSet(ss[i])
          BY <3>5, <3>6
        <5>2. i \in DOMAIN ss /\ n + 1 \in DOMAIN ss /\ i # n + 1 /\ x \in ToSet(ss[n + 1])
          BY <3>1, <3>3
        <5> QED
          BY <5>1, <5>2
      <4>4. Once(l \o t, x)
        <5>1. PICK u : u = l \o t
          OBVIOUS
        <5>2. /\ Len(u) = Len(l) + Len(t) /\ DOMAIN u = 1..(Len(l) + Len(t))
              /\ \A i \in 1..Len(l) : u[i] = l[i]
              /\ \A i \in 1..Len(t) : u[Len(l) + i] = t[i]
          BY <3>4, <4>1, <5>1
        <5>3. \A i \in DOMAIN u : i \in 1..Len(l) \/ (i - Len(l) \in 1..Len(t) /\ i = Len(l) + (i - Len(l)))
          BY <4>1, <5>2
        <5>4. \A i \in DOMAIN l : l[i] \in ToSet(l)
          BY DEF ToSet
        <5>5. \A i \in DOMAIN t : t[i] \in ToSet(t)
          BY DEF ToSet
        <5>6. DOMAIN l = 1..Len(l) /\ DOMAIN t = 1..Len(t) /\ Len(l) \in Nat /\ Len(t) \in Nat
          BY <3>4, <4>1
        <5>7. \A i \in DOMAIN u : u[i] = x =>
                \/ i \in DOMAIN l /\ l[i] = x /\ x \in ToSet(l)
                \/ i - Len(l) \in DOMAIN t /\ t[i - Len(l)] = x /\ x \in ToSet(t)
          BY <5>2, <5>3, <5>4, <5>5, <5>6
        <5>8. ASSUME NEW i \in DOMAIN u, NEW j \in DOMAIN u, u[i] = x, u[j] = x PROVE i = j
          <6>1. CASE x \in ToSet(l)
            <7>1. i \in DOMAIN l /\ l[i] = x /\ j \in DOMAIN l /\ l[j] = x
              BY <4>3, <5>7, <5>8, <6>1
            <7> QED
              BY <4>1, <7>1 DEF Once
          <6>2. CASE x \notin ToSet(l)
            <7>1. /\ i - Len(l) \in DOMAIN t /\ t[i - Len(l)] = x
                  /\ j - Len(l) \in DOMAIN t /\ t[j - Len(l)] = x
              BY <5>7, <5>8, <6>2
            <7>2. i - Len(l) = j - Len(l)
              BY <3>4, <7>1 DEF Once
            <7> QED
              BY <5>2, <5>6, <7>2
          <6> QED
            BY <6>1, <6>2
        <5> QED
          BY <5>1, <5>8 DEF Once
      <4>5. x \in ToSet(l) => \E i \in 1..(n + 1) : x \in ToSet(ss[i])
        BY <3>1, <3>5, <3>6
      <4>6. x \in ToSet(t) => \E i \in 1..(n + 1) : x \in ToSet(ss[i])
        BY <3>1, <3>3
      <4> QED
        BY <4>2, <4>4, <4>5, <4>6
    <3> HIDE DEF Fine
    <3>7. Fine(next, n + 1)
      BY <3>2, <3>3, <3>4, <3>6
    <3> QED
      BY <3>1, <3>3, <3>7
  <2>4. \A n \in 0..Len(ss) : n \in fine
    <3>1. Len(ss) \in Nat
      OBVIOUS
    <3> HIDE DEF fine
    <3> QED
      BY <2>2, <2>3, <3>1, Reaches
  <2>5. Len(ss) \in 0..Len(ss) /\ FlattenSeq(ss) = f[Len(ss)]
    BY <2>1 DEF IsFlatten
  <2>6. Fine(f[Len(ss)], Len(ss))
    <3> HIDE DEF Fine
    <3> QED
      BY <1>2, <2>4, <2>5
  <2> QED
    BY <2>5, <2>6
<1> QED
  BY <1>1, <1>2

\* Filter keeps a sequence whose elements are all in T.
LEMMA FilterAll ==
    ASSUME NEW R, NEW s \in Seq(R), NEW T, \A i \in DOMAIN s : s[i] \in T
    PROVE  Filter(s, T) = s
<1>1. PICK f : IsFilter(f, s, T)
  BY FilterLoop
<1> DEFINE Same(l, n) == l \in Seq(R) /\ Len(l) = n /\ \A j \in 1..n : l[j] = s[j]
           fine == {n \in 0..Len(s) : Same(f[n], n)}
<1>2. 0 \in fine
  <2>1. f[0] = <<>> /\ 0 \in 0..Len(s)
    BY <1>1 DEF IsFilter
  <2>2. PICK l : l = f[0]
    OBVIOUS
  <2>3. Same(l, 0)
    BY <2>1, <2>2
  <2> HIDE DEF Same
  <2> QED
    BY <2>1, <2>2, <2>3
<1>3. ASSUME NEW n \in 0..(Len(s) - 1), n \in fine PROVE n + 1 \in fine
  <2>1. n + 1 \in 1..Len(s) /\ n + 1 \in 0..Len(s) /\ (n + 1) - 1 = n
    OBVIOUS
  <2>2. PICK l, e, next : l = f[n] /\ e = s[n + 1] /\ next = f[n + 1]
    OBVIOUS
  <2>3. Same(l, n) /\ e \in R /\ e \in T
    BY <1>3, <2>1, <2>2
  <2>4. next = Append(l, e)
    BY <1>1, <2>1, <2>2, <2>3 DEF IsFilter
  <2>5. Same(next, n + 1)
    BY <2>1, <2>2, <2>3, <2>4
  <2> HIDE DEF Same
  <2> QED
    BY <2>1, <2>2, <2>5
<1>4. \A n \in 0..Len(s) : n \in fine
  <2>1. Len(s) \in Nat
    OBVIOUS
  <2> HIDE DEF fine
  <2> QED
    BY <1>2, <1>3, <2>1, Reaches
<1>5. Len(s) \in 0..Len(s) /\ Filter(s, T) = f[Len(s)]
  BY <1>1 DEF IsFilter
<1>6. Same(f[Len(s)], Len(s))
  BY <1>4, <1>5
<1>7. PICK l : l = f[Len(s)]
  OBVIOUS
<1>8. l = s
  BY <1>6, <1>7
<1> QED
  BY <1>5, <1>7, <1>8

=============================================================================
