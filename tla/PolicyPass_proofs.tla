---------------------------- MODULE PolicyPass_proofs -----------------------
(***************************************************************************)
(* Proofs about PolicyPass, for every set of topologies.  The types need   *)
(* no condition.  For regular topologies t the walk is in one of three     *)
(* forms (Walking): no policy that scales was handled (Plain), the scaling *)
(* policy was, which moved the nodes to the nested template (Scaled), or   *)
(* the cluster policy was, which put profiles for the servers and took the *)
(* ports and networks away (Clustered); in each, what the heap has of a    *)
(* given resource is told by whether it was handled (Given). The form in   *)
(* which the walk ends (Listed) and what the expansion adds to it          *)
(* (ExpandOf) give the properties of what is shown (Expansive), and these  *)
(* the properties of the output.                                           *)
(***************************************************************************)
EXTENDS PolicyPass, SequenceLemmas, FiniteSetTheorems

-----------------------------------------------------------------------------
(* Types.                                                                  *)

\* The list that is walked and the list of the resources name resources.
TypeOK ==
    /\ heap \in Seq(ResourceRecord)
    /\ lists \in Seq(Seq(1..Len(heap))) /\ lists # <<>>
    /\ pos \in Nat \ {0}
    /\ nested \in Seq(ResourceRecord)
    /\ stage \in {"properties", "expansion", "functions", "written", "failed"}

\* The parts of names that are made.
LEMMA MadeWords ==
    /\ "group" \in Word /\ "scale_in" \in Word /\ "scale_out" \in Word /\ "cluster" \in Word
    /\ "alarm" \in Word /\ "receiver" \in Word /\ "subnet" \in Word
    /\ \A n : Suffix(n) \in Word /\ Suffix(n) \in MadeOf
BY WordAssumption DEF MadeOf, Suffix

\* A name with a part added is a name.
LEMMA AppendName ==
    ASSUME NEW x \in Name, NEW w \in Word
    PROVE  Append(x, w) \in Name
BY AppendApart DEF Name

\* A resource with another field is a resource.
LEMMA EditTyped ==
    ASSUME NEW r \in ResourceRecord
    PROVE  /\ \A p \in Word \cup {NoPolicy} : [r EXCEPT !.policy = p] \in ResourceRecord
           /\ \A refs \in SUBSET Name : [r EXCEPT !.refs = refs] \in ResourceRecord
           /\ \A name \in Name : [r EXCEPT !.name = name] \in ResourceRecord
           /\ \A a \in Int : [r EXCEPT !.adjustment = a] \in ResourceRecord
           /\ \A b \in BOOLEAN : [r EXCEPT !.handled = b] \in ResourceRecord
           /\ \A b \in BOOLEAN : [r EXCEPT !.resolved = b] \in ResourceRecord
BY DEF ResourceRecord

\* A new resource.
LEMMA ResourceTyped ==
    ASSUME NEW name \in Name, NEW kind \in Nodes \cup Policies \cup Made
    PROVE  /\ Resource(name, kind) \in ResourceRecord
           /\ \A p \in Word \cup {NoPolicy} : \A refs \in SUBSET Name :
                [Resource(name, kind) EXCEPT !.policy = p, !.refs = refs] \in ResourceRecord
           /\ \A refs \in SUBSET Name :
                [Resource(name, kind) EXCEPT !.refs = refs] \in ResourceRecord
           /\ \A p \in Word \cup {NoPolicy} :
                [Resource(name, kind) EXCEPT !.policy = p] \in ResourceRecord
<1>1. <<>> \in Name /\ <<>> \in Seq(Name) /\ <<>> \in Seq(Word)
  BY DEF Name
<1>2. Resource(name, kind) \in ResourceRecord
  BY <1>1 DEF Resource, ResourceRecord
<1> QED
  BY <1>2, EditTyped

\* A longer heap has what a list names.
LEMMA ListsGrow ==
    ASSUME NEW m \in Nat, NEW n \in Nat, m <= n
    PROVE  /\ \A l \in Seq(1..m) : l \in Seq(1..n)
           /\ \A ls \in Seq(Seq(1..m)) : ls \in Seq(Seq(1..n))
<1>1. 1..m \subseteq 1..n
  OBVIOUS
<1>2. \A l \in Seq(1..m) : l \in Seq(1..n)
  BY <1>1
<1> QED
  BY <1>2

\* The two lists and the resource that the walk is at.
LEMMA ListsTyped ==
    ASSUME TypeOK
    PROVE  /\ Len(heap) \in Nat /\ DOMAIN heap = 1..Len(heap)
           /\ Walked \in Seq(1..Len(heap)) /\ Hot \in Seq(1..Len(heap))
           /\ Len(lists) \in Nat \ {0} /\ Hot = lists[Len(lists)]
           /\ \A i \in 1..Len(heap) : heap[i] \in ResourceRecord
           /\ Range(Hot) \subseteq DOMAIN heap
           /\ pos <= Len(Walked) => Walked[pos] \in DOMAIN heap /\ Visited \in ResourceRecord
<1>1. /\ Len(heap) \in Nat /\ DOMAIN heap = 1..Len(heap)
      /\ \A i \in 1..Len(heap) : heap[i] \in ResourceRecord
  BY DEF TypeOK
<1>2. Len(lists) \in Nat \ {0} /\ \A k \in 1..Len(lists) : lists[k] \in Seq(1..Len(heap))
  BY DEF TypeOK
<1>3. Walked \in Seq(1..Len(heap)) /\ Hot \in Seq(1..Len(heap)) /\ Hot = lists[Len(lists)]
  BY <1>2 DEF Walked, Hot, Last
<1>4. Range(Hot) \subseteq DOMAIN heap
  BY <1>1, <1>3 DEF Range
<1>5. ASSUME pos <= Len(Walked) PROVE Walked[pos] \in DOMAIN heap /\ Visited \in ResourceRecord
  <2>1. pos \in 1..Len(Walked)
    BY <1>3, <1>5 DEF TypeOK
  <2> QED
    BY <1>1, <1>3, <2>1 DEF Visited
<1> QED
  BY <1>1, <1>2, <1>3, <1>4, <1>5

\* Handling a resource keeps it one.
LEMMA HandledTyped ==
    ASSUME NEW r \in ResourceRecord
    PROVE  Handled(r) \in ResourceRecord /\ OwnHandled(r) \in ResourceRecord
<1>1. Handled(r) \in ResourceRecord
  BY DEF Handled, ResourceRecord
<1>2. CASE OwnsTrigger(r)
  <2>1. r.triggers \in Seq(Word) /\ r.triggers # <<>>
    BY <1>2 DEF OwnsTrigger, ResourceRecord
  <2>2. PICK g : g = r.triggers[1]
    OBVIOUS
  <2>3. <<g>> \in Name
    BY <2>1, <2>2 DEF Name
  <2>4. [Handled(r) EXCEPT !.name = <<g>>] \in ResourceRecord
    BY <1>1, <2>3 DEF ResourceRecord
  <2> QED
    BY <1>1, <1>2, <2>2, <2>4 DEF OwnHandled
<1>3. CASE ~ OwnsTrigger(r)
  BY <1>1, <1>3 DEF OwnHandled
<1> QED
  BY <1>1, <1>2, <1>3

OnceIn(l) == \A a, b \in DOMAIN l : l[a] = l[b] => a = b

\* The elements of a list that repeats none repeat none.
LEMMA FilterOnceIn ==
    ASSUME NEW R, NEW l \in Seq(R), OnceIn(l), NEW T
    PROVE  OnceIn(Filter(l, T))
<1>1. \A i, j \in DOMAIN l : l[i] = l[j] => i = j
  BY DEF OnceIn
<1>2. \A i, j \in DOMAIN Filter(l, T) : Filter(l, T)[i] = Filter(l, T)[j] => i = j
  BY <1>1, FilterOnce
<1> QED
  BY <1>2 DEF OnceIn

\* Split renames the scaling policies of the list, and adds one for each.
SplitOf(h, ls, both) ==
    /\ ToSet(both) = {i \in Range(Last(ls)) : h[i].kind = "ScalingPolicy" /\ h[i].adjustment # 0}
    /\ OnceIn(Last(ls)) => OnceIn(both)
    /\ heap' \in Seq(ResourceRecord) /\ Len(heap') = Len(h) + Len(both)
    /\ \A i \in 1..Len(h) :
            heap'[i] = IF i \in ToSet(both)
                       THEN [h[i] EXCEPT !.name = Append(h[i].name, Suffix(h[i].adjustment))]
                       ELSE h[i]
    /\ \A k \in 1..Len(both) : heap'[Len(h) + k] = Opposite(h[both[k]])
    /\ lists' = [ls EXCEPT ![Len(ls)] = Last(ls) \o [k \in DOMAIN both |-> Len(h) + k]]
    /\ lists' \in Seq(Seq(1..Len(heap'))) /\ Len(lists') = Len(ls)
    /\ both = <<>> => policyRes' = policyRes \cup {Visited.name}

\* What Split does.
LEMMA SplitResult ==
    ASSUME NEW h \in Seq(ResourceRecord), NEW ls \in Seq(Seq(1..Len(h))), ls # <<>>,
           Split(h, ls)
    PROVE  \E both \in Seq(1..Len(h)) : SplitOf(h, ls, both)
<1> DEFINE T == {i \in Range(Last(ls)) : h[i].kind = "ScalingPolicy" /\ h[i].adjustment # 0}
           both == Filter(Last(ls), T)
           Renamed(r) == [r EXCEPT !.name = Append(@, Suffix(r.adjustment))]
           old == [i \in DOMAIN h |-> IF i \in Range(both) THEN Renamed(h[i]) ELSE h[i]]
           new == [k \in DOMAIN both |-> Opposite(h[both[k]])]
           more == [k \in DOMAIN both |-> Len(h) + k]
<1>1. /\ heap' = old \o new
      /\ lists' = [ls EXCEPT ![Len(ls)] = @ \o more]
      /\ policyRes' = policyRes \cup {Visited.name}
            \cup {heap'[i].name : i \in Range(both) \cup (Len(h) + 1 .. Len(heap'))}
  BY DEF Split
<1>2. Last(ls) \in Seq(1..Len(h)) /\ Len(ls) \in 1..Len(ls) /\ Last(ls) = ls[Len(ls)]
  BY DEF Last
<1>3. both \in Seq(1..Len(h)) /\ ToSet(both) = T
  <2>1. both \in Seq(1..Len(h)) /\ ToSet(both) = ToSet(Last(ls)) \cap T
    <3> HIDE DEF T
    <3> QED
      BY <1>2, FilterElements
  <2>2. T \subseteq ToSet(Last(ls))
    BY DEF Range, ToSet
  <2> HIDE DEF T
  <2> QED
    BY <2>1, <2>2
<1>4. OnceIn(Last(ls)) => OnceIn(both)
  <2> HIDE DEF T
  <2> QED
    BY <1>2, FilterOnceIn
<1> HIDE DEF T
<1>5. PICK bs : bs = both
  OBVIOUS
<1>6. bs \in Seq(1..Len(h)) /\ Range(both) = ToSet(bs) /\ DOMAIN bs = 1..Len(bs) /\ Len(bs) \in Nat
  BY <1>3, <1>5 DEF Range, ToSet
<1> HIDE DEF both
<1>7. \A r \in ResourceRecord : \A a \in Int : Append(r.name, Suffix(a)) \in Name
  BY MadeWords, AppendName DEF ResourceRecord
<1>8. \A r \in ResourceRecord : Renamed(r) \in ResourceRecord /\ Opposite(r) \in ResourceRecord
  <2> SUFFICES ASSUME NEW r \in ResourceRecord
               PROVE  Renamed(r) \in ResourceRecord /\ Opposite(r) \in ResourceRecord
    OBVIOUS
  <2>1. r.adjustment \in Int /\ - r.adjustment \in Int
    <3>1. PICK a : a = r.adjustment
      OBVIOUS
    <3>2. a \in Int
      BY <3>1 DEF ResourceRecord
    <3>3. - a \in Int
      BY <3>2
    <3> QED
      BY <3>1, <3>2, <3>3, Zenon
  <2>2. PICK x, y : /\ x = Append(r.name, Suffix(r.adjustment))
                    /\ y = Append(r.name, Suffix(- r.adjustment))
    OBVIOUS
  <2>3. x \in Name /\ y \in Name
    BY <1>7, <2>1, <2>2
  <2>4. [r EXCEPT !.name = x] \in ResourceRecord /\ [r EXCEPT !.name = y] \in ResourceRecord
    BY <2>3, EditTyped
  <2>5. PICK q : q = [r EXCEPT !.name = y]
    OBVIOUS
  <2>6. [q EXCEPT !.adjustment = - r.adjustment] \in ResourceRecord
    BY <2>1, <2>4, <2>5, EditTyped
  <2>7. Renamed(r) = [r EXCEPT !.name = x]
    BY <2>2
  <2>8. Opposite(r) = [q EXCEPT !.adjustment = - r.adjustment]
    BY <2>2, <2>5 DEF Opposite
  <2> QED
    BY <2>4, <2>6, <2>7, <2>8
<1>9. PICK front, back, m : front = old /\ back = new /\ m = more
  OBVIOUS
<1>10. /\ front \in Seq(ResourceRecord) /\ Len(front) = Len(h)
       /\ \A i \in 1..Len(h) : front[i] = IF i \in ToSet(bs) THEN Renamed(h[i]) ELSE h[i]
  <2>1. DOMAIN h = 1..Len(h) /\ Len(h) \in Nat /\ \A i \in 1..Len(h) : h[i] \in ResourceRecord
    OBVIOUS
  <2>2. front = [i \in 1..Len(h) |-> IF i \in ToSet(bs) THEN Renamed(h[i]) ELSE h[i]]
    BY <1>6, <1>9, <2>1, Zenon
  <2> HIDE DEF Renamed
  <2> QED
    BY <1>8, <2>1, <2>2
<1>11. /\ back \in Seq(ResourceRecord) /\ Len(back) = Len(bs)
       /\ \A k \in 1..Len(bs) : back[k] = Opposite(h[bs[k]])
  <2>1. back = [k \in 1..Len(bs) |-> Opposite(h[bs[k]])]
    BY <1>5, <1>6, <1>9, Zenon
  <2>2. \A k \in 1..Len(bs) : h[bs[k]] \in ResourceRecord
    BY <1>6
  <2>3. \A k \in 1..Len(bs) : Opposite(h[bs[k]]) \in ResourceRecord
    BY <1>8, <2>2, Zenon
  <2> QED
    BY <1>6, <2>1, <2>3
<1>12. /\ m \in Seq(1..Len(h) + Len(bs)) /\ m = [k \in DOMAIN bs |-> Len(h) + k]
  BY <1>5, <1>6, <1>9
<1>13. /\ front \o back \in Seq(ResourceRecord) /\ Len(front \o back) = Len(h) + Len(bs)
       /\ \A i \in 1..Len(h) : (front \o back)[i] = front[i]
       /\ \A k \in 1..Len(bs) : (front \o back)[Len(h) + k] = back[k]
  <2>1. /\ front \in Seq(ResourceRecord) /\ Len(front) = Len(h) /\ back \in Seq(ResourceRecord)
        /\ Len(back) = Len(bs) /\ Len(h) \in Nat
    BY <1>10, <1>11
  <2>2. /\ front \o back \in Seq(ResourceRecord) /\ Len(front \o back) = Len(front) + Len(back)
        /\ \A i \in 1..Len(front) : (front \o back)[i] = front[i]
        /\ \A i \in 1..Len(back) : (front \o back)[Len(front) + i] = back[i]
    <3>1. \A s, t \in Seq(ResourceRecord) :
            /\ s \o t \in Seq(ResourceRecord) /\ Len(s \o t) = Len(s) + Len(t)
            /\ \A i \in 1..Len(s) : (s \o t)[i] = s[i]
            /\ \A i \in 1..Len(t) : (s \o t)[Len(s) + i] = t[i]
      BY ConcatPositions
    <3> QED
      BY <2>1, <3>1, Zenon
  <2> QED
    BY <2>1, <2>2, Zenon
<1>14. heap' = front \o back
  BY <1>1, <1>9
<1>15. PICK l : l = Last(ls) \o m
  OBVIOUS
<1>16. lists' = [ls EXCEPT ![Len(ls)] = l]
  <2>1. lists' = [ls EXCEPT ![Len(ls)] = ls[Len(ls)] \o m]
    BY <1>1, <1>9
  <2> QED
    BY <1>2, <1>15, <2>1
<1>17. l \in Seq(1..Len(h) + Len(bs)) /\ ls \in Seq(Seq(1..Len(h) + Len(bs)))
  <2>1. Len(h) \in Nat /\ Len(h) + Len(bs) \in Nat /\ Len(h) <= Len(h) + Len(bs)
    BY <1>6
  <2>2. Last(ls) \in Seq(1..Len(h) + Len(bs)) /\ ls \in Seq(Seq(1..Len(h) + Len(bs)))
    BY <1>2, <2>1, ListsGrow
  <2> QED
    BY <1>12, <1>15, <2>2, ConcatElements
<1>18. lists' \in Seq(Seq(1..Len(h) + Len(bs))) /\ Len(lists') = Len(ls)
  BY <1>2, <1>16, <1>17
<1>19. bs = <<>> => policyRes' = policyRes \cup {Visited.name}
  <2> SUFFICES ASSUME bs = <<>> PROVE policyRes' = policyRes \cup {Visited.name}
    OBVIOUS
  <2>1. Len(heap') = Len(h) + 0
    BY <1>13, <1>14
  <2>2. Range(both) = {}
    BY <1>5 DEF Range
  <2>3. Len(h) + 1 .. Len(heap') = {}
    BY <2>1
  <2> QED
    BY <1>1, <2>2, <2>3
<1>20. heap' \in Seq(ResourceRecord) /\ Len(heap') = Len(h) + Len(bs)
  BY <1>13, <1>14
<1>21. \A i \in 1..Len(h) :
            heap'[i] = IF i \in ToSet(bs)
                       THEN [h[i] EXCEPT !.name = Append(h[i].name, Suffix(h[i].adjustment))]
                       ELSE h[i]
  BY <1>10, <1>13, <1>14
<1>22. \A k \in 1..Len(bs) : heap'[Len(h) + k] = Opposite(h[bs[k]])
  BY <1>11, <1>13, <1>14
<1>23. lists' = [ls EXCEPT ![Len(ls)] = Last(ls) \o [k \in DOMAIN bs |-> Len(h) + k]]
  BY <1>12, <1>15, <1>16
<1>24. lists' \in Seq(Seq(1..Len(heap')))
  BY <1>18, <1>20
<1> QED
  <2>1. ToSet(bs) = {i \in Range(Last(ls)) : h[i].kind = "ScalingPolicy" /\ h[i].adjustment # 0}
    BY <1>3, <1>5 DEF T
  <2>2. OnceIn(Last(ls)) => OnceIn(bs)
    BY <1>4, <1>5
  <2>3. SplitOf(h, ls, bs)
    BY <1>18, <1>19, <1>20, <1>21, <1>22, <1>23, <1>24, <2>1, <2>2, Zenon DEF SplitOf
  <2> QED
    BY <1>6, <2>3

\* What HandleScaling gives to Split.
LEMMA ScaledTyped ==
    ASSUME TypeOK, pos <= Len(Walked)
    PROVE  /\ ScaledHeap \in Seq(ResourceRecord) /\ Len(ScaledHeap) = Len(heap) + 1
           /\ \A i \in 1..Len(heap) :
                ScaledHeap[i] = IF i = Walked[pos]
                    THEN [Handled(Visited) EXCEPT !.adjustment = Visited.increment,
                                                  !.refs = {GroupName(Visited)}]
                    ELSE heap[i]
           /\ ScaledHeap[Len(heap) + 1]
                = [Resource(GroupName(Visited), "Group") EXCEPT !.policy = Visited.policy]
           /\ GroupName(Visited) \in Name
           /\ ScaledList \in Seq(1..Len(heap) + 1)
           /\ <<Walked, ScaledList>> \in Seq(Seq(1..Len(ScaledHeap)))
<1> DEFINE v == Visited
           scaled == [Handled(v) EXCEPT !.adjustment = v.increment, !.refs = {Append(v.name, "group")}]
           group == [Resource(GroupName(v), "Group") EXCEPT !.policy = v.policy]
           T == {i \in Range(Hot) : heap[i].name \notin {heap[m].name : m \in Range(Moved)}}
<1>1. /\ heap \in Seq(ResourceRecord) /\ Len(heap) \in Nat /\ Walked[pos] \in DOMAIN heap
      /\ v \in ResourceRecord
  BY ListsTyped DEF TypeOK
<1>2. GroupName(v) \in Name /\ GroupName(v) = Append(v.name, "group")
  BY <1>1, AppendName, MadeWords DEF GroupName, ResourceRecord
<1>3. scaled \in ResourceRecord
  <2>1. Handled(v) \in ResourceRecord
    BY <1>1, HandledTyped
  <2>2. PICK a, b : a = Handled(v) /\ b = [a EXCEPT !.adjustment = v.increment]
    OBVIOUS
  <2>3. v.increment \in Int /\ {Append(v.name, "group")} \in SUBSET Name
    BY <1>1, <1>2 DEF ResourceRecord
  <2>4. b \in ResourceRecord
    BY <2>1, <2>2, <2>3, EditTyped
  <2>5. [b EXCEPT !.refs = {Append(v.name, "group")}] \in ResourceRecord
    BY <2>3, <2>4, EditTyped
  <2> QED
    BY <2>2, <2>5
<1>4. group \in ResourceRecord
  <2>1. v.policy \in Word \cup {NoPolicy}
    BY <1>1 DEF ResourceRecord
  <2> QED
    BY <1>2, <2>1, ResourceTyped DEF Made
<1>5. PICK s, g, h : s = scaled /\ g = group /\ h = [heap EXCEPT ![Walked[pos]] = s]
  OBVIOUS
<1>6. /\ h \in Seq(ResourceRecord) /\ Len(h) = Len(heap)
      /\ \A i \in 1..Len(heap) : h[i] = IF i = Walked[pos] THEN s ELSE heap[i]
  BY <1>1, <1>3, <1>5
<1>7. ScaledHeap = Append(h, g)
  BY <1>5 DEF ScaledHeap
<1>8. /\ Append(h, g) \in Seq(ResourceRecord) /\ Len(Append(h, g)) = Len(h) + 1
      /\ Append(h, g)[Len(h) + 1] = g /\ \A i \in 1..Len(h) : Append(h, g)[i] = h[i]
  BY <1>4, <1>5, <1>6, AppendProperties
<1>9. ScaledList \in Seq(1..Len(heap) + 1)
  <2>1. Hot \in Seq(1..Len(heap) + 1)
    BY <1>1, ListsTyped, ListsGrow
  <2>2. Filter(Hot, T) \in Seq(1..Len(heap) + 1)
    <3> HIDE DEF T
    <3> QED
      BY <2>1, FilterElements
  <2>3. Len(heap) + 1 \in 1..Len(heap) + 1
    BY <1>1
  <2>4. PICK l : l = Filter(Hot, T)
    OBVIOUS
  <2>5. ScaledList = Append(l, Len(heap) + 1)
    BY <2>4 DEF ScaledList
  <2> QED
    BY <2>2, <2>3, <2>4, <2>5, AppendElements
<1>10. <<Walked, ScaledList>> \in Seq(Seq(1..Len(ScaledHeap)))
  <2>1. Walked \in Seq(1..Len(heap) + 1)
    BY <1>1, ListsTyped, ListsGrow
  <2>2. Len(ScaledHeap) = Len(heap) + 1
    BY <1>6, <1>7, <1>8
  <2>3. PICK a, b : a = Walked /\ b = ScaledList
    OBVIOUS
  <2>4. <<a, b>> \in Seq(Seq(1..Len(heap) + 1))
    BY <1>9, <2>1, <2>3
  <2> QED
    BY <2>2, <2>3, <2>4
<1>11. ScaledHeap \in Seq(ResourceRecord) /\ Len(ScaledHeap) = Len(heap) + 1
  BY <1>6, <1>7, <1>8
<1>12. \A i \in 1..Len(heap) : ScaledHeap[i] = IF i = Walked[pos] THEN s ELSE heap[i]
  BY <1>6, <1>7, <1>8
<1>13. ScaledHeap[Len(heap) + 1] = g
  BY <1>6, <1>7, <1>8
<1>14. scaled = [Handled(Visited) EXCEPT !.adjustment = Visited.increment,
                                         !.refs = {GroupName(Visited)}]
  BY <1>2
<1> QED
  BY <1>2, <1>5, <1>9, <1>10, <1>11, <1>12, <1>13, <1>14

\* Clusters, profiles and policies that HandleCluster makes.
LEMMA ClusterParts ==
    ASSUME TypeOK, pos <= Len(Walked)
    PROVE  /\ Replaced \in Seq(1..Len(heap))
           /\ Range(Replaced) =
                {i \in Range(Hot) : Targeted(i, Visited) /\ heap[i].kind # "SenlinPolicy"}
           /\ \A i \in 1..Len(heap) : Profile(i) \in ResourceRecord
           /\ Clusters(Visited) \in Seq(ResourceRecord)
           /\ Len(Clusters(Visited)) = Len(Visited.targets)
           /\ \A k \in 1..Len(Visited.targets) :
                Clusters(Visited)[k] =
                    [Resource(ClusterName(Visited.targets[k]), "Cluster") EXCEPT
                        !.policy = Visited.policy, !.refs = {Visited.targets[k]}]
           /\ \A k \in 1..Len(Visited.triggers) : TriggerPolicy(Visited, k) \in ResourceRecord
           /\ Len(Visited.targets) \in Nat /\ Len(Visited.triggers) \in Nat
<1> DEFINE v == Visited
           T == {i \in Range(Hot) : Targeted(i, Visited) /\ heap[i].kind # "SenlinPolicy"}
<1>1. /\ heap \in Seq(ResourceRecord) /\ Hot \in Seq(1..Len(heap)) /\ v \in ResourceRecord
      /\ \A i \in 1..Len(heap) : heap[i] \in ResourceRecord
  BY ListsTyped DEF TypeOK
<1>2. /\ v.targets \in Seq(Name) /\ v.triggers \in Seq(Word) /\ v.policy \in Word \cup {NoPolicy}
      /\ v.name \in Name
  BY <1>1 DEF ResourceRecord
<1>3. Replaced \in Seq(1..Len(heap)) /\ Range(Replaced) = T
  <2>1. Filter(Hot, T) \in Seq(1..Len(heap)) /\ ToSet(Filter(Hot, T)) = ToSet(Hot) \cap T
    <3> HIDE DEF T
    <3> QED
      BY <1>1, FilterElements
  <2>2. Replaced = Filter(Hot, T)
    BY DEF Replaced
  <2>3. T \subseteq ToSet(Hot)
    BY DEF Range, ToSet
  <2>4. Range(Replaced) = ToSet(Replaced)
    BY DEF Range, ToSet
  <2> HIDE DEF T
  <2> QED
    BY <2>1, <2>2, <2>3, <2>4
<1>4. ASSUME NEW i \in 1..Len(heap) PROVE Profile(i) \in ResourceRecord
  <2>1. \A j \in PortsOf(i) : heap[j] \in ResourceRecord
    BY <1>1 DEF PortsOf, Range
  <2>2. \A j \in PortsOf(i) : heap[j].refs \subseteq Name
    BY <2>1 DEF ResourceRecord
  <2>3. heap[i].refs \subseteq Name /\ heap[i].name \in Name
    BY <1>1 DEF ResourceRecord
  <2>4. PICK refs : refs = (heap[i].refs \ {heap[j].name : j \in PortsOf(i)})
                                \cup UNION {heap[j].refs : j \in PortsOf(i)}
    OBVIOUS
  <2>5. refs \in SUBSET Name
    BY <2>2, <2>3, <2>4
  <2>6. Profile(i) = [Resource(heap[i].name, "Profile") EXCEPT !.refs = refs]
    BY <2>4 DEF Profile
  <2> QED
    <3>1. "Profile" \in Nodes \cup Policies \cup Made
      BY DEF Made
    <3>2. PICK x : x = heap[i].name
      OBVIOUS
    <3>3. [Resource(x, "Profile") EXCEPT !.refs = refs] \in ResourceRecord
      BY <2>3, <2>5, <3>1, <3>2, ResourceTyped
    <3> QED
      BY <2>6, <3>2, <3>3
<1>5. \A x \in Name : ClusterName(x) \in Name
  BY AppendName, MadeWords DEF ClusterName
<1>6. \A k \in 1..Len(v.targets) : v.targets[k] \in Name
  BY <1>2
<1>7. \A k \in 1..Len(v.targets) :
        [Resource(ClusterName(v.targets[k]), "Cluster") EXCEPT
            !.policy = v.policy, !.refs = {v.targets[k]}] \in ResourceRecord
  BY <1>2, <1>5, <1>6, ResourceTyped DEF Made
<1>8. DOMAIN v.targets = 1..Len(v.targets) /\ Len(v.targets) \in Nat /\ Len(v.triggers) \in Nat
  BY <1>2
<1>9. PICK cs : cs = Clusters(v)
  OBVIOUS
<1>10. cs = [k \in 1..Len(v.targets) |-> [Resource(ClusterName(v.targets[k]), "Cluster") EXCEPT
                        !.policy = v.policy, !.refs = {v.targets[k]}]]
  BY <1>8, <1>9, Zenon DEF Clusters
<1>11. /\ cs \in Seq(ResourceRecord) /\ Len(cs) = Len(v.targets)
       /\ \A k \in 1..Len(v.targets) :
                cs[k] = [Resource(ClusterName(v.targets[k]), "Cluster") EXCEPT
                            !.policy = v.policy, !.refs = {v.targets[k]}]
  <2> DEFINE One(k) == [Resource(ClusterName(v.targets[k]), "Cluster") EXCEPT
                            !.policy = v.policy, !.refs = {v.targets[k]}]
  <2>1. \A k \in 1..Len(v.targets) : One(k) \in ResourceRecord
    BY <1>7
  <2>2. cs = [k \in 1..Len(v.targets) |-> One(k)]
    BY <1>10
  <2> HIDE DEF One
  <2>3. cs \in Seq(ResourceRecord) /\ Len(cs) = Len(v.targets)
        /\ \A k \in 1..Len(v.targets) : cs[k] = One(k)
    BY <1>8, <2>1, <2>2
  <2> QED
    BY <2>3 DEF One
<1>12. ASSUME NEW k \in 1..Len(v.triggers) PROVE TriggerPolicy(v, k) \in ResourceRecord
  <2>1. v.triggers[k] \in Word
    BY <1>2
  <2>2. Append(v.name, v.triggers[k]) \in Name
    BY <1>2, <2>1, AppendName
  <2>3. {Append(t, "cluster") : t \in Range(v.targets)} \in SUBSET Name
    <3>1. \A t \in Range(v.targets) : t \in Name
      BY <1>2 DEF Range
    <3>2. \A t \in Name : Append(t, "cluster") \in Name
      BY AppendName, MadeWords
    <3> QED
      BY <3>1, <3>2
  <2>4. "MadePolicy" \in Nodes \cup Policies \cup Made
    BY DEF Made
  <2> QED
    BY <1>2, <2>2, <2>3, <2>4, ResourceTyped DEF TriggerPolicy
<1> QED
  BY <1>3, <1>4, <1>8, <1>9, <1>11, <1>12

\* ClusterHeap for the policy v, with the profiles of rs, the clusters of tg
\* and the policies of tr.
ClusterMade(v, m, rs, tg, tr) ==
    /\ ClusterHeap \in Seq(ResourceRecord)
    /\ Len(ClusterHeap) = m + Len(rs) + Len(tg) + (Len(tr) - 1)
    /\ \A i \in 1..m :
            ClusterHeap[i] = IF i = Walked[pos]
                THEN [Handled(v) EXCEPT !.name = TriggerPolicy(v, Len(tr)).name,
                                        !.refs = TriggerPolicy(v, Len(tr)).refs]
                ELSE heap[i]
    /\ \A k \in 1..Len(rs) : ClusterHeap[m + k] = Profile(rs[k])
    /\ \A k \in 1..Len(tg) : ClusterHeap[m + Len(rs) + k] = Clusters(v)[k]
    /\ \A k \in 1..(Len(tr) - 1) :
            ClusterHeap[m + Len(rs) + Len(tg) + k] = TriggerPolicy(v, k)

\* What HandleCluster gives to Split.
LEMMA ClusterHeapTyped ==
    ASSUME TypeOK, pos <= Len(Walked), NEW v \in ResourceRecord, v = Visited,
           NEW m \in Nat, m = Len(heap), NEW rs \in Seq(1..m), rs = Replaced,
           NEW tg \in Seq(Name), tg = v.targets,
           NEW tr \in Seq(Word), tr = v.triggers, Len(tr) # 0
    PROVE  ClusterMade(v, m, rs, tg, tr)
<1> DEFINE last == TriggerPolicy(v, Len(tr))
           own == [Handled(v) EXCEPT !.name = last.name, !.refs = last.refs]
<1>1. /\ heap \in Seq(ResourceRecord) /\ Walked[pos] \in DOMAIN heap
      /\ \A i \in 1..Len(heap) : heap[i] \in ResourceRecord
  BY ListsTyped DEF TypeOK
<1>2. PICK k1, k2, k3 : k1 = Len(rs) /\ k2 = Len(tg) /\ k3 = Len(tr) - 1
  OBVIOUS
<1>3. /\ k1 \in Nat /\ k2 \in Nat /\ k3 \in Nat
      /\ Len(tr) \in 1..Len(tr) /\ k3 <= Len(tr)
  BY <1>2
<1>4. /\ \A i \in 1..m : Profile(i) \in ResourceRecord
      /\ Clusters(v) \in Seq(ResourceRecord) /\ Len(Clusters(v)) = k2
      /\ \A k \in 1..Len(tr) : TriggerPolicy(v, k) \in ResourceRecord
  BY <1>2, ClusterParts, Zenon
<1>5. own \in ResourceRecord
  <2>1. last \in ResourceRecord
    BY <1>3, <1>4
  <2>2. last.name \in Name /\ last.refs \in SUBSET Name
    BY <2>1 DEF ResourceRecord
  <2>3. PICK a, b : a = Handled(v) /\ b = [a EXCEPT !.name = last.name]
    OBVIOUS
  <2>4. b \in ResourceRecord
    BY <2>2, <2>3, HandledTyped, EditTyped
  <2>5. [b EXCEPT !.refs = last.refs] \in ResourceRecord
    BY <2>2, <2>4, EditTyped
  <2> QED
    BY <2>3, <2>5
<1>6. PICK s, a, b, c, d :
        /\ s = own /\ a = [heap EXCEPT ![Walked[pos]] = s]
        /\ b = [k \in DOMAIN Replaced |-> Profile(Replaced[k])] /\ c = Clusters(v)
        /\ d = [k \in 1 .. Len(v.triggers) - 1 |-> TriggerPolicy(v, k)]
  OBVIOUS
<1>7. /\ a \in Seq(ResourceRecord) /\ Len(a) = m
      /\ \A i \in 1..m : a[i] = IF i = Walked[pos] THEN s ELSE heap[i]
  BY <1>1, <1>5, <1>6
<1>8. b \in Seq(ResourceRecord) /\ Len(b) = k1 /\ \A k \in 1..k1 : b[k] = Profile(rs[k])
  <2>1. DOMAIN rs = 1..k1 /\ \A k \in 1..k1 : rs[k] \in 1..m
    BY <1>2
  <2>2. \A k \in 1..k1 : Profile(rs[k]) \in ResourceRecord
    BY <1>4, <2>1
  <2>3. b = [k \in 1..k1 |-> Profile(rs[k])]
    BY <1>6, <2>1, Zenon
  <2> QED
    BY <1>3, <2>2, <2>3
<1>9. c \in Seq(ResourceRecord) /\ Len(c) = k2
  BY <1>4, <1>6
<1>10. d \in Seq(ResourceRecord) /\ Len(d) = k3 /\ \A k \in 1..k3 : d[k] = TriggerPolicy(v, k)
  <2>1. \A k \in 1..k3 : TriggerPolicy(v, k) \in ResourceRecord
    <3>1. \A k \in 1..k3 : k \in 1..Len(tr)
      BY <1>3
    <3> QED
      BY <1>4, <3>1
  <2>2. d = [k \in 1..k3 |-> TriggerPolicy(v, k)]
    BY <1>2, <1>6
  <2> QED
    BY <1>3, <2>1, <2>2
<1>11. \A x, y \in Seq(ResourceRecord) :
            /\ x \o y \in Seq(ResourceRecord) /\ Len(x \o y) = Len(x) + Len(y)
            /\ \A i \in 1..Len(x) : (x \o y)[i] = x[i]
            /\ \A i \in 1..Len(y) : (x \o y)[Len(x) + i] = y[i]
  BY ConcatPositions
<1>12. PICK ab, abc, all : ab = a \o b /\ abc = ab \o c /\ all = abc \o d
  OBVIOUS
<1>13. /\ ab \in Seq(ResourceRecord) /\ Len(ab) = m + k1
       /\ \A i \in 1..m : ab[i] = a[i]
       /\ \A i \in 1..k1 : ab[m + i] = b[i]
  <2>1. /\ ab \in Seq(ResourceRecord) /\ Len(ab) = Len(a) + Len(b)
        /\ \A i \in 1..Len(a) : ab[i] = a[i]
        /\ \A i \in 1..Len(b) : ab[Len(a) + i] = b[i]
    BY <1>7, <1>8, <1>11, <1>12, Zenon
  <2>2. Len(a) = m /\ Len(b) = k1
    BY <1>7, <1>8, <1>11, <1>12
  <2> QED
    BY <2>1, <2>2, Zenon
<1>14. /\ abc \in Seq(ResourceRecord) /\ Len(abc) = m + k1 + k2
       /\ \A i \in 1..(m + k1) : abc[i] = ab[i]
       /\ \A i \in 1..k2 : abc[m + k1 + i] = c[i]
  <2>1. /\ abc \in Seq(ResourceRecord) /\ Len(abc) = Len(ab) + Len(c)
        /\ \A i \in 1..Len(ab) : abc[i] = ab[i]
        /\ \A i \in 1..Len(c) : abc[Len(ab) + i] = c[i]
    BY <1>9, <1>11, <1>12, <1>13, Zenon
  <2>2. Len(ab) = m + k1 /\ Len(c) = k2
    BY <1>9, <1>11, <1>12, <1>13
  <2> QED
    BY <2>1, <2>2, Zenon
<1>15. /\ all \in Seq(ResourceRecord) /\ Len(all) = m + k1 + k2 + k3
       /\ \A i \in 1..(m + k1 + k2) : all[i] = abc[i]
       /\ \A i \in 1..k3 : all[m + k1 + k2 + i] = d[i]
  <2>1. /\ all \in Seq(ResourceRecord) /\ Len(all) = Len(abc) + Len(d)
        /\ \A i \in 1..Len(abc) : all[i] = abc[i]
        /\ \A i \in 1..Len(d) : all[Len(abc) + i] = d[i]
    <3>1. abc \in Seq(ResourceRecord) /\ d \in Seq(ResourceRecord) /\ all = abc \o d
      BY <1>10, <1>12, <1>14
    <3> QED
      BY <1>11, <3>1, Zenon
  <2>2. Len(abc) = m + k1 + k2 /\ Len(d) = k3
    BY <1>10, <1>11, <1>12, <1>14
  <2> QED
    BY <2>1, <2>2, Zenon
<1>16. /\ \A i \in 1..m : i \in 1..(m + k1) /\ i \in 1..(m + k1 + k2)
       /\ \A i \in 1..k1 : m + i \in 1..(m + k1) /\ m + i \in 1..(m + k1 + k2)
       /\ \A i \in 1..k2 : m + k1 + i \in 1..(m + k1 + k2)
  BY <1>3
<1>17. ClusterHeap = all
  <2>1. ClusterHeap = ((a \o b) \o c) \o d
    BY <1>6 DEF ClusterHeap
  <2> QED
    BY <1>12, <2>1
<1> HIDE DEF own
<1>18. \A i \in 1..m : all[i] = IF i = Walked[pos] THEN own ELSE heap[i]
  BY <1>6, <1>7, <1>13, <1>14, <1>15, <1>16, Zenon
<1>19. \A k \in 1..k1 : all[m + k] = Profile(rs[k])
  <2> SUFFICES ASSUME NEW k \in 1..k1 PROVE all[m + k] = Profile(rs[k])
    OBVIOUS
  <2>1. all[m + k] = abc[m + k]
    BY <1>15, <1>16, Zenon
  <2>2. abc[m + k] = ab[m + k]
    BY <1>14, <1>16, Zenon
  <2> QED
    BY <1>8, <1>13, <2>1, <2>2, Zenon
<1>20. \A k \in 1..k2 : all[m + k1 + k] = Clusters(v)[k]
  BY <1>6, <1>14, <1>15, <1>16, Zenon
<1>21. \A k \in 1..k3 : all[m + k1 + k2 + k] = TriggerPolicy(v, k)
  BY <1>10, <1>15, Zenon
<1>22. \A i \in 1..m : ClusterHeap[i] = IF i = Walked[pos]
                    THEN [Handled(v) EXCEPT !.name = TriggerPolicy(v, Len(tr)).name,
                                            !.refs = TriggerPolicy(v, Len(tr)).refs]
                    ELSE heap[i]
  BY <1>17, <1>18 DEF own
<1> QED
  BY <1>2, <1>15, <1>17, <1>19, <1>20, <1>21, <1>22, Zenon DEF ClusterMade

\* The resources that HandleCluster leaves in the list.
Staying == {i \in Range(Hot) : heap[i].kind \notin {"Port", "Net"}}

\* The place of an element in Replaced.
PlaceOf(rs, x) == CHOOSE n \in DOMAIN rs : rs[n] = x

\* ClusterList is first and more; first has the profile of a resource that is
\* replaced and the other resources that stay.
MadeList(q, m, rs, stays, first, more) ==
    /\ stays \in Seq(1..m) /\ first \in Seq(1..q) /\ more \in Seq(1..q)
    /\ stays = Filter(Hot, Staying) /\ ToSet(stays) = Staying
    /\ ClusterList = first \o more
    /\ Len(first) = Len(stays) /\ Len(more) = q - m - Len(rs)
    /\ \A k \in 1..Len(stays) :
            first[k] = IF stays[k] \in Range(rs) THEN m + PlaceOf(rs, stays[k])
                                                ELSE stays[k]
    /\ \A k \in 1..(q - m - Len(rs)) : more[k] = m + Len(rs) + k

\* The list of HandleCluster: what stays, with profiles for servers, and then
\* the clusters and the policies.
LEMMA ClusterListTyped ==
    ASSUME TypeOK, NEW q \in Nat, q = Len(ClusterHeap),
           NEW m \in Nat, m = Len(heap), NEW rs \in Seq(1..m), rs = Replaced,
           m + Len(rs) <= q
    PROVE  /\ ClusterList \in Seq(1..q)
           /\ \E stays, first, more : MadeList(q, m, rs, stays, first, more)
<1>1. Hot \in Seq(1..m)
  BY ListsTyped
<1>2. PICK k1 : k1 = Len(rs)
  OBVIOUS
<1>3. k1 \in Nat /\ m + k1 <= q
  BY <1>2
<1>4. PICK stays : stays = Filter(Hot, Staying)
  OBVIOUS
<1>5. stays \in Seq(1..m) /\ ToSet(stays) = Staying
  <2>1. stays \in Seq(1..m) /\ ToSet(stays) = ToSet(Hot) \cap Staying
    BY <1>1, <1>4, FilterElements
  <2>2. Staying \subseteq ToSet(Hot)
    BY DEF Staying, Range, ToSet
  <2> QED
    BY <2>1, <2>2
<1> DEFINE Of1(k) == IF stays[k] \in Range(rs) THEN m + PlaceOf(rs, stays[k]) ELSE stays[k]
<1>6. PICK first, more : /\ first = [k \in 1..Len(stays) |-> Of1(k)]
                         /\ more = [k \in 1..(q - m - k1) |-> m + k1 + k]
  OBVIOUS
<1>7. ClusterList = first \o more
  <2>1. DOMAIN stays = 1..Len(stays)
    BY <1>5
  <2>2. ClusterList = [k \in DOMAIN stays |-> Of1(k)] \o [k \in 1..(q - m - k1) |-> m + k1 + k]
    BY <1>2, <1>4 DEF ClusterList, Staying, PlaceOf
  <2> HIDE DEF Of1
  <2> QED
    BY <1>6, <2>1, <2>2
<1>8. \A k \in 1..Len(stays) : Of1(k) \in 1..q
  <2> SUFFICES ASSUME NEW k \in 1..Len(stays) PROVE Of1(k) \in 1..q
    OBVIOUS
  <2>1. stays[k] \in 1..m
    BY <1>5
  <2>2. CASE stays[k] \in Range(rs)
    <3>1. \E n \in DOMAIN rs : rs[n] = stays[k]
      BY <2>2 DEF Range
    <3>2. PICK n : n = PlaceOf(rs, stays[k])
      OBVIOUS
    <3>3. n \in DOMAIN rs
      BY <3>1, <3>2, Zenon DEF PlaceOf
    <3>4. n \in 1..k1
      BY <1>2, <3>3
    <3>5. Of1(k) = m + n
      BY <2>2, <3>2
    <3> HIDE DEF Of1
    <3> QED
      BY <1>3, <3>4, <3>5
  <2>3. CASE stays[k] \notin Range(rs)
    BY <1>3, <2>1, <2>3
  <2> QED
    BY <2>2, <2>3
<1>9. /\ first \in Seq(1..q) /\ Len(first) = Len(stays)
      /\ \A k \in 1..Len(stays) : first[k] = Of1(k)
  <2>1. Len(stays) \in Nat
    BY <1>5
  <2> HIDE DEF Of1
  <2> QED
    BY <1>6, <1>8, <2>1
<1>10. /\ more \in Seq(1..q) /\ Len(more) = q - m - k1
       /\ \A k \in 1..(q - m - k1) : more[k] = m + k1 + k
  <2>1. PICK k2 : k2 = q - m - k1
    OBVIOUS
  <2>2. k2 \in Nat /\ q = m + k1 + k2
    BY <1>3, <2>1
  <2>3. \A k \in 1..k2 : m + k1 + k \in 1..q
    BY <1>3, <2>2
  <2>4. more = [k \in 1..k2 |-> m + k1 + k]
    BY <1>6, <2>1
  <2>5. more \in Seq(1..q) /\ Len(more) = k2 /\ \A k \in 1..k2 : more[k] = m + k1 + k
    BY <2>2, <2>3, <2>4
  <2> QED
    BY <2>1, <2>5, Zenon
<1>11. ClusterList \in Seq(1..q)
  BY <1>7, <1>9, <1>10, ConcatElements
<1>12. \A k \in 1..(q - m - Len(rs)) : more[k] = m + Len(rs) + k
  BY <1>2, <1>10, Zenon
<1>13. Len(more) = q - m - Len(rs)
  BY <1>2, <1>10, Zenon
<1>14. MadeList(q, m, rs, stays, first, more)
  BY <1>4, <1>5, <1>7, <1>9, <1>10, <1>12, <1>13, Zenon DEF MadeList
<1> QED
  BY <1>11, <1>14, Zenon

-----------------------------------------------------------------------------
(* What a resource expands to.                                             *)

ReceiverName(t, g) == t \o <<g, "receiver">>

Receiver(r, t, g) == Of(r, ReceiverName(t, g), "Receiver", {ClusterName(t)})

TriggerAlarm(r, g) ==
    Of(r, <<g, "alarm">>, "Alarm", {ReceiverName(t, g) : t \in Range(r.targets)})

PlainAlarm(r, g) == Of(r, <<g>>, "Alarm", {})

Subnet(r) == Of(r, Append(r.name, "subnet"), "Subnet", {r.name})

ScalingAlarm(r) == Of(r, AlarmName(r.name), "Alarm", {})

Triggered(r) == Len(r.triggers) # 0

Receivers(r) == {Receiver(r, t, g) : t \in Range(r.targets), g \in Range(r.triggers)}

TriggerAlarms(r) == {TriggerAlarm(r, g) : g \in Range(r.triggers)}

\* The elements of the expansion of r.
Expanded(r) ==
    CASE r.kind = "Net" /\ ~ r.hidden -> {Subnet(r)}
      [] r.kind = "ScalingPolicy" /\ Triggered(r) -> {ScalingAlarm(r)}
      [] r.kind = "SenlinPolicy" -> Receivers(r) \cup TriggerAlarms(r)
      [] r.kind = "Monitoring" -> {PlainAlarm(r, g) : g \in Range(Unfiltered(r))}
      [] r.kind = "Reservation" /\ r.handled -> {PlainAlarm(r, g) : g \in Range(r.triggers)}
      [] OTHER -> {}

\* What is made of a resource is one.
LEMMA OfTyped ==
    ASSUME NEW r \in ResourceRecord, NEW name \in Name, NEW kind \in Made, NEW refs \in SUBSET Name
    PROVE  Of(r, name, kind, refs) \in ResourceRecord
<1>1. r.policy \in Word \cup {NoPolicy} /\ kind \in Nodes \cup Policies \cup Made
  BY DEF ResourceRecord
<1> QED
  BY <1>1, ResourceTyped DEF Of

\* A subnet that is made is one as well.
LEMMA SubnetTyped ==
    ASSUME NEW r \in ResourceRecord
    PROVE  Subnet(r) \in ResourceRecord
<1>1. r.name \in Name /\ r.policy \in Word \cup {NoPolicy} /\ Append(r.name, "subnet") \in Name
  BY AppendName, MadeWords DEF ResourceRecord
<1>2. "Subnet" \in Nodes \cup Policies \cup Made /\ {r.name} \in SUBSET Name
  BY <1>1 DEF Nodes
<1> QED
  BY <1>1, <1>2, ResourceTyped DEF Subnet, Of

\* The parts of a resource that expands.
LEMMA PartsTyped ==
    ASSUME NEW r \in ResourceRecord
    PROVE  /\ r.name \in Name /\ r.targets \in Seq(Name) /\ r.triggers \in Seq(Word)
           /\ Len(r.triggers) \in Nat
           /\ Range(r.targets) \subseteq Name /\ Range(r.triggers) \subseteq Word
           /\ Unfiltered(r) \in Seq(Word) /\ Range(Unfiltered(r)) \subseteq Range(r.triggers)
<1>1. r.name \in Name /\ r.targets \in Seq(Name) /\ r.triggers \in Seq(Word)
  BY DEF ResourceRecord
<1>2. PICK tr, tg : tr = r.triggers /\ tg = r.targets
  OBVIOUS
<1>3. tr \in Seq(Word) /\ tg \in Seq(Name)
  BY <1>1, <1>2
<1>4. Range(tg) \subseteq Name /\ Range(tr) \subseteq Word /\ Len(tr) \in Nat
  BY <1>3 DEF Range
<1>5. CASE tr = <<>> \/ ~ r.handled
  <2>1. Unfiltered(r) = tr
    BY <1>2, <1>5 DEF Unfiltered
  <2> QED
    BY <1>1, <1>2, <1>3, <1>4, <2>1
<1>6. CASE tr # <<>> /\ r.handled
  <2>1. Unfiltered(r) = Tail(tr)
    BY <1>2, <1>6 DEF Unfiltered
  <2>2. PICK t : t = Tail(tr)
    OBVIOUS
  <2>3. t \in Seq(Word) /\ Len(t) = Len(tr) - 1 /\ \A i \in 1..Len(t) : t[i] = tr[i + 1]
    BY <1>3, <1>6, <2>2
  <2>4. Range(t) \subseteq Range(tr)
    <3>1. \A i \in DOMAIN t : i + 1 \in DOMAIN tr /\ t[i] = tr[i + 1]
      <4>1. PICK n, k : n = Len(tr) /\ k = Len(t)
        OBVIOUS
      <4>2. n \in Nat /\ k \in Nat /\ k = n - 1 /\ DOMAIN tr = 1..n /\ DOMAIN t = 1..k
        BY <1>3, <2>3, <4>1
      <4>3. \A i \in 1..k : i + 1 \in 1..n
        BY <4>2
      <4> QED
        BY <2>3, <4>1, <4>2, <4>3, Zenon
    <3> QED
      BY <3>1 DEF Range
  <2> QED
    BY <1>1, <1>2, <1>4, <2>1, <2>2, <2>3, <2>4
<1> QED
  BY <1>5, <1>6

\* Names of what a policy expands to.
LEMMA ExpandedNames ==
    /\ \A t \in Name, g \in Word : ReceiverName(t, g) \in Name /\ Last(ReceiverName(t, g)) = "receiver"
                                    /\ ReceiverName(t, g) # <<>>
    /\ \A g \in Word : <<g, "alarm">> \in Name /\ <<g>> \in Name
    /\ \A x \in Name : AlarmName(x) \in Name /\ ClusterName(x) \in Name
<1>1. ASSUME NEW t \in Name, NEW g \in Word
      PROVE  /\ ReceiverName(t, g) \in Name /\ Last(ReceiverName(t, g)) = "receiver"
             /\ ReceiverName(t, g) # <<>>
  <2>1. PICK w, p : w = "receiver" /\ p = <<g, w>>
    OBVIOUS
  <2>2. w \in Word
    BY <2>1, MadeWords
  <2>3. p \in Seq(Word) /\ Len(p) = 2 /\ p[2] = w
    BY <2>1, <2>2
  <2>4. PICK u : u = t \o p
    OBVIOUS
  <2>5. t \in Seq(Word)
    BY DEF Name
  <2>6. u \in Seq(Word) /\ Len(u) = Len(t) + 2 /\ u[Len(t) + 2] = w /\ Len(t) \in Nat
    <3>1. /\ \A x, y \in Seq(Word) : /\ x \o y \in Seq(Word) /\ Len(x \o y) = Len(x) + Len(y)
                                     /\ \A i \in 1..Len(y) : (x \o y)[Len(x) + i] = y[i]
      BY ConcatPositions
    <3>2. u \in Seq(Word) /\ Len(u) = Len(t) + Len(p) /\ \A i \in 1..Len(p) : u[Len(t) + i] = p[i]
      BY <2>3, <2>4, <2>5, <3>1, Zenon
    <3>3. 2 \in 1..Len(p)
      BY <2>3
    <3> QED
      BY <2>3, <2>5, <3>2, <3>3
  <2>7. u = ReceiverName(t, g)
    BY <2>1, <2>4 DEF ReceiverName
  <2>8. Last(u) = w /\ u # <<>>
    BY <2>6 DEF Last
  <2> QED
    BY <2>1, <2>6, <2>7, <2>8 DEF Name
<1>2. ASSUME NEW g \in Word PROVE <<g, "alarm">> \in Name /\ <<g>> \in Name
  <2>1. PICK w : w = "alarm"
    OBVIOUS
  <2>2. w \in Word
    BY <2>1, MadeWords
  <2>3. <<g, w>> \in Seq(Word) /\ <<g>> \in Seq(Word)
    BY <2>2
  <2> QED
    BY <2>1, <2>3 DEF Name
<1>3. ASSUME NEW x \in Name PROVE AlarmName(x) \in Name /\ ClusterName(x) \in Name
  <2>1. PICK T : T = Range(x) \ {"scale_in", "scale_out"}
    OBVIOUS
  <2>2. Filter(x, T) \in Name
    BY FilterElements DEF Name
  <2>3. AlarmName(x) = Append(Filter(x, T), "alarm")
    BY <2>1 DEF AlarmName
  <2> QED
    BY <2>2, <2>3, AppendName, MadeWords DEF ClusterName
<1> QED
  BY <1>1, <1>2, <1>3

\* A function on the places of a list is a list.
LEMMA MappedList ==
    ASSUME NEW A, NEW s \in Seq(A), NEW R, NEW l \in [DOMAIN s -> R]
    PROVE  l \in Seq(R) /\ Len(l) = Len(s) /\ DOMAIN l = DOMAIN s
<1>1. PICK n : n = Len(s)
  OBVIOUS
<1>2. n \in Nat /\ DOMAIN s = 1..n
  BY <1>1
<1>3. l \in [1..n -> R]
  BY <1>2
<1> QED
  BY <1>1, <1>2, <1>3

\* The expansion of a cluster policy.
LEMMA ClusterExpansionTyped ==
    ASSUME NEW r \in ResourceRecord
    PROVE  /\ ClusterExpansion(r) \in Seq(ResourceRecord)
           /\ ToSet(ClusterExpansion(r)) = Receivers(r) \cup TriggerAlarms(r)
<1>1. PICK tg, tr : tg = r.targets /\ tr = r.triggers
  OBVIOUS
<1>2. tg \in Seq(Name) /\ tr \in Seq(Word) /\ Range(tg) \subseteq Name /\ Range(tr) \subseteq Word
  BY <1>1, PartsTyped
<1>3. \A t \in Name, g \in Word : Receiver(r, t, g) \in ResourceRecord
  <2> SUFFICES ASSUME NEW t \in Name, NEW g \in Word PROVE Receiver(r, t, g) \in ResourceRecord
    OBVIOUS
  <2>1. ReceiverName(t, g) \in Name /\ {ClusterName(t)} \in SUBSET Name
    BY ExpandedNames
  <2>2. "Receiver" \in Made
    BY DEF Made
  <2> QED
    BY <2>1, <2>2, OfTyped DEF Receiver
<1>4. \A g \in Word : TriggerAlarm(r, g) \in ResourceRecord
  <2> SUFFICES ASSUME NEW g \in Word PROVE TriggerAlarm(r, g) \in ResourceRecord
    OBVIOUS
  <2>1. <<g, "alarm">> \in Name
    BY ExpandedNames
  <2>2. {ReceiverName(t, g) : t \in Range(r.targets)} \in SUBSET Name
    BY <1>1, <1>2, ExpandedNames
  <2>3. "Alarm" \in Made
    BY DEF Made
  <2> QED
    BY <2>1, <2>2, <2>3, OfTyped DEF TriggerAlarm
<1>5. PICK row :
        row = [n \in DOMAIN tg |-> [k \in DOMAIN tr |-> Receiver(r, tg[n], tr[k])]]
  OBVIOUS
<1>6. PICK alarms : alarms = [k \in DOMAIN tr |-> TriggerAlarm(r, tr[k])]
  OBVIOUS
<1>7. ClusterExpansion(r) = FlattenSeq(row) \o alarms
  BY <1>1, <1>5, <1>6, Zenon DEF ClusterExpansion, Receiver, TriggerAlarm, ReceiverName
<1>8. /\ \A n \in DOMAIN tg : tg[n] \in Name
      /\ \A k \in DOMAIN tr : tr[k] \in Word
  BY <1>2
<1>9. alarms \in Seq(ResourceRecord) /\ ToSet(alarms) = TriggerAlarms(r)
  <2>1. alarms \in [DOMAIN tr -> ResourceRecord]
    BY <1>4, <1>6, <1>8, Zenon
  <2>2. alarms \in Seq(ResourceRecord) /\ ToSet(alarms) = {alarms[k] : k \in DOMAIN tr}
    BY <1>2, <2>1, MappedList DEF ToSet
  <2>3. \A k \in DOMAIN tr : alarms[k] = TriggerAlarm(r, tr[k])
    BY <1>6
  <2> QED
    BY <1>1, <2>2, <2>3 DEF Range, TriggerAlarms
<1>10. \A n \in DOMAIN tg :
        row[n] \in Seq(ResourceRecord) /\ ToSet(row[n]) = {Receiver(r, tg[n], g) : g \in Range(tr)}
  <2> SUFFICES ASSUME NEW n \in DOMAIN tg
               PROVE  row[n] \in Seq(ResourceRecord)
                      /\ ToSet(row[n]) = {Receiver(r, tg[n], g) : g \in Range(tr)}
    OBVIOUS
  <2>1. PICK l : l = row[n]
    OBVIOUS
  <2>2. l = [k \in DOMAIN tr |-> Receiver(r, tg[n], tr[k])]
    BY <1>5, <2>1, Zenon
  <2>3. l \in [DOMAIN tr -> ResourceRecord]
    BY <1>3, <1>8, <2>2, Zenon
  <2>4. l \in Seq(ResourceRecord) /\ ToSet(l) = {l[k] : k \in DOMAIN tr}
    BY <1>2, <2>3, MappedList DEF ToSet
  <2>5. \A k \in DOMAIN tr : l[k] = Receiver(r, tg[n], tr[k])
    BY <2>2
  <2> QED
    BY <2>1, <2>4, <2>5, Zenon DEF Range
<1>11. row \in Seq(Seq(ResourceRecord)) /\ DOMAIN row = DOMAIN tg
  <2>1. row \in [DOMAIN tg -> Seq(ResourceRecord)]
    <3>1. \A n \in DOMAIN tg : [k \in DOMAIN tr |-> Receiver(r, tg[n], tr[k])] \in Seq(ResourceRecord)
      BY <1>5, <1>10, Zenon
    <3> QED
      BY <1>5, <3>1, Zenon
  <2>2. row \in Seq(Seq(ResourceRecord))
    BY <1>2, <2>1, MappedList
  <2> QED
    BY <2>1, <2>2, Zenon
<1>12. /\ FlattenSeq(row) \in Seq(ResourceRecord)
       /\ ToSet(FlattenSeq(row)) = UNION {ToSet(row[n]) : n \in DOMAIN row}
  BY <1>11, FlattenElements
<1>13. UNION {ToSet(row[n]) : n \in DOMAIN row} = Receivers(r)
  <2>1. \A n \in DOMAIN row : ToSet(row[n]) = {Receiver(r, tg[n], g) : g \in Range(tr)}
    BY <1>10, <1>11
  <2>2. Receivers(r) = {Receiver(r, t, g) : t \in Range(tg), g \in Range(tr)}
    BY <1>1 DEF Receivers
  <2>3. Range(tg) = {tg[n] : n \in DOMAIN row}
    BY <1>11 DEF Range
  <2> QED
    BY <2>1, <2>2, <2>3
<1>14. /\ FlattenSeq(row) \o alarms \in Seq(ResourceRecord)
       /\ ToSet(FlattenSeq(row) \o alarms) = ToSet(FlattenSeq(row)) \cup ToSet(alarms)
  BY <1>9, <1>12, ConcatElements
<1> QED
  BY <1>7, <1>9, <1>12, <1>13, <1>14

\* An alarm for each of some triggers.
LEMMA PlainAlarmsTyped ==
    ASSUME NEW r \in ResourceRecord, NEW tr \in Seq(Word), Range(tr) \subseteq Word,
           NEW l, l = [k \in DOMAIN tr |-> PlainAlarm(r, tr[k])]
    PROVE  l \in Seq(ResourceRecord) /\ ToSet(l) = {PlainAlarm(r, g) : g \in Range(tr)}
<1>1. \A g \in Word : PlainAlarm(r, g) \in ResourceRecord
  <2>1. \A g \in Word : <<g>> \in Name
    BY ExpandedNames
  <2>2. "Alarm" \in Made /\ {} \in SUBSET Name
    BY DEF Made
  <2> QED
    BY <2>1, <2>2, OfTyped DEF PlainAlarm
<1>2. \A k \in DOMAIN tr : tr[k] \in Word
  OBVIOUS
<1>3. l \in [DOMAIN tr -> ResourceRecord]
  BY <1>1, <1>2, Zenon
<1>4. l \in Seq(ResourceRecord) /\ ToSet(l) = {l[k] : k \in DOMAIN tr}
  BY <1>3, MappedList DEF ToSet
<1>5. \A k \in DOMAIN tr : l[k] = PlainAlarm(r, tr[k])
  OBVIOUS
<1> QED
  BY <1>4, <1>5, Zenon DEF Range

\* The expansion of a resource is a list of resources.
LEMMA ExpansionTyped ==
    ASSUME NEW r \in ResourceRecord
    PROVE  Expansion(r) \in Seq(ResourceRecord) /\ ToSet(Expansion(r)) = Expanded(r)
<1>0. <<>> \in Seq(ResourceRecord) /\ ToSet(<<>>) = {}
  BY DEF ToSet
<1>1. PICK tr : tr = r.triggers
  OBVIOUS
<1>2. tr \in Seq(Word) /\ Range(tr) \subseteq Word
  BY <1>1, PartsTyped
<1>3. CASE r.kind = "Net"
  <2>1. CASE ~ r.hidden
    <3>1. PICK x : x = Subnet(r)
      OBVIOUS
    <3>2. Expansion(r) = <<x>> /\ Expanded(r) = {x}
      BY <1>3, <2>1, <3>1 DEF Expansion, Expanded, Subnet
    <3>3. x \in ResourceRecord
      BY <3>1, SubnetTyped
    <3>4. <<x>> \in Seq(ResourceRecord)
      BY <3>3
    <3> QED
      BY <3>2, <3>4, SingleElement
  <2>2. CASE r.hidden
    <3>1. Expansion(r) = <<>> /\ Expanded(r) = {}
      BY <1>3, <2>2 DEF Expansion, Expanded
    <3> QED
      BY <1>0, <3>1
  <2> QED
    BY <2>1, <2>2
<1>4. CASE r.kind = "ScalingPolicy"
  <2>0. Triggered(r) <=> r.triggers # <<>>
    <3>1. Len(tr) # 0 <=> tr # <<>>
      BY <1>2
    <3> QED
      BY <1>1, <3>1, Zenon DEF Triggered
  <2>3. Expansion(r) = IF r.triggers # <<>> THEN <<ScalingAlarm(r)>> ELSE <<>>
    BY <1>4 DEF Expansion, ScalingAlarm
  <2>4. Expanded(r) = IF Triggered(r) THEN {ScalingAlarm(r)} ELSE {}
    BY <1>4 DEF Expanded
  <2>1. CASE r.triggers # <<>>
    <3>1. PICK x : x = ScalingAlarm(r)
      OBVIOUS
    <3>2. Expansion(r) = <<x>> /\ Expanded(r) = {x}
      BY <2>0, <2>1, <2>3, <2>4, <3>1, Zenon
    <3>3. x \in ResourceRecord
      <4>1. AlarmName(r.name) \in Name /\ {} \in SUBSET Name
        BY PartsTyped, ExpandedNames
      <4>2. "Alarm" \in Made
        BY DEF Made
      <4> QED
        BY <3>1, <4>1, <4>2, OfTyped DEF ScalingAlarm
    <3>4. <<x>> \in Seq(ResourceRecord)
      BY <3>3
    <3> QED
      BY <3>2, <3>4, SingleElement
  <2>2. CASE r.triggers = <<>>
    <3>1. Expansion(r) = <<>> /\ Expanded(r) = {}
      BY <2>0, <2>2, <2>3, <2>4, Zenon
    <3> QED
      BY <1>0, <3>1
  <2> QED
    BY <2>1, <2>2
<1>5. CASE r.kind = "SenlinPolicy"
  <2>1. Expansion(r) = ClusterExpansion(r)
    BY <1>5 DEF Expansion
  <2>2. Expanded(r) = Receivers(r) \cup TriggerAlarms(r)
    BY <1>5 DEF Expanded
  <2> QED
    BY <2>1, <2>2, ClusterExpansionTyped, Zenon
<1>6. CASE r.kind = "Monitoring"
  <2>1. PICK u : u = Unfiltered(r)
    OBVIOUS
  <2>2. u \in Seq(Word) /\ Range(u) \subseteq Word
    BY <2>1, PartsTyped
  <2>3. PICK l : l = [k \in DOMAIN u |-> PlainAlarm(r, u[k])]
    OBVIOUS
  <2>4. Expansion(r) = l /\ Expanded(r) = {PlainAlarm(r, g) : g \in Range(u)}
    BY <1>6, <2>1, <2>3 DEF Expansion, Expanded, PlainAlarm
  <2> QED
    BY <2>2, <2>3, <2>4, PlainAlarmsTyped, Zenon
<1>7. CASE r.kind = "Reservation"
  <2>1. CASE r.handled
    <3>1. PICK l : l = [k \in DOMAIN tr |-> PlainAlarm(r, tr[k])]
      OBVIOUS
    <3>2. Expansion(r) = l /\ Expanded(r) = {PlainAlarm(r, g) : g \in Range(tr)}
      BY <1>1, <1>7, <2>1, <3>1 DEF Expansion, Expanded, PlainAlarm
    <3> QED
      BY <1>2, <3>1, <3>2, PlainAlarmsTyped, Zenon
  <2>2. CASE ~ r.handled
    <3>1. Expansion(r) = <<>> /\ Expanded(r) = {}
      BY <1>7, <2>2 DEF Expansion, Expanded
    <3> QED
      BY <1>0, <3>1
  <2> QED
    BY <2>1, <2>2
<1>8. CASE r.kind \notin {"Net", "ScalingPolicy", "SenlinPolicy", "Monitoring", "Reservation"}
  <2>1. Expansion(r) = <<>> /\ Expanded(r) = {}
    BY <1>8 DEF Expansion, Expanded
  <2> QED
    BY <1>0, <2>1
<1> QED
  BY <1>3, <1>4, <1>5, <1>6, <1>7, <1>8

\* What the expansion adds to the heap and to the list.
LEMMA ExpandResult ==
    ASSUME TypeOK, Expand
    PROVE  \E made \in Seq(ResourceRecord) :
            /\ made = FlattenSeq([k \in DOMAIN Hot |-> Expansion(heap[Hot[k]])])
            /\ ToSet(made) = UNION {Expanded(heap[i]) : i \in Range(Hot)}
            /\ heap' \in Seq(ResourceRecord) /\ Len(heap') = Len(heap) + Len(made)
            /\ \A i \in 1..Len(heap) : heap'[i] = heap[i]
            /\ \A k \in 1..Len(made) : heap'[Len(heap) + k] = made[k]
            /\ lists' = [lists EXCEPT ![Len(lists)] =
                            Hot \o [k \in DOMAIN made |-> Len(heap) + k]]
            /\ lists' \in Seq(Seq(1..Len(heap'))) /\ Len(lists') = Len(lists)
            /\ Hot' = Hot \o [k \in DOMAIN made |-> Len(heap) + k]
            /\ Range(Hot') = Range(Hot) \cup (Len(heap) + 1 .. Len(heap'))
<1>1. PICK m \in Nat : m = Len(heap)
  BY DEF TypeOK
<1>2. PICK h : h = Hot
  OBVIOUS
<1>3. /\ heap \in Seq(ResourceRecord) /\ h \in Seq(1..m) /\ lists \in Seq(Seq(1..m))
      /\ Len(lists) \in Nat \ {0} /\ \A i \in 1..m : heap[i] \in ResourceRecord
      /\ h = lists[Len(lists)]
  BY <1>1, <1>2, ListsTyped DEF TypeOK
<1>4. PICK parts : parts = [k \in DOMAIN h |-> Expansion(heap[h[k]])]
  OBVIOUS
<1>5. PICK made : made = FlattenSeq(parts)
  OBVIOUS
<1>6. \A k \in DOMAIN h : heap[h[k]] \in ResourceRecord
  BY <1>3
<1>7. parts \in Seq(Seq(ResourceRecord)) /\ DOMAIN parts = DOMAIN h
  <2>1. parts \in [DOMAIN h -> Seq(ResourceRecord)]
    BY <1>4, <1>6, ExpansionTyped
  <2> QED
    BY <1>3, <2>1, MappedList
<1>8. made \in Seq(ResourceRecord) /\ ToSet(made) = UNION {ToSet(parts[k]) : k \in DOMAIN parts}
  BY <1>5, <1>7, FlattenElements
<1>9. UNION {ToSet(parts[k]) : k \in DOMAIN parts} = UNION {Expanded(heap[i]) : i \in Range(h)}
  <2>1. \A k \in DOMAIN parts : ToSet(parts[k]) = Expanded(heap[h[k]])
    BY <1>4, <1>6, <1>7, ExpansionTyped
  <2> QED
    BY <1>7, <2>1 DEF Range
<1>10. PICK n \in Nat : n = Len(made)
  BY <1>8
<1>11. PICK more : more = [k \in DOMAIN made |-> m + k]
  OBVIOUS
<1>12. /\ DOMAIN made = 1..n /\ more \in Seq(1..m + n) /\ Len(more) = n
       /\ \A k \in 1..n : more[k] = m + k
  BY <1>8, <1>10, <1>11
<1>13. /\ heap' = heap \o made /\ lists' = [lists EXCEPT ![Len(lists)] = @ \o more]
  BY <1>1, <1>2, <1>4, <1>5, <1>11 DEF Expand
<1>14. /\ heap' \in Seq(ResourceRecord) /\ Len(heap') = Len(heap) + Len(made)
       /\ \A i \in 1..Len(heap) : heap'[i] = heap[i]
       /\ \A k \in 1..Len(made) : heap'[Len(heap) + k] = made[k]
  <2>1. \A s, t \in Seq(ResourceRecord) :
            /\ s \o t \in Seq(ResourceRecord) /\ Len(s \o t) = Len(s) + Len(t)
            /\ \A i \in 1..Len(s) : (s \o t)[i] = s[i]
            /\ \A i \in 1..Len(t) : (s \o t)[Len(s) + i] = t[i]
    BY ConcatPositions
  <2> QED
    BY <1>3, <1>8, <1>13, <2>1, Zenon
<1>15. PICK l : l = h \o more
  OBVIOUS
<1>16. l \in Seq(1..m + n) /\ ToSet(l) = ToSet(h) \cup ToSet(more) /\ lists \in Seq(Seq(1..m + n))
  <2>1. m + n \in Nat /\ m <= m + n
    OBVIOUS
  <2>2. h \in Seq(1..m + n) /\ lists \in Seq(Seq(1..m + n))
    BY <1>3, <2>1, ListsGrow
  <2> QED
    BY <1>12, <1>15, <2>2, ConcatElements
<1>17. lists' = [lists EXCEPT ![Len(lists)] = l]
  BY <1>3, <1>13, <1>15
<1>18. /\ lists' \in Seq(Seq(1..m + n)) /\ Len(lists') = Len(lists)
       /\ lists'[Len(lists)] = l
  BY <1>3, <1>16, <1>17
<1>19. Hot' = l
  BY <1>18 DEF Hot, Last
<1>20. ToSet(more) = m + 1 .. m + n
  <2>1. \A x \in m + 1 .. m + n : x - m \in 1..n /\ m + (x - m) = x
    OBVIOUS
  <2>2. \A k \in 1..n : m + k \in m + 1 .. m + n
    OBVIOUS
  <2>3. DOMAIN more = 1..n
    BY <1>12
  <2>4. \A x \in m + 1 .. m + n : \E k \in DOMAIN more : more[k] = x
    BY <1>12, <2>1, <2>3, Zenon
  <2> QED
    BY <1>12, <2>2, <2>3, <2>4 DEF ToSet
<1>21. Len(heap') = m + n
  BY <1>1, <1>10, <1>14
<1>22. Range(Hot') = Range(h) \cup (m + 1 .. m + n)
  BY <1>16, <1>19, <1>20 DEF Range, ToSet
<1>23. /\ made = FlattenSeq([k \in DOMAIN Hot |-> Expansion(heap[Hot[k]])])
       /\ ToSet(made) = UNION {Expanded(heap[i]) : i \in Range(Hot)}
  BY <1>2, <1>4, <1>5, <1>8, <1>9
<1>24. /\ lists' = [lists EXCEPT ![Len(lists)] = Hot \o [k \in DOMAIN made |-> Len(heap) + k]]
       /\ Hot' = Hot \o [k \in DOMAIN made |-> Len(heap) + k]
  BY <1>1, <1>2, <1>11, <1>15, <1>17, <1>19, Zenon
<1>25. lists' \in Seq(Seq(1..Len(heap'))) /\ Len(lists') = Len(lists)
  BY <1>18, <1>21
<1>26. Range(Hot') = Range(Hot) \cup (Len(heap) + 1 .. Len(heap'))
  BY <1>1, <1>2, <1>21, <1>22, Zenon
<1> QED
  BY <1>8, <1>14, <1>23, <1>24, <1>25, <1>26, Zenon

\* The heap after a placement.
LEMMA PlacementResult ==
    ASSUME TypeOK, HandlePlacement
    PROVE  /\ heap' \in Seq(ResourceRecord) /\ Len(heap') = Len(heap)
           /\ \A i \in DOMAIN heap :
                LET r == IF i = Walked[pos] THEN Handled(heap[i]) ELSE heap[i]
                IN  heap'[i] = IF Targeted(i, Visited) THEN [r EXCEPT !.refs = @ \cup {Visited.name}]
                                                       ELSE r
<1> DEFINE One(i) == IF i = Walked[pos] THEN Handled(heap[i]) ELSE heap[i]
           New(i) == IF Targeted(i, Visited) THEN [One(i) EXCEPT !.refs = @ \cup {Visited.name}]
                                             ELSE One(i)
<1>1. heap' = [i \in DOMAIN heap |-> New(i)]
  BY DEF HandlePlacement
<1>2. /\ heap \in Seq(ResourceRecord) /\ \A i \in DOMAIN heap : heap[i] \in ResourceRecord
      /\ Visited \in ResourceRecord
  BY ListsTyped DEF HandlePlacement, AtKind, TypeOK
<1>3. \A i \in DOMAIN heap : New(i) \in ResourceRecord
  <2> SUFFICES ASSUME NEW i \in DOMAIN heap PROVE New(i) \in ResourceRecord
    OBVIOUS
  <2>1. PICK r : r = One(i)
    OBVIOUS
  <2>2. r \in ResourceRecord
    BY <1>2, <2>1, HandledTyped
  <2>3. r.refs \cup {Visited.name} \in SUBSET Name
    BY <1>2, <2>2 DEF ResourceRecord
  <2>4. [r EXCEPT !.refs = r.refs \cup {Visited.name}] \in ResourceRecord
    BY <2>2, <2>3, EditTyped
  <2>5. New(i) = IF Targeted(i, Visited) THEN [r EXCEPT !.refs = r.refs \cup {Visited.name}] ELSE r
    BY <2>1
  <2> QED
    BY <2>2, <2>4, <2>5
<1> HIDE DEF New
<1>4. heap' \in [DOMAIN heap -> ResourceRecord]
  BY <1>1, <1>3
<1>5. heap' \in Seq(ResourceRecord) /\ Len(heap') = Len(heap)
  BY <1>2, <1>4, MappedList
<1>6. \A i \in DOMAIN heap : heap'[i] = New(i)
  BY <1>1
<1> QED
  BY <1>5, <1>6 DEF New

\* The heap and the lists after a cluster.
LEMMA ClusterTyped ==
    ASSUME TypeOK, pos <= Len(Walked), Visited.triggers # <<>>
    PROVE  /\ ClusterHeap \in Seq(ResourceRecord) /\ Len(heap) <= Len(ClusterHeap)
           /\ ClusterList \in Seq(1..Len(ClusterHeap))
           /\ [lists EXCEPT ![Len(lists)] = ClusterList] \in Seq(Seq(1..Len(ClusterHeap)))
           /\ Len([lists EXCEPT ![Len(lists)] = ClusterList]) = Len(lists)
<1>1. PICK m \in Nat, v \in ResourceRecord : m = Len(heap) /\ v = Visited
  BY ListsTyped
<1>2. PICK tg \in Seq(Name), tr \in Seq(Word) : tg = v.targets /\ tr = v.triggers
  BY PartsTyped
<1>3. PICK rs : rs = Replaced
  OBVIOUS
<1>4. rs \in Seq(1..m)
  BY <1>1, <1>3, ClusterParts
<1>5. Len(tr) # 0 /\ Len(tr) \in Nat /\ Len(tg) \in Nat /\ Len(rs) \in Nat
  BY <1>1, <1>2, <1>4
<1>6. PICK q : q = Len(ClusterHeap)
  OBVIOUS
<1>7. ClusterHeap \in Seq(ResourceRecord) /\ q = m + Len(rs) + Len(tg) + (Len(tr) - 1)
  <2>1. ClusterMade(v, m, rs, tg, tr)
    BY <1>1, <1>2, <1>3, <1>4, <1>5, ClusterHeapTyped
  <2> QED
    BY <1>6, <2>1, Zenon DEF ClusterMade
<1>8. q \in Nat /\ m + Len(rs) <= q /\ m <= q
  BY <1>5, <1>7
<1>9. ClusterList \in Seq(1..q)
  BY <1>1, <1>3, <1>4, <1>6, <1>8, ClusterListTyped
<1>10. lists \in Seq(Seq(1..q)) /\ Len(lists) \in Nat \ {0}
  BY <1>1, <1>8, ListsTyped, ListsGrow DEF TypeOK
<1>11. PICK l : l = ClusterList
  OBVIOUS
<1>12. [lists EXCEPT ![Len(lists)] = l] \in Seq(Seq(1..q))
       /\ Len([lists EXCEPT ![Len(lists)] = l]) = Len(lists)
  BY <1>9, <1>10, <1>11
<1> QED
  BY <1>1, <1>6, <1>7, <1>8, <1>9, <1>11, <1>12

\* Every step keeps the types.
LEMMA TypeStep ==
    ASSUME TypeOK, [Next]_vars
    PROVE  TypeOK'
<1>1. CASE HandleResource
  <2>1. PICK r, p : r = OwnHandled(Visited) /\ p = Walked[pos]
    OBVIOUS
  <2>2. r \in ResourceRecord /\ p \in DOMAIN heap
    BY <1>1, <2>1, ListsTyped, HandledTyped DEF HandleResource
  <2>3. heap' = [heap EXCEPT ![p] = r]
    BY <1>1, <2>1 DEF HandleResource
  <2>4. heap' \in Seq(ResourceRecord) /\ Len(heap') = Len(heap)
    BY <2>2, <2>3 DEF TypeOK
  <2> QED
    BY <1>1, <2>4 DEF HandleResource, TypeOK
<1>2. CASE HandlePlacement
  BY <1>2, PlacementResult DEF HandlePlacement, TypeOK
<1>3. CASE HandleScaling
  <2>1. pos <= Len(Walked) /\ Split(ScaledHeap, <<Walked, ScaledList>>)
    BY <1>3 DEF HandleScaling, AtKind
  <2>2. ScaledHeap \in Seq(ResourceRecord) /\ <<Walked, ScaledList>> \in Seq(Seq(1..Len(ScaledHeap)))
    BY <2>1, ScaledTyped
  <2>3. PICK h, ls : h = ScaledHeap /\ ls = <<Walked, ScaledList>>
    OBVIOUS
  <2>4. /\ h \in Seq(ResourceRecord) /\ ls \in Seq(Seq(1..Len(h))) /\ ls # <<>> /\ Len(ls) = 2
        /\ Split(h, ls)
    BY <2>1, <2>2, <2>3
  <2>5. heap' \in Seq(ResourceRecord) /\ lists' \in Seq(Seq(1..Len(heap'))) /\ Len(lists') = 2
    <3>1. PICK both \in Seq(1..Len(h)) : SplitOf(h, ls, both)
      BY <2>4, SplitResult
    <3> QED
      BY <2>4, <3>1, Zenon DEF SplitOf
  <2>6. nested' \in Seq(ResourceRecord)
    <3>1. PICK l : l = Moved
      OBVIOUS
    <3>2. l \in Seq(1..Len(heap))
      BY <3>1, ListsTyped, FilterElements DEF Moved
    <3>3. \A k \in DOMAIN l : heap[l[k]] \in ResourceRecord
      BY <3>2, ListsTyped
    <3>4. nested' = [k \in DOMAIN l |-> heap[l[k]]]
      BY <1>3, <3>1, Zenon DEF HandleScaling
    <3>5. nested' \in [DOMAIN l -> ResourceRecord]
      BY <3>3, <3>4, Zenon
    <3> QED
      BY <3>2, <3>5, MappedList
  <2>7. lists' # <<>>
    <3>1. PICK l : l = lists'
      OBVIOUS
    <3>2. Len(l) = 2
      BY <2>5, <3>1
    <3>3. l # <<>>
      BY <3>2
    <3> QED
      BY <3>1, <3>3
  <2>8. pos' \in Nat \ {0} /\ stage' = stage
    BY <1>3 DEF HandleScaling, TypeOK
  <2> QED
    BY <2>5, <2>6, <2>7, <2>8 DEF TypeOK
<1>4. CASE HandleCluster
  <2>1. /\ pos <= Len(Walked) /\ Visited.triggers # <<>>
        /\ Split(ClusterHeap, [lists EXCEPT ![Len(lists)] = ClusterList])
    BY <1>4 DEF HandleCluster, AtKind, ClusterSucceeds
  <2>2. PICK h, ls : h = ClusterHeap /\ ls = [lists EXCEPT ![Len(lists)] = ClusterList]
    OBVIOUS
  <2>3. h \in Seq(ResourceRecord) /\ ls \in Seq(Seq(1..Len(h))) /\ Len(ls) = Len(lists) /\ Split(h, ls)
    BY <2>1, <2>2, ClusterTyped
  <2>4. Len(lists) \in Nat \ {0}
    BY ListsTyped
  <2>5. ls # <<>>
    BY <2>3, <2>4
  <2>6. heap' \in Seq(ResourceRecord) /\ lists' \in Seq(Seq(1..Len(heap'))) /\ Len(lists') = Len(lists)
    <3>1. PICK both \in Seq(1..Len(h)) : SplitOf(h, ls, both)
      BY <2>3, <2>5, SplitResult
    <3> QED
      BY <2>3, <3>1, Zenon DEF SplitOf
  <2>7. lists' # <<>>
    BY <2>4, <2>6
  <2> QED
    BY <1>4, <2>6, <2>7 DEF HandleCluster, TypeOK
<1>5. CASE Fail
  BY <1>5 DEF Fail, TypeOK
<1>6. CASE FinishProperties
  BY <1>6 DEF FinishProperties, TypeOK
<1>7. CASE Expand
  <2>1. heap' \in Seq(ResourceRecord) /\ lists' \in Seq(Seq(1..Len(heap'))) /\ Len(lists') = Len(lists)
    BY <1>7, ExpandResult
  <2>2. lists' # <<>>
    BY <2>1, ListsTyped
  <2> QED
    BY <1>7, <2>1, <2>2 DEF Expand, TypeOK
<1>8. CASE ResolveFunctions
  <2>1. heap' \in Seq(ResourceRecord) /\ Len(heap') = Len(heap)
    <3>1. \A i \in DOMAIN heap : heap[i] \in ResourceRecord
      BY ListsTyped
    <3>2. \A i \in DOMAIN heap : [heap[i] EXCEPT !.resolved = @ \/ i \in Range(Hot)] \in ResourceRecord
      <4> SUFFICES ASSUME NEW i \in DOMAIN heap
                   PROVE  [heap[i] EXCEPT !.resolved = @ \/ i \in Range(Hot)] \in ResourceRecord
        OBVIOUS
      <4>1. PICK r, b : r = heap[i] /\ b = (r.resolved \/ i \in Range(Hot))
        OBVIOUS
      <4>2. [r EXCEPT !.resolved = b] \in ResourceRecord
        BY <3>1, <4>1, EditTyped
      <4> QED
        BY <4>1, <4>2, Zenon
    <3>3. heap' \in [DOMAIN heap -> ResourceRecord]
      BY <1>8, <3>2, Zenon DEF ResolveFunctions
    <3>4. heap \in Seq(ResourceRecord)
      BY DEF TypeOK
    <3> QED
      BY <3>3, <3>4, MappedList
  <2> QED
    BY <1>8, <2>1 DEF ResolveFunctions, TypeOK
<1>9. CASE UNCHANGED vars
  BY <1>9 DEF vars, TypeOK
<1> QED
  BY <1>1, <1>2, <1>3, <1>4, <1>5, <1>6, <1>7, <1>8, <1>9 DEF Next

\* At first the list is of all resources.
LEMMA TypeInit ==
    ASSUME Init
    PROVE  TypeOK
<1>1. heap \in Seq(ResourceRecord)
  BY TopologiesAssumption DEF Init
<1>2. PICK l : l = [i \in DOMAIN heap |-> i]
  OBVIOUS
<1>3. PICK m \in Nat : m = Len(heap)
  BY <1>1
<1>4. l = [i \in 1..m |-> i]
  BY <1>1, <1>2, <1>3
<1>5. l \in Seq(1..m)
  BY <1>4
<1>6. <<l>> \in Seq(Seq(1..m)) /\ <<l>> # <<>>
  BY <1>5
<1>7. lists = <<l>>
  BY <1>2 DEF Init
<1> QED
  BY <1>1, <1>3, <1>6, <1>7 DEF Init, TypeOK

\* Type correctness: the resources are resources, and the two lists name
\* resources that exist, whichever of them a policy replaces or changes.
THEOREM PolicyTypeCorrect == Spec => []TypeOK
<1>1. Init => TypeOK
  BY TypeInit
<1>2. TypeOK /\ [Next]_vars => TypeOK'
  BY TypeStep
<1> QED
  BY <1>1, <1>2, PTL DEF Spec

-----------------------------------------------------------------------------
(* The list of the resources has none twice.                               *)

HotOnce == OnceIn(Hot)

\* New resources at the end of a list repeat none.
LEMMA OnceLonger ==
    ASSUME NEW m \in Nat, NEW n \in Nat, NEW l \in Seq(1..m), OnceIn(l)
    PROVE  OnceIn(l \o [k \in 1..n |-> m + k])
<1>1. PICK more : more = [k \in 1..n |-> m + k]
  OBVIOUS
<1>2. more \in Seq(Nat) /\ Len(more) = n /\ \A k \in 1..n : more[k] = m + k
  BY <1>1
<1>3. PICK u, p : u = l \o more /\ p = Len(l)
  OBVIOUS
<1>4. /\ p \in Nat /\ DOMAIN u = 1..(p + n) /\ \A a \in 1..p : u[a] = l[a] /\ l[a] \in 1..m
      /\ \A a \in 1..n : u[p + a] = m + a
  <2>1. /\ \A s, t \in Seq(Nat) : /\ s \o t \in Seq(Nat) /\ Len(s \o t) = Len(s) + Len(t)
                                  /\ \A i \in 1..Len(s) : (s \o t)[i] = s[i]
                                  /\ \A i \in 1..Len(t) : (s \o t)[Len(s) + i] = t[i]
    BY ConcatPositions
  <2>2. l \in Seq(Nat) /\ p \in Nat
    <3>1. \A a \in 1..Len(l) : l[a] \in Nat
      OBVIOUS
    <3> QED
      BY <1>3, <3>1
  <2>3. /\ u \in Seq(Nat) /\ Len(u) = Len(l) + Len(more) /\ \A i \in 1..Len(l) : u[i] = l[i]
        /\ \A i \in 1..Len(more) : u[Len(l) + i] = more[i]
    BY <1>2, <1>3, <2>1, <2>2, Zenon
  <2>4. \A a \in 1..p : l[a] \in 1..m
    BY <1>3
  <2>5. Len(u) = p + n /\ \A i \in 1..p : u[i] = l[i]
    BY <1>2, <1>3, <2>3, Zenon
  <2>6. \A a \in 1..n : u[p + a] = m + a
    BY <1>2, <1>3, <2>3, Zenon
  <2>7. DOMAIN u = 1..(p + n)
    BY <2>3, <2>5
  <2> QED
    BY <2>2, <2>4, <2>5, <2>6, <2>7
<1>5. \A a \in 1..(p + n) : a \in 1..p \/ (a > p /\ a - p \in 1..n /\ u[a] = m + (a - p))
  <2> SUFFICES ASSUME NEW a \in 1..(p + n), a \notin 1..p
               PROVE  a > p /\ a - p \in 1..n /\ u[a] = m + (a - p)
    BY <1>4
  <2>1. PICK b \in 1..n : a = p + b /\ b = a - p
    <3>1. a - p \in 1..n /\ a = p + (a - p)
      BY <1>4
    <3> QED
      BY <3>1
  <2>2. u[p + b] = m + b
    BY <1>4
  <2> QED
    BY <1>4, <2>1, <2>2
<1>6. \A a, b \in 1..p : l[a] = l[b] => a = b
  <2>1. DOMAIN l = 1..p
    BY <1>3
  <2> QED
    BY <2>1 DEF OnceIn
<1>7. OnceIn(u)
  <2> SUFFICES ASSUME NEW a \in 1..(p + n), NEW b \in 1..(p + n), u[a] = u[b] PROVE a = b
    BY <1>4 DEF OnceIn
  <2>1. CASE a \in 1..p /\ b \in 1..p
    BY <1>4, <1>6, <2>1
  <2>2. CASE a \in 1..p /\ b \notin 1..p
    <3>1. u[a] \in 1..m /\ b - p \in 1..n /\ u[b] = m + (b - p)
      BY <1>4, <1>5, <2>2
    <3>2. PICK d \in 1..n : d = b - p
      BY <3>1
    <3>3. u[a] \in 1..m /\ u[a] = m + d
      BY <3>1, <3>2
    <3> QED
      BY <3>3
  <2>3. CASE a \notin 1..p /\ b \in 1..p
    <3>1. u[b] \in 1..m /\ a - p \in 1..n /\ u[a] = m + (a - p)
      BY <1>4, <1>5, <2>3
    <3>2. PICK d \in 1..n : d = a - p
      BY <3>1
    <3>3. u[b] \in 1..m /\ u[b] = m + d
      BY <3>1, <3>2
    <3> QED
      BY <3>3
  <2>4. CASE a \notin 1..p /\ b \notin 1..p
    <3>1. u[a] = m + (a - p) /\ u[b] = m + (b - p)
      BY <1>5, <2>4
    <3>2. m + (a - p) = m + (b - p)
      BY <3>1
    <3> QED
      BY <1>4, <3>2
  <2> QED
    BY <2>1, <2>2, <2>3, <2>4
<1> QED
  BY <1>1, <1>3, <1>7

\* The list after Split.
LEMMA SplitHot ==
    ASSUME NEW h \in Seq(ResourceRecord), NEW ls \in Seq(Seq(1..Len(h))), ls # <<>>,
           NEW both \in Seq(1..Len(h)),
           lists' = [ls EXCEPT ![Len(ls)] = Last(ls) \o [k \in DOMAIN both |-> Len(h) + k]]
    PROVE  /\ Hot' = Last(ls) \o [k \in 1..Len(both) |-> Len(h) + k]
           /\ OnceIn(Last(ls)) => HotOnce'
           /\ Range(Hot') = Range(Last(ls)) \cup (Len(h) + 1 .. Len(h) + Len(both))
<1>0. PICK l : l = Last(ls)
  OBVIOUS
<1>1. PICK m \in Nat, n \in Nat : m = Len(h) /\ n = Len(both)
  OBVIOUS
<1>2. l \in Seq(1..m) /\ Len(ls) \in Nat \ {0} /\ l = ls[Len(ls)]
  BY <1>0, <1>1 DEF Last
<1>3. PICK more : more = [k \in 1..n |-> m + k]
  OBVIOUS
<1>4. PICK u : u = l \o more
  OBVIOUS
<1>5. lists' = [ls EXCEPT ![Len(ls)] = u]
  <2>1. DOMAIN both = 1..n
    BY <1>1
  <2> QED
    BY <1>0, <1>1, <1>3, <1>4, <2>1
<1>6. Hot' = u
  <2>1. PICK w : w = lists'
    OBVIOUS
  <2>2. Len(w) = Len(ls) /\ w[Len(ls)] = u
    BY <1>2, <1>5, <2>1
  <2> QED
    BY <2>1, <2>2 DEF Hot, Last
<1>7. OnceIn(l) => OnceIn(u)
  BY <1>2, <1>3, <1>4, OnceLonger
<1>8. more \in Seq(m + 1 .. m + n) /\ ToSet(more) = m + 1 .. m + n
  <2>1. \A x \in m + 1 .. m + n : x - m \in 1..n /\ m + (x - m) = x
    OBVIOUS
  <2>2. \A k \in 1..n : m + k \in m + 1 .. m + n
    OBVIOUS
  <2>3. DOMAIN more = 1..n /\ more \in Seq(m + 1 .. m + n) /\ \A k \in 1..n : more[k] = m + k
    BY <1>1, <1>3, <2>2
  <2>4. \A x \in m + 1 .. m + n : \E k \in DOMAIN more : more[k] = x
    BY <2>1, <2>3, Zenon
  <2>5. \A k \in DOMAIN more : more[k] \in m + 1 .. m + n
    BY <2>2, <2>3, Zenon
  <2> QED
    BY <2>3, <2>4, <2>5, Zenon DEF ToSet
<1>9. ToSet(u) = ToSet(l) \cup ToSet(more)
  <2>1. 1..m \subseteq Nat /\ m + 1 .. m + n \subseteq Nat
    OBVIOUS
  <2>2. l \in Seq(Nat) /\ more \in Seq(Nat)
    BY <1>2, <1>8, <2>1
  <2> QED
    BY <1>4, <2>2, ConcatElements
<1>10. Range(u) = Range(l) \cup (m + 1 .. m + n)
  BY <1>8, <1>9 DEF Range, ToSet
<1> QED
  BY <1>0, <1>1, <1>3, <1>4, <1>6, <1>7, <1>10, Zenon DEF HotOnce

-----------------------------------------------------------------------------
(* The walk over a topology t.                                             *)

\* The resource of a node or policy keeps what its policy says.
SameFields(r, s) ==
    /\ r.kind = s.kind /\ r.policy = s.policy /\ r.targets = s.targets
    /\ r.increment = s.increment /\ r.triggers = s.triggers
    /\ r.server = s.server /\ r.hidden = s.hidden

\* The name of a resource that was or was not handled.
NameNow(r, handled) ==
    CASE handled /\ r.kind \in {"Monitoring", "Reservation"} /\ Triggered(r) ->
            <<r.triggers[1]>>
      [] handled /\ r.kind = "ScalingPolicy" /\ r.increment # 0 ->
            Append(r.name, Suffix(r.increment))
      [] handled /\ r.kind = "SenlinPolicy" -> Append(r.name, r.triggers[Len(r.triggers)])
      [] OTHER -> r.name

\* The placements of the i-th resource.
Placements(t, i) ==
    {g \in DOMAIN t : t[g].kind = "ServerGroup" /\ t[i].name \in Range(t[g].targets)}

PlacementNames(t, i) == {t[g].name : g \in Placements(t, i)}

ClusterNames(r) == {Append(x, "cluster") : x \in Range(r.targets)}

PolicyRefs(r, handled) ==
    CASE handled /\ r.kind = "ScalingPolicy" -> {Append(r.name, "group")}
      [] handled /\ r.kind = "SenlinPolicy" -> ClusterNames(r)
      [] OTHER -> {}

\* What h has of the i-th of the given resources t.
GivenOne(t, h, i) ==
    /\ i \in DOMAIN h /\ SameFields(h[i], t[i])
    /\ h[i].name = NameNow(t[i], h[i].handled)
    /\ t[i].kind \in Nodes =>
            /\ h[i].refs \subseteq t[i].refs \cup PlacementNames(t, i)
            /\ \A g \in Placements(t, i) : h[g].handled => t[g].name \in h[i].refs
    /\ t[i].kind \in Policies => h[i].refs = PolicyRefs(t[i], h[i].handled)

Given(t, h) == \A i \in DOMAIN t : GivenOne(t, h, i)

Identity(t) == [i \in DOMAIN t |-> i]

\* No policy that scales is handled.
Plain(t) ==
    /\ \A i \in DOMAIN t :
            (heap[i].handled <=> i < pos) /\ (heap[i].handled => t[i].kind \notin Scalers)
    /\ lists = <<Identity(t)>> /\ DOMAIN heap = DOMAIN t
    /\ policyRes = {} /\ nested = <<>>

\* What a nested template has of the i-th resource.
NestedOf(t, i, r) ==
    /\ r.name = t[i].name /\ PlacementNames(t, i) \subseteq r.refs
    /\ r.refs \subseteq t[i].refs \cup PlacementNames(t, i)

\* The kinds that a scaling policy moves to the nested template.
Movable == Nodes \cup {"ServerGroup"}

\* The group of the scaling policy s and, if s has an increment, the policy
\* that it is split from.
GroupOf(s, r) ==
    /\ r.kind = "Group" /\ r.name = Append(s.name, "group") /\ r.policy = s.policy
    /\ r.refs = {} /\ ~ r.hidden

OppositeOf(s, r) ==
    /\ SameFields(r, s) /\ r.name = Append(s.name, Suffix(- s.increment))
    /\ r.adjustment = - s.increment /\ r.refs = {Append(s.name, "group")}

\* What stays in the list beside the group.
Outside(t) ==
    {i \in DOMAIN t : t[i].kind \in {"ScalingPolicy", "Monitoring", "Reservation"}}

\* The scaling policy at c is handled.
Scaled(t, c) ==
    /\ t[c].kind = "ScalingPolicy" /\ heap[c].adjustment = t[c].increment
    /\ \A i \in DOMAIN t : heap[i].handled <=> i < pos
    /\ c < pos /\ Walked = Identity(t)
    /\ DOMAIN heap = 1 .. Len(t) + IF t[c].increment = 0 THEN 1 ELSE 2
    /\ Range(Hot) = Outside(t) \cup (DOMAIN heap \ DOMAIN t)
    /\ GroupOf(t[c], heap[Len(t) + 1])
    /\ t[c].increment # 0 => OppositeOf(t[c], heap[Len(t) + 2])
    /\ \A i \in DOMAIN t : t[i].kind \in Movable => \E r \in Range(nested) : NestedOf(t, i, r)
    /\ \A r \in Range(nested) : \E i \in DOMAIN t : t[i].kind \in Movable /\ NestedOf(t, i, r)

\* The servers of a cluster.
Taken(t, c) == {j \in DOMAIN t : t[j].kind = "Server" /\ t[j].name \in Range(t[c].targets)}

\* What a cluster leaves in the list, beside what it makes.
Remaining(t, c) == {i \in DOMAIN t : t[i].kind \notin {"Port", "Net"} /\ i \notin Taken(t, c)}

\* What a cluster leaves of the names of nodes.
LeftNames(t) == {r.name : r \in {r \in Range(t) : r.kind \in Nodes \ {"Port", "Net"}}}

\* What HandleCluster of the policy at c makes: the profile of a server j, the
\* cluster of a target and the policy of a trigger.
ProfileOf(t, j, r) ==
    /\ r.kind = "Profile" /\ r.policy = NoPolicy /\ ~ r.hidden /\ r.name = t[j].name
    /\ PlacementNames(t, j) \subseteq r.refs
    /\ r.refs \subseteq LeftNames(t) \cup PlacementNames(t, j)

ClusterOf(s, x, r) ==
    /\ r.kind = "Cluster" /\ r.policy = s.policy /\ ~ r.hidden
    /\ r.name = Append(x, "cluster") /\ r.refs = {x}

TriggerOf(s, g, r) ==
    /\ r.kind = "MadePolicy" /\ r.policy = s.policy /\ ~ r.hidden
    /\ r.name = Append(s.name, g) /\ r.refs = ClusterNames(s)

MadeByCluster(t, c, r) ==
    \/ \E j \in Taken(t, c) : ProfileOf(t, j, r)
    \/ \E x \in Range(t[c].targets) : ClusterOf(t[c], x, r)
    \/ \E g \in Range(t[c].triggers) : TriggerOf(t[c], g, r)

\* The cluster policy at c is handled.
Clustered(t, c) ==
    /\ t[c].kind = "SenlinPolicy" /\ Triggered(t[c]) /\ nested = <<>>
    /\ \A i \in DOMAIN t : i <= c => heap[i].handled
    /\ DOMAIN t \subseteq DOMAIN heap
    /\ Len(lists) = 1 /\ pos > c /\ \A k \in DOMAIN Walked : k >= pos => Walked[k] > c
    /\ Range(Hot) = (DOMAIN heap \ DOMAIN t) \cup Remaining(t, c)
    /\ \A i \in DOMAIN heap \ DOMAIN t : MadeByCluster(t, c, heap[i])
    /\ \A i, j \in DOMAIN heap \ DOMAIN t :
            heap[i].kind = "Profile" /\ heap[j].kind = "Profile" /\ heap[i].name = heap[j].name
                => i = j
    /\ \A j \in Taken(t, c) : \E i \in DOMAIN heap \ DOMAIN t : ProfileOf(t, j, heap[i])
    /\ \A x \in Range(t[c].targets) :
            \E i \in DOMAIN heap \ DOMAIN t : ClusterOf(t[c], x, heap[i])

\* The walk, before the expansion.
Walking(t) ==
    /\ Given(t, heap)
    /\ Plain(t) \/ \E c \in DOMAIN t : Scaled(t, c) \/ Clustered(t, c)
    /\ stage = "expansion" => pos > Len(Walked)

-----------------------------------------------------------------------------
(* After the expansion.                                                    *)

\* What is written.
Shown == {i \in Range(Hot) : ~ heap[i].hidden}

AlarmKinds == {"Alarm", "Monitoring", "Reservation"}

\* A resource of a node or policy, or with one of their names.
OwnForm(t, r) ==
    \E j \in DOMAIN t :
        /\ r.name \in TakenNames(t[j]) /\ r.policy = t[j].policy
        /\ t[j].kind \in {"Monitoring", "Reservation"} <=> r.kind \in AlarmKinds

\* A resource that the scaling or cluster policy makes, or the scaling policy.
ScalerForm(t, r) ==
    /\ \E c \in DOMAIN t : t[c].kind \in Scalers /\ r.policy = t[c].policy
    /\ r.name # <<>> /\ Last(r.name) \in MadeOf \ {"subnet"}
    /\ Last(r.name) = "alarm" <=> r.kind \in AlarmKinds
    /\ Last(r.name) \in {"scale_in", "scale_out"} => r.kind = "ScalingPolicy"

SubnetForm(r) == r.name # <<>> /\ Last(r.name) = "subnet" /\ r.policy = NoPolicy

Formed(t) ==
    \A i \in Shown : OwnForm(t, heap[i]) \/ ScalerForm(t, heap[i]) \/ SubnetForm(heap[i])

\* Without a policy there is one resource of a name.
NodesOnce ==
    \A i, j \in Shown : heap[i].policy = NoPolicy /\ heap[j].policy = NoPolicy
                            /\ heap[i].name = heap[j].name => i = j

ShownNames == {heap[i].name : i \in Shown}

RefsShown == \A i \in Shown : heap[i].refs \subseteq ShownNames

NestedClosed == \A r \in Nested : r.refs \subseteq Names(Nested)

\* The policies of the heap are those of t.
PoliciesGiven(t) ==
    \A i \in DOMAIN heap : heap[i].kind \in Policies =>
        \E j \in DOMAIN t :
            /\ SameFields(heap[i], t[j])
            /\ t[j].kind = "ServerGroup" => heap[i].name = t[j].name

\* A scaling policy with an increment is at c and, opposite, at o.
Paired(t) ==
    \A c \in DOMAIN t : t[c].kind = "ScalingPolicy" /\ t[c].increment > 0 =>
        \E o \in Shown :
            /\ c \in Shown
            /\ \A i \in Shown : heap[i].kind = "ScalingPolicy" => i \in {c, o}
            /\ heap[c].kind = "ScalingPolicy" /\ heap[c].policy = t[c].policy
            /\ heap[c].name = Append(t[c].name, "scale_out") /\ heap[c].adjustment = t[c].increment
            /\ heap[o].kind = "ScalingPolicy" /\ heap[o].policy = t[c].policy
            /\ heap[o].name = Append(t[c].name, "scale_in") /\ heap[o].adjustment = - t[c].increment

\* The names of the alarms of a policy.
AlarmNames(p) ==
    CASE p.kind = "ScalingPolicy" -> {<<p.policy, "alarm">> : g \in Range(p.triggers)}
      [] p.kind = "SenlinPolicy" -> {<<g, "alarm">> : g \in Range(p.triggers)}
      [] OTHER -> IF p.triggers = <<>> THEN {<<p.policy>>} ELSE {<<g>> : g \in Range(p.triggers)}

\* The name of the resource of a monitoring policy or a reservation, handled.
FirstAlarm(p) == <<IF Triggered(p) THEN p.triggers[1] ELSE p.policy>>

AlarmPolicies == Policies \ {"ServerGroup"}

Alarmed(t) ==
    \A j \in DOMAIN t : t[j].kind \in AlarmPolicies =>
        {heap[i].name : i \in {i \in Shown : heap[i].policy = t[j].policy
                                                /\ heap[i].kind \in AlarmKinds}}
            = AlarmNames(t[j])

Grouped(t) ==
    \A g \in DOMAIN t : t[g].kind = "ServerGroup" =>
        \A x \in Range(t[g].targets) :
            \/ \E i \in Shown : /\ heap[i].name = x /\ t[g].name \in heap[i].refs
                                /\ heap[i].policy = NoPolicy
            \/ \E r \in Nested : r.name = x /\ t[g].name \in r.refs

Expansive(t) ==
    /\ Formed(t) /\ NodesOnce /\ RefsShown /\ NestedClosed
    /\ PoliciesGiven(t) /\ Paired(t) /\ Alarmed(t) /\ Grouped(t)

\* The inductive invariant.
Inv(t) ==
    /\ stage \in {"properties", "expansion"} => Walking(t)
    /\ stage \in {"functions", "written"} => Expansive(t)

-----------------------------------------------------------------------------
(* Topologies.                                                             *)

\* A resource of a topology.
LEMMA TopologyFacts ==
    ASSUME NEW t \in Topologies
    PROVE  /\ t \in Seq(ResourceRecord) /\ Len(t) \in Nat /\ DOMAIN t = 1..Len(t)
           /\ \A i \in DOMAIN t :
                /\ t[i] \in ResourceRecord /\ t[i].kind \in Nodes \cup Policies
                /\ t[i].adjustment = 0 /\ ~ t[i].handled
                /\ t[i].hidden => t[i].kind = "Net"
                /\ t[i].kind \in Nodes => t[i].policy = NoPolicy
                /\ t[i].kind \in Policies =>
                        t[i].policy # NoPolicy /\ t[i].name = <<t[i].policy>> /\ t[i].refs = {}
<1>1. t \in Seq(ResourceRecord)
  BY TopologiesAssumption
<1>2. Len(t) \in Nat /\ DOMAIN t = 1..Len(t) /\ \A i \in DOMAIN t : t[i] \in ResourceRecord
  BY <1>1
<1>3. ASSUME NEW i \in DOMAIN t
      PROVE  /\ t[i].kind \in Nodes \cup Policies
             /\ t[i].adjustment = 0 /\ ~ t[i].handled
             /\ t[i].hidden => t[i].kind = "Net"
             /\ t[i].kind \in Nodes => t[i].policy = NoPolicy
             /\ t[i].kind \in Policies =>
                    t[i].policy # NoPolicy /\ t[i].name = <<t[i].policy>> /\ t[i].refs = {}
  <2>1. PICK r : r = t[i]
    OBVIOUS
  <2>2. r \in Range(t)
    BY <2>1 DEF Range
  <2>3. /\ r.kind \in Nodes \cup Policies
        /\ r.adjustment = 0 /\ ~ r.handled /\ ~ r.resolved
        /\ r.hidden => r.kind = "Net"
        /\ IF r.kind \in Nodes THEN r.policy = NoPolicy
           ELSE r.policy # NoPolicy /\ r.name = <<r.policy>> /\ r.refs = {}
    BY <2>2, TopologiesAssumption, Zenon
  <2>4. r.kind \in Policies => r.kind \notin Nodes
    BY DEF Nodes, Policies
  <2> QED
    BY <2>1, <2>3, <2>4
<1> QED
  BY <1>1, <1>2, <1>3

\* The names that two resources may get are apart, and none is made.
LEMMA NamesFacts ==
    ASSUME Regular, NEW t \in Topologies
    PROVE  /\ \A i \in DOMAIN t :
                /\ t[i].name \in TakenNames(t[i]) /\ TakenNames(t[i]) \subseteq Name
                /\ \A x \in TakenNames(t[i]) : x # <<>> /\ Last(x) \notin MadeOf
           /\ \A i, j \in DOMAIN t : \A x :
                x \in TakenNames(t[i]) /\ x \in TakenNames(t[j]) => i = j
<1>1. NamesApart(t)
  BY DEF Regular
<1>2. \A i, j \in DOMAIN t : \A x : x \in TakenNames(t[i]) /\ x \in TakenNames(t[j]) => i = j
  BY <1>1 DEF NamesApart
<1>3. \A i \in DOMAIN t : \A x \in TakenNames(t[i]) : x # <<>> /\ Last(x) \notin MadeOf
  BY <1>1, Zenon DEF NamesApart
<1>4. ASSUME NEW i \in DOMAIN t
      PROVE  t[i].name \in TakenNames(t[i]) /\ TakenNames(t[i]) \subseteq Name
  <2>1. PICK r : r = t[i]
    OBVIOUS
  <2>2. r \in ResourceRecord
    BY <2>1, TopologyFacts
  <2>3. r.name \in Name /\ Range(r.triggers) \subseteq Word
    BY <2>2, PartsTyped
  <2>4. PICK more : TakenNames(r) = {r.name} \cup more
                    /\ more = CASE r.kind \in {"Monitoring", "Reservation"} ->
                                        {<<g>> : g \in Range(r.triggers)}
                                [] r.kind = "SenlinPolicy" ->
                                        {Append(r.name, g) : g \in Range(r.triggers)}
                                [] OTHER -> {}
    BY Zenon DEF TakenNames
  <2>5. \A g \in Range(r.triggers) : <<g>> \in Name /\ Append(r.name, g) \in Name
    BY <2>3, AppendName, ExpandedNames
  <2>6. more \subseteq Name
    <3>1. CASE r.kind \in {"Monitoring", "Reservation"}
      BY <2>4, <2>5, <3>1
    <3>2. CASE r.kind = "SenlinPolicy"
      BY <2>4, <2>5, <3>2
    <3>3. CASE r.kind \notin {"Monitoring", "Reservation", "SenlinPolicy"}
      BY <2>4, <3>3
    <3> QED
      BY <3>1, <3>2, <3>3
  <2> QED
    BY <2>1, <2>3, <2>4, <2>6
<1> QED
  BY <1>2, <1>3, <1>4

\* Other names that a resource may get.
LEMMA TakenTriggers ==
    ASSUME NEW r
    PROVE  /\ r.kind \in {"Monitoring", "Reservation"} =>
                \A g \in Range(r.triggers) : <<g>> \in TakenNames(r)
           /\ r.kind = "SenlinPolicy" =>
                \A g \in Range(r.triggers) : Append(r.name, g) \in TakenNames(r)
<1>1. CASE r.kind \in {"Monitoring", "Reservation"}
  <2>1. TakenNames(r) = {r.name} \cup {<<g>> : g \in Range(r.triggers)}
    BY <1>1 DEF TakenNames
  <2> QED
    BY <1>1, <2>1
<1>2. CASE r.kind = "SenlinPolicy"
  <2>1. TakenNames(r) = {r.name} \cup {Append(r.name, g) : g \in Range(r.triggers)}
    BY <1>2 DEF TakenNames
  <2> QED
    BY <1>2, <2>1
<1> QED
  BY <1>1, <1>2

\* One policy scales.
LEMMA ScalerFacts ==
    ASSUME Regular, NEW t \in Topologies
    PROVE  /\ \A i, j \in DOMAIN t : t[i].kind \in Scalers /\ t[j].kind \in Scalers => i = j
           /\ \A i, j \in DOMAIN t : t[i].kind \in Scalers /\ t[j].kind = "ServerGroup" => j < i
<1>1. ScaledOnce(t)
  BY DEF Regular
<1>2. \A i \in DOMAIN t : t[i].kind \in Scalers => t[i].kind # "ServerGroup"
  BY DEF Scalers
<1> QED
  BY <1>1, <1>2 DEF ScaledOnce

\* Policies are named apart.
LEMMA PolicyOnce ==
    ASSUME Regular, NEW t \in Topologies
    PROVE  \A i, j \in DOMAIN t :
                t[i].kind \in Policies /\ t[j].kind \in Policies /\ t[i].policy = t[j].policy => i = j
<1> SUFFICES ASSUME NEW i \in DOMAIN t, NEW j \in DOMAIN t,
                    t[i].kind \in Policies, t[j].kind \in Policies, t[i].policy = t[j].policy
             PROVE  i = j
  OBVIOUS
<1>1. t[i].name = <<t[i].policy>> /\ t[j].name = <<t[j].policy>>
  BY TopologyFacts
<1>2. t[i].name \in TakenNames(t[i]) /\ t[i].name \in TakenNames(t[j])
  <2>1. t[i].name = t[j].name
    BY <1>1
  <2>2. t[i].name \in TakenNames(t[i]) /\ t[j].name \in TakenNames(t[j])
    BY NamesFacts, Zenon
  <2> QED
    BY <2>1, <2>2
<1> QED
  BY <1>2, NamesFacts, Zenon

-----------------------------------------------------------------------------
(* What the invariant says of the output.                                  *)

\* Resources with one name are of one policy, or one.
LEMMA AlikeShown ==
    ASSUME Regular, NEW t \in Topologies, Expansive(t),
           NEW i \in Shown, NEW j \in Shown, i # j, heap[i].name = heap[j].name
    PROVE  heap[i].policy = heap[j].policy /\ heap[i].policy # NoPolicy
<1>1. PICK x : x = heap[i].name /\ x = heap[j].name
  OBVIOUS
<1>2. \A k \in {i, j} : OwnForm(t, heap[k]) \/ ScalerForm(t, heap[k]) \/ SubnetForm(heap[k])
  BY DEF Expansive, Formed
<1>3. \A k \in {i, j} : OwnForm(t, heap[k]) => Last(x) \notin MadeOf
  BY <1>1, NamesFacts DEF OwnForm
<1>4. \A k \in {i, j} : ScalerForm(t, heap[k]) => Last(x) \in MadeOf \ {"subnet"}
  BY <1>1 DEF ScalerForm
<1>5. \A k \in {i, j} : SubnetForm(heap[k]) => Last(x) = "subnet" /\ "subnet" \in MadeOf
  BY <1>1 DEF SubnetForm, MadeOf
<1>6. ~ (heap[i].policy = NoPolicy /\ heap[j].policy = NoPolicy)
  BY DEF Expansive, NodesOnce
<1>7. CASE OwnForm(t, heap[i]) /\ OwnForm(t, heap[j])
  <2>1. PICK k \in DOMAIN t : x \in TakenNames(t[k]) /\ heap[i].policy = t[k].policy
    BY <1>1, <1>7 DEF OwnForm
  <2>2. PICK l \in DOMAIN t : x \in TakenNames(t[l]) /\ heap[j].policy = t[l].policy
    BY <1>1, <1>7 DEF OwnForm
  <2>3. k = l
    BY <2>1, <2>2, NamesFacts, Zenon
  <2> QED
    BY <1>6, <2>1, <2>2, <2>3, Zenon
<1>8. CASE ScalerForm(t, heap[i]) /\ ScalerForm(t, heap[j])
  <2>1. PICK k \in DOMAIN t : t[k].kind \in Scalers /\ heap[i].policy = t[k].policy
    BY <1>8 DEF ScalerForm
  <2>2. PICK l \in DOMAIN t : t[l].kind \in Scalers /\ heap[j].policy = t[l].policy
    BY <1>8 DEF ScalerForm
  <2>3. k = l
    BY <2>1, <2>2, ScalerFacts, Zenon
  <2> QED
    BY <1>6, <2>1, <2>2, <2>3, Zenon
<1>9. CASE SubnetForm(heap[i]) /\ SubnetForm(heap[j])
  BY <1>6, <1>9 DEF SubnetForm
<1>10. /\ OwnForm(t, heap[i]) => OwnForm(t, heap[j])
       /\ ScalerForm(t, heap[i]) => ScalerForm(t, heap[j])
       /\ SubnetForm(heap[i]) => SubnetForm(heap[j])
  <2>1. PICK m, s : m = MadeOf /\ s = "subnet" /\ s \in m
    BY DEF MadeOf
  <2>2. /\ \A k \in {i, j} : OwnForm(t, heap[k]) => Last(x) \notin m
        /\ \A k \in {i, j} : ScalerForm(t, heap[k]) => Last(x) \in m /\ Last(x) # s
        /\ \A k \in {i, j} : SubnetForm(heap[k]) => Last(x) = s
    BY <1>3, <1>4, <1>5, <2>1, Zenon
  <2> QED
    BY <1>2, <2>1, <2>2, Zenon
<1> QED
  BY <1>2, <1>7, <1>8, <1>9, <1>10, Zenon

\* The output has a resource of every name, the last that has it.
LEMMA OutputNames ==
    ASSUME TypeOK, HotOnce, NEW i \in Shown
    PROVE  \E j \in Shown : heap[j].name = heap[i].name /\ heap[j] \in Output
<1>1. PICK n \in Nat, l \in Seq(1..Len(heap)) : l = Hot /\ n = Len(l)
  BY ListsTyped
<1>2. DOMAIN l = 1..n
  BY <1>1
<1> DEFINE K == {k \in 1..n : ~ heap[l[k]].hidden /\ heap[l[k]].name = heap[i].name}
<1>3. K # {} /\ K \in SUBSET (1..n)
  BY <1>1, <1>2 DEF Shown, Range
<1>4. PICK k \in K : \A m \in K : m <= k
  <2> HIDE DEF K
  <2> QED
    BY <1>3, GreatestElement
<1>5. PICK j : j = l[k]
  OBVIOUS
<1>6. k \in 1..n /\ ~ heap[j].hidden /\ heap[j].name = heap[i].name
  BY <1>4, <1>5
<1>7. j \in Range(Hot)
  BY <1>1, <1>2, <1>5, <1>6 DEF Range
<1>8. ASSUME NEW a \in DOMAIN Hot, NEW b \in DOMAIN Hot, Hot[a] = j, b > a,
             ~ heap[Hot[b]].hidden, heap[Hot[b]].name = heap[j].name
      PROVE  FALSE
  <2>1. a \in 1..n /\ b \in 1..n /\ l[a] = l[k]
    BY <1>1, <1>2, <1>5, <1>8
  <2>2. a = k
    BY <1>1, <1>2, <1>6, <2>1 DEF HotOnce, OnceIn
  <2>3. b \in K
    BY <1>1, <1>6, <1>8, <2>1
  <2> HIDE DEF K
  <2>4. b <= k
    BY <1>4, <2>3
  <2> QED
    BY <1>6, <1>8, <2>1, <2>2, <2>4
<1>9. heap[j] \in Output
  BY <1>6, <1>7, <1>8, Zenon DEF Output
<1> QED
  BY <1>6, <1>7, <1>9 DEF Shown

\* The output is of what is shown.
LEMMA OutputShown ==
    ASSUME NEW r \in Output
    PROVE  \E i \in Shown : r = heap[i]
BY DEF Output, Shown

\* The list of HandleScaling repeats none.
LEMMA ScaledOnceIn ==
    ASSUME TypeOK, HotOnce
    PROVE  OnceIn(ScaledList)
<1>1. PICK m \in Nat : m = Len(heap)
  BY ListsTyped
<1>2. PICK T : T = {i \in Range(Hot) : heap[i].name \notin {heap[k].name : k \in Range(Moved)}}
  OBVIOUS
<1>3. PICK l, s : l = Hot /\ s = Filter(l, T)
  OBVIOUS
<1>4. l \in Seq(1..m) /\ OnceIn(l)
  BY <1>1, <1>3, ListsTyped DEF HotOnce
<1>5. s \in Seq(1..m) /\ OnceIn(s)
  <2>1. OnceIn(Filter(l, T))
    BY <1>4, FilterOnceIn
  <2> QED
    BY <1>3, <1>4, <2>1, FilterElements
<1>6. ScaledList = Append(s, m + 1)
  BY <1>1, <1>2, <1>3 DEF ScaledList
<1>7. PICK n \in Nat : n = Len(s)
  BY <1>5
<1>8. PICK u : u = Append(s, m + 1)
  OBVIOUS
<1>9. s \in Seq(Nat) /\ m + 1 \in Nat
  <2>1. \A a \in 1..Len(s) : s[a] \in Nat
    BY <1>5
  <2> QED
    BY <1>5, <2>1
<1>10. /\ DOMAIN u = 1..(n + 1) /\ u[n + 1] = m + 1 /\ \A a \in 1..n : u[a] = s[a]
  BY <1>7, <1>8, <1>9, AppendProperties
<1>11. \A a \in 1..n : s[a] \in 1..m /\ u[a] # m + 1
  BY <1>5, <1>7, <1>10
<1>12. \A a, b \in 1..n : s[a] = s[b] => a = b
  <2>1. DOMAIN s = 1..n
    BY <1>5, <1>7
  <2> QED
    BY <1>5, <2>1 DEF OnceIn
<1>13. \A a \in 1..(n + 1) : a \in 1..n \/ a = n + 1
  OBVIOUS
<1>14. OnceIn(u)
  BY <1>10, <1>11, <1>12, <1>13 DEF OnceIn
<1> QED
  BY <1>6, <1>8, <1>14

\* The list of HandleCluster repeats none.
LEMMA ClusterOnceIn ==
    ASSUME TypeOK, HotOnce, NEW q \in Nat, NEW m \in Nat, m = Len(heap),
           NEW rs \in Seq(1..m), m + Len(rs) <= q, NEW stays, NEW first, NEW more,
           MadeList(q, m, rs, stays, first, more)
    PROVE  OnceIn(ClusterList)
<1>1. /\ stays \in Seq(1..m) /\ first \in Seq(1..q) /\ more \in Seq(1..q)
      /\ stays = Filter(Hot, Staying)
      /\ ClusterList = first \o more
      /\ Len(first) = Len(stays) /\ Len(more) = q - m - Len(rs)
      /\ \A k \in 1..Len(stays) :
            first[k] = IF stays[k] \in Range(rs) THEN m + PlaceOf(rs, stays[k]) ELSE stays[k]
      /\ \A k \in 1..(q - m - Len(rs)) : more[k] = m + Len(rs) + k
  BY DEF MadeList
<1>2. PICK k1 \in Nat, n \in Nat : k1 = Len(rs) /\ n = Len(stays)
  BY <1>1
<1>3. PICK p \in Nat : p = q - m - k1
  <2>1. q - m - k1 \in Nat
    BY <1>2
  <2> QED
    BY <2>1
<1>4. \A x \in Range(rs) : PlaceOf(rs, x) \in 1..k1 /\ rs[PlaceOf(rs, x)] = x
  <2> SUFFICES ASSUME NEW x \in Range(rs) PROVE PlaceOf(rs, x) \in 1..k1 /\ rs[PlaceOf(rs, x)] = x
    OBVIOUS
  <2>1. \E i \in DOMAIN rs : rs[i] = x
    BY DEF Range
  <2>2. PICK i : i = PlaceOf(rs, x)
    OBVIOUS
  <2>3. i \in DOMAIN rs /\ rs[i] = x
    BY <2>1, <2>2, Zenon DEF PlaceOf
  <2>4. DOMAIN rs = 1..k1
    BY <1>2
  <2> QED
    BY <2>2, <2>3, <2>4
<1>5. \A a \in 1..n : stays[a] \in 1..m
  BY <1>1, <1>2
<1>6. \A a, b \in 1..n : stays[a] = stays[b] => a = b
  <2>1. PICK l : l = Hot
    OBVIOUS
  <2>2. l \in Seq(1..m) /\ OnceIn(l)
    BY <2>1, ListsTyped DEF HotOnce
  <2>3. OnceIn(Filter(l, Staying))
    BY <2>2, FilterOnceIn
  <2>4. DOMAIN stays = 1..n
    BY <1>1, <1>2
  <2> QED
    BY <1>1, <2>1, <2>3, <2>4 DEF OnceIn
<1>7. \A a \in 1..n :
        \/ stays[a] \in Range(rs) /\ \E i \in 1..k1 : first[a] = m + i /\ rs[i] = stays[a]
        \/ first[a] = stays[a] /\ stays[a] \in 1..m
  BY <1>1, <1>2, <1>4, <1>5, Zenon
<1>8. \A a, b \in 1..n : first[a] = first[b] => stays[a] = stays[b]
  <2> SUFFICES ASSUME NEW a \in 1..n, NEW b \in 1..n, first[a] = first[b]
               PROVE  stays[a] = stays[b]
    OBVIOUS
  <2>1. CASE first[a] \in 1..m
    <3>1. \A i \in 1..k1 : m + i \notin 1..m
      OBVIOUS
    <3>2. first[a] = stays[a] /\ first[b] = stays[b]
      BY <1>7, <2>1, <3>1
    <3> QED
      BY <3>2
  <2>2. CASE first[a] \notin 1..m
    <3>1. PICK i \in 1..k1 : first[a] = m + i /\ rs[i] = stays[a]
      BY <1>7, <2>2
    <3>2. PICK j \in 1..k1 : first[b] = m + j /\ rs[j] = stays[b]
      BY <1>7, <2>2
    <3>3. m + i = m + j
      BY <3>1, <3>2
    <3>4. i = j
      BY <3>3
    <3> QED
      BY <3>1, <3>2, <3>4
  <2> QED
    BY <2>1, <2>2
<1>9. PICK m1 \in Nat : m1 = m + k1
  OBVIOUS
<1>10. first \in Seq(1..m1) /\ OnceIn(first)
  <2>1. DOMAIN first = 1..n /\ Len(first) = n
    BY <1>1, <1>2
  <2>2. \A a \in 1..n : first[a] \in 1..m1
    <3>1. \A i \in 1..k1 : m + i \in 1..m1
      BY <1>9
    <3>2. \A i \in 1..m : i \in 1..m1
      BY <1>9
    <3> QED
      BY <1>7, <3>1, <3>2
  <2>3. first \in Seq(1..m1)
    BY <1>1, <2>1, <2>2
  <2> QED
    BY <1>6, <1>8, <2>1, <2>3 DEF OnceIn
<1>11. more = [k \in 1..p |-> m1 + k]
  <2>1. DOMAIN more = 1..p /\ \A k \in 1..p : more[k] = m1 + k
    BY <1>1, <1>2, <1>3, <1>9
  <2>2. more = [k \in 1..Len(more) |-> more[k]]
    BY <1>1
  <2> QED
    BY <1>1, <2>1, <2>2
<1> QED
  BY <1>1, <1>9, <1>10, <1>11, OnceLonger

\* The last list of HandleCluster.
LEMMA ClusterLast ==
    ASSUME TypeOK
    PROVE  /\ Last([lists EXCEPT ![Len(lists)] = ClusterList]) = ClusterList
           /\ [lists EXCEPT ![Len(lists)] = ClusterList] # <<>>
<1>1. PICK l, ls : l = ClusterList /\ ls = [lists EXCEPT ![Len(lists)] = l]
  OBVIOUS
<1>2. lists \in Seq(Seq(1..Len(heap))) /\ Len(lists) \in Nat \ {0}
  BY ListsTyped DEF TypeOK
<1>3. Len(ls) = Len(lists) /\ ls[Len(lists)] = l
  BY <1>1, <1>2
<1>4. Last(ls) = l /\ ls # <<>>
  BY <1>2, <1>3 DEF Last
<1> QED
  BY <1>1, <1>4

\* Every step keeps the list from repeating a resource.
LEMMA OnceStep ==
    ASSUME TypeOK, HotOnce, [Next]_vars
    PROVE  HotOnce'
<1>1. CASE HandleResource \/ HandlePlacement \/ Fail \/ FinishProperties \/ ResolveFunctions
             \/ UNCHANGED vars
  <2>1. lists' = lists
    BY <1>1 DEF HandleResource, HandlePlacement, Fail, FinishProperties, ResolveFunctions, vars
  <2> QED
    BY <2>1 DEF HotOnce, Hot, Last, OnceIn
<1>2. CASE HandleScaling
  <2>1. pos <= Len(Walked) /\ Split(ScaledHeap, <<Walked, ScaledList>>)
    BY <1>2 DEF HandleScaling, AtKind
  <2>2. PICK h, ls : h = ScaledHeap /\ ls = <<Walked, ScaledList>>
    OBVIOUS
  <2>3. /\ h \in Seq(ResourceRecord) /\ ls \in Seq(Seq(1..Len(h))) /\ ls # <<>>
        /\ Last(ls) = ScaledList /\ Split(h, ls)
    BY <2>1, <2>2, ScaledTyped DEF Last
  <2>4. PICK both \in Seq(1..Len(h)) : SplitOf(h, ls, both)
    BY <2>3, SplitResult
  <2>6. lists' = [ls EXCEPT ![Len(ls)] = Last(ls) \o [k \in DOMAIN both |-> Len(h) + k]]
    BY <2>4 DEF SplitOf
  <2>5. OnceIn(Last(ls))
    BY <2>3, ScaledOnceIn
  <2> QED
    BY <2>3, <2>5, <2>6, SplitHot
<1>3. CASE HandleCluster
  <2>1. /\ pos <= Len(Walked) /\ Visited.triggers # <<>>
        /\ Split(ClusterHeap, [lists EXCEPT ![Len(lists)] = ClusterList])
    BY <1>3 DEF HandleCluster, AtKind, ClusterSucceeds
  <2>2. PICK h, ls : h = ClusterHeap /\ ls = [lists EXCEPT ![Len(lists)] = ClusterList]
    OBVIOUS
  <2>3. /\ h \in Seq(ResourceRecord) /\ ls \in Seq(Seq(1..Len(h))) /\ ls # <<>>
        /\ Last(ls) = ClusterList /\ Split(h, ls)
    BY <2>1, <2>2, ClusterTyped, ClusterLast
  <2>4. PICK both \in Seq(1..Len(h)) : SplitOf(h, ls, both)
    BY <2>3, SplitResult
  <2>6. lists' = [ls EXCEPT ![Len(ls)] = Last(ls) \o [k \in DOMAIN both |-> Len(h) + k]]
    BY <2>4 DEF SplitOf
  <2>5. OnceIn(ClusterList)
    <3>0. PICK m \in Nat : m = Len(heap)
      BY ListsTyped
    <3>1. PICK q \in Nat : m = Len(heap) /\ q = Len(h)
      BY <2>3, <3>0
    <3>2. PICK rs : rs = Replaced
      OBVIOUS
    <3>3. rs \in Seq(1..m)
      BY <2>1, <3>1, <3>2, ClusterParts
    <3>4. m + Len(rs) <= q
      <4>1. PICK v \in ResourceRecord : v = Visited
        BY <2>1, ListsTyped
      <4>2. PICK tg \in Seq(Name), tr \in Seq(Word) : tg = v.targets /\ tr = v.triggers
        BY PartsTyped
      <4>3. PICK k1 \in Nat, k2 \in Nat, k3 \in Nat :
                k1 = Len(rs) /\ k2 = Len(tg) /\ k3 = Len(tr) /\ k3 # 0
        BY <2>1, <3>3, <4>1, <4>2
      <4>4. ClusterMade(v, m, rs, tg, tr)
        BY <2>1, <3>1, <3>2, <3>3, <4>1, <4>2, <4>3, ClusterHeapTyped
      <4>5. q = m + k1 + k2 + (k3 - 1)
        BY <2>2, <3>1, <4>3, <4>4, Zenon DEF ClusterMade
      <4> QED
        BY <4>3, <4>5
    <3>5. \E stays, first, more : MadeList(q, m, rs, stays, first, more)
      BY <2>2, <3>1, <3>2, <3>3, <3>4, ClusterListTyped
    <3>6. PICK stays, first, more : MadeList(q, m, rs, stays, first, more)
      BY <3>5
    <3> QED
      BY <3>1, <3>3, <3>4, <3>6, ClusterOnceIn
  <2> QED
    BY <2>3, <2>5, <2>6, SplitHot
<1>4. CASE Expand
  <2>1. PICK made \in Seq(ResourceRecord) :
            Hot' = Hot \o [k \in DOMAIN made |-> Len(heap) + k]
    BY <1>4, ExpandResult
  <2>0. PICK m \in Nat : m = Len(heap)
    BY ListsTyped
  <2>2. PICK n \in Nat : m = Len(heap) /\ n = Len(made)
    BY <2>0
  <2>3. DOMAIN made = 1..n
    BY <2>2
  <2>4. PICK l : l = Hot
    OBVIOUS
  <2>5. l \in Seq(1..m) /\ OnceIn(l) /\ Hot' = l \o [k \in 1..n |-> m + k]
    BY <2>1, <2>2, <2>3, <2>4, ListsTyped DEF HotOnce
  <2>6. OnceIn(l \o [k \in 1..n |-> m + k])
    BY <2>5, OnceLonger
  <2> QED
    BY <2>5, <2>6 DEF HotOnce
<1> QED
  BY <1>1, <1>2, <1>3, <1>4 DEF Next

\* Adding a part to a name of one part.
LEMMA AppendOne ==
    ASSUME NEW w, NEW z
    PROVE  Append(<<w>>, z) = <<w, z>> /\ Last(<<w, z>>) = z
<1>1. PICK u, S : u = <<w>> /\ S = {w, z}
  OBVIOUS
<1>2. w \in S /\ z \in S
  BY <1>1
<1>3. u \in Seq(S) /\ Len(u) = 1 /\ u[1] = w
  BY <1>1, <1>2
<1>4. PICK v : v = Append(u, z)
  OBVIOUS
<1>5. v \in Seq(S) /\ Len(v) = Len(u) + 1 /\ v[Len(u) + 1] = z /\ \A i \in 1..Len(u) : v[i] = u[i]
  BY <1>2, <1>3, <1>4, AppendProperties
<1>6. Len(v) = 2 /\ v[1] = w /\ v[2] = z
  BY <1>3, <1>5
<1>7. v = <<w, z>>
  <2>1. PICK p : p = <<w, z>>
    OBVIOUS
  <2>2. p \in Seq(S) /\ Len(p) = 2 /\ p[1] = w /\ p[2] = z
    BY <1>2, <2>1
  <2>3. Len(v) = Len(p) /\ \A i \in 1..Len(v) : v[i] = p[i]
    BY <1>6, <2>2
  <2> QED
    BY <1>5, <2>1, <2>2, <2>3, SeqEqual
<1> QED
  BY <1>1, <1>4, <1>6, <1>7 DEF Last

\* Names that are made are of no node and no policy.
LEMMA MadeForm ==
    ASSUME Regular, NEW t \in Topologies, Expansive(t), NEW i \in Shown,
           Last(heap[i].name) \in MadeOf \ {"subnet"}
    PROVE  ScalerForm(t, heap[i])
<1>1. OwnForm(t, heap[i]) \/ ScalerForm(t, heap[i]) \/ SubnetForm(heap[i])
  BY DEF Expansive, Formed
<1>2. ~ OwnForm(t, heap[i])
  BY NamesFacts DEF OwnForm
<1>3. ~ SubnetForm(heap[i])
  BY DEF SubnetForm
<1> QED
  BY <1>1, <1>2, <1>3

\* References of the output.
LEMMA ClosedShown ==
    ASSUME TypeOK, HotOnce, NEW t, Expansive(t)
    PROVE  OutputClosed
<1>1. ASSUME NEW r \in Output PROVE r.refs \subseteq Names(Output)
  <2>1. PICK i \in Shown : r = heap[i]
    BY OutputShown
  <2>2. r.refs \subseteq ShownNames
    BY <2>1 DEF Expansive, RefsShown
  <2>3. \A x \in ShownNames : \E q \in Output : q.name = x
    BY OutputNames DEF ShownNames
  <2> QED
    BY <2>2, <2>3 DEF Names
<1>2. \A r \in Nested : r.refs \subseteq Names(Nested)
  BY DEF Expansive, NestedClosed
<1> QED
  BY <1>1, <1>2 DEF OutputClosed

\* The two policies of a scaling policy.
LEMMA PairedShown ==
    ASSUME Regular, TypeOK, HotOnce, NEW t \in Topologies, Expansive(t)
    PROVE  ScalingPaired
<1> SUFFICES ASSUME NEW p \in Range(heap), p.kind = "ScalingPolicy", p.increment > 0
             PROVE  {<<r.name, r.adjustment>> : r \in {q \in Output :
                            q.kind = "ScalingPolicy" /\ q.policy = p.policy}}
                    = {<<<<p.policy, "scale_out">>, p.increment>>,
                       <<<<p.policy, "scale_in">>, - p.increment>>}
  BY Zenon DEF ScalingPaired
<1>1. PICK c \in DOMAIN t : SameFields(p, t[c])
  <2>1. "ScalingPolicy" \in Policies
    BY DEF Policies
  <2>2. PICK l \in DOMAIN heap : p = heap[l]
    BY DEF Range
  <2> QED
    BY <2>1, <2>2 DEF Expansive, PoliciesGiven
<1>2. t[c].kind = "ScalingPolicy" /\ t[c].increment = p.increment /\ t[c].policy = p.policy
  BY <1>1 DEF SameFields
<1>3. PICK w, a : w = p.policy /\ a = p.increment
  OBVIOUS
<1>4. t[c].name = <<w>>
  BY <1>2, <1>3, TopologyFacts DEF Policies
<1>5. PICK o \in Shown :
        /\ c \in Shown
        /\ \A i \in Shown : heap[i].kind = "ScalingPolicy" => i \in {c, o}
        /\ heap[c].kind = "ScalingPolicy" /\ heap[c].policy = t[c].policy
        /\ heap[c].name = Append(t[c].name, "scale_out") /\ heap[c].adjustment = t[c].increment
        /\ heap[o].kind = "ScalingPolicy" /\ heap[o].policy = t[c].policy
        /\ heap[o].name = Append(t[c].name, "scale_in") /\ heap[o].adjustment = - t[c].increment
  BY <1>2, Zenon DEF Expansive, Paired
<1>6. PICK x, y : x = "scale_out" /\ y = "scale_in"
  OBVIOUS
<1>7. x # y /\ x \in MadeOf \ {"subnet"} /\ y \in MadeOf \ {"subnet"}
  BY <1>6 DEF MadeOf
<1>8. heap[c].name = <<w, x>> /\ heap[o].name = <<w, y>>
  <2>1. Append(<<w>>, x) = <<w, x>> /\ Append(<<w>>, y) = <<w, y>>
    BY AppendOne, Zenon
  <2> QED
    BY <1>4, <1>5, <1>6, <2>1
<1>9. Last(<<w, x>>) = x /\ Last(<<w, y>>) = y /\ <<w, x>> # <<w, y>>
  BY <1>7 DEF Last
<1>10. \A k \in Shown : heap[k].name \in {<<w, x>>, <<w, y>>} => heap[k].kind = "ScalingPolicy"
  <2> SUFFICES ASSUME NEW k \in Shown, heap[k].name \in {<<w, x>>, <<w, y>>}
               PROVE  heap[k].kind = "ScalingPolicy"
    OBVIOUS
  <2>1. Last(heap[k].name) \in {x, y}
    BY <1>9
  <2>2. ScalerForm(t, heap[k])
    BY <1>7, <2>1, MadeForm
  <2> QED
    BY <1>6, <2>1, <2>2 DEF ScalerForm
<1>11. heap[c] \in Output /\ heap[o] \in Output
  <2>1. PICK k \in Shown : heap[k].name = heap[c].name /\ heap[k] \in Output
    BY <1>5, OutputNames
  <2>2. PICK l \in Shown : heap[l].name = heap[o].name /\ heap[l] \in Output
    BY <1>5, OutputNames
  <2>3. k \in {c, o} /\ l \in {c, o}
    BY <1>5, <1>8, <1>10, <2>1, <2>2
  <2>4. heap[c].name # heap[o].name
    BY <1>8, <1>9
  <2> QED
    BY <2>1, <2>2, <2>3, <2>4
<1>12. /\ heap[c].adjustment = a /\ heap[o].adjustment = - a
       /\ heap[c].policy = w /\ heap[o].policy = w
  BY <1>2, <1>3, <1>5
<1> DEFINE found == {q \in Output : q.kind = "ScalingPolicy" /\ q.policy = p.policy}
<1>13. found = {heap[c], heap[o]}
  <2>1. \A q \in Output : q.kind = "ScalingPolicy" => q \in {heap[c], heap[o]}
    <3> SUFFICES ASSUME NEW q \in Output, q.kind = "ScalingPolicy" PROVE q \in {heap[c], heap[o]}
      OBVIOUS
    <3>1. PICK i \in Shown : q = heap[i]
      BY OutputShown
    <3> QED
      BY <1>5, <3>1
  <2> QED
    BY <1>3, <1>5, <1>11, <1>12, <2>1
<1> HIDE DEF found
<1>14. {<<r.name, r.adjustment>> : r \in found} = {<<<<w, x>>, a>>, <<<<w, y>>, - a>>}
  <2>1. {<<r.name, r.adjustment>> : r \in found}
            = {<<heap[c].name, heap[c].adjustment>>, <<heap[o].name, heap[o].adjustment>>}
    BY <1>13
  <2> QED
    BY <1>8, <1>12, <2>1, Zenon
<1> QED
  BY <1>3, <1>6, <1>14, Zenon DEF found

\* The alarms of a policy.
LEMMA AlarmedShown ==
    ASSUME Regular, TypeOK, HotOnce, NEW t \in Topologies, Expansive(t)
    PROVE  AlarmPerTrigger
<1> SUFFICES ASSUME NEW p \in {r \in Range(heap) : r.kind \in AlarmPolicies}
             PROVE  Names({r \in Output : r.policy = p.policy /\ r.kind \in AlarmKinds})
                        = AlarmNames(p)
  BY Zenon DEF AlarmPerTrigger, AlarmNames, AlarmPolicies, AlarmKinds
<1>1. PICK l \in DOMAIN heap : p = heap[l]
  BY DEF Range
<1>2. PICK j \in DOMAIN t : SameFields(p, t[j])
  BY <1>1 DEF Expansive, PoliciesGiven, AlarmPolicies
<1>3. t[j].kind = p.kind /\ t[j].triggers = p.triggers /\ t[j].policy = p.policy
  BY <1>2 DEF SameFields
<1>4. AlarmNames(p) = AlarmNames(t[j])
  BY <1>3, Zenon DEF AlarmNames
<1>5. t[j].kind \in AlarmPolicies /\ t[j].kind \in Policies
  BY <1>3 DEF AlarmPolicies
<1>6. t[j].policy # NoPolicy
  BY <1>5, TopologyFacts
<1> DEFINE mine == {i \in Shown : heap[i].policy = t[j].policy /\ heap[i].kind \in AlarmKinds}
           found == {r \in Output : r.policy = p.policy /\ r.kind \in AlarmKinds}
<1>7. {heap[i].name : i \in mine} = AlarmNames(t[j])
  BY <1>5 DEF Expansive, Alarmed
<1>8. Names(found) \subseteq {heap[i].name : i \in mine}
  <2> SUFFICES ASSUME NEW r \in found PROVE r.name \in {heap[i].name : i \in mine}
    BY DEF Names
  <2>1. PICK i \in Shown : r = heap[i]
    BY OutputShown
  <2> QED
    BY <1>3, <2>1
<1>9. \A i \in mine : heap[i].name \in Names(found)
  <2> SUFFICES ASSUME NEW i \in mine PROVE heap[i].name \in Names(found)
    OBVIOUS
  <2>1. PICK k \in Shown : heap[k].name = heap[i].name /\ heap[k] \in Output
    BY OutputNames
  <2>2. CASE k = i
    BY <1>3, <2>1, <2>2 DEF Names
  <2>3. CASE k # i
    <3>1. heap[k].policy = t[j].policy
      BY <2>1, <2>3, AlikeShown
    <3>2. PICK x : x = heap[i].name /\ x = heap[k].name
      BY <2>1
    <3>3. heap[k].kind \in AlarmKinds
      <4>1. /\ OwnForm(t, heap[i]) \/ ScalerForm(t, heap[i]) \/ SubnetForm(heap[i])
            /\ OwnForm(t, heap[k]) \/ ScalerForm(t, heap[k]) \/ SubnetForm(heap[k])
        BY DEF Expansive, Formed
      <4>2. ~ SubnetForm(heap[i]) /\ ~ SubnetForm(heap[k])
        BY <1>6, <3>1 DEF SubnetForm
      <4>3. CASE Last(x) \in MadeOf \ {"subnet"}
        <5>1. ScalerForm(t, heap[i]) /\ ScalerForm(t, heap[k])
          BY <3>2, <4>3, MadeForm
        <5> QED
          BY <3>2, <5>1 DEF ScalerForm
      <4>4. CASE Last(x) \notin MadeOf \ {"subnet"}
        <5>1. OwnForm(t, heap[i]) /\ OwnForm(t, heap[k])
          BY <3>2, <4>1, <4>2, <4>4 DEF ScalerForm
        <5>2. PICK m \in DOMAIN t :
                /\ x \in TakenNames(t[m])
                /\ t[m].kind \in {"Monitoring", "Reservation"} <=> heap[i].kind \in AlarmKinds
          BY <3>2, <5>1, Zenon DEF OwnForm
        <5>3. PICK n \in DOMAIN t :
                /\ x \in TakenNames(t[n])
                /\ t[n].kind \in {"Monitoring", "Reservation"} <=> heap[k].kind \in AlarmKinds
          BY <3>2, <5>1, Zenon DEF OwnForm
        <5>4. m = n
          BY <5>2, <5>3, NamesFacts, Zenon
        <5> QED
          BY <5>2, <5>3, <5>4
      <4> QED
        BY <4>3, <4>4
    <3> QED
      BY <1>3, <2>1, <3>1, <3>3 DEF Names
  <2> QED
    BY <2>2, <2>3
<1> QED
  BY <1>4, <1>7, <1>8, <1>9

\* The targets of a placement.
LEMMA GroupedShown ==
    ASSUME Regular, TypeOK, HotOnce, NEW t \in Topologies, Expansive(t)
    PROVE  PlacementKept
<1> SUFFICES ASSUME NEW p \in Range(heap), p.kind = "ServerGroup", NEW x \in Range(p.targets)
             PROVE  \E r \in Output \cup Nested : r.name = x /\ p.name \in r.refs
  BY Zenon DEF PlacementKept
<1>1. PICK l \in DOMAIN heap : p = heap[l]
  BY DEF Range
<1>2. PICK g \in DOMAIN t : SameFields(p, t[g]) /\ (t[g].kind = "ServerGroup" => p.name = t[g].name)
  BY <1>1 DEF Expansive, PoliciesGiven, Policies
<1>3. t[g].kind = "ServerGroup" /\ p.name = t[g].name /\ x \in Range(t[g].targets)
  BY <1>2 DEF SameFields
<1>4. CASE \E i \in Shown : /\ heap[i].name = x /\ t[g].name \in heap[i].refs
                            /\ heap[i].policy = NoPolicy
  <2>1. PICK i \in Shown : /\ heap[i].name = x /\ t[g].name \in heap[i].refs
                           /\ heap[i].policy = NoPolicy
    BY <1>4
  <2>2. PICK k \in Shown : heap[k].name = heap[i].name /\ heap[k] \in Output
    BY OutputNames
  <2>3. k = i
    BY <2>1, <2>2, AlikeShown
  <2> QED
    BY <1>3, <2>1, <2>2, <2>3
<1>5. CASE \E r \in Nested : r.name = x /\ t[g].name \in r.refs
  BY <1>3, <1>5
<1> QED
  BY <1>3, <1>4, <1>5 DEF Expansive, Grouped

-----------------------------------------------------------------------------
(* The walk: handle_properties of a resource.                              *)

\* The conditions that an output meets when it is expanded from a walk.
LEMMA ShownProperties ==
    ASSUME Regular, TypeOK, HotOnce, NEW t \in Topologies, Expansive(t)
    PROVE  MergesAlike /\ OutputClosed /\ PoliciesKept
<1>1. MergesAlike
  BY AlikeShown DEF MergesAlike, Shown
<1> QED
  BY <1>1, ClosedShown, PairedShown, AlarmedShown, GroupedShown DEF PoliciesKept

\* What a step that changes one resource, which is no placement, keeps.
LEMMA GivenKept ==
    ASSUME NEW t, NEW h, Given(t, h), NEW h2, DOMAIN t \subseteq DOMAIN h2, NEW p,
           \A i \in DOMAIN t \ {p} : h2[i] = h[i],
           p \in DOMAIN t =>
                /\ SameFields(h2[p], t[p]) /\ h2[p].name = NameNow(t[p], h2[p].handled)
                /\ t[p].kind # "ServerGroup"
                /\ t[p].kind \in Nodes => h2[p].refs = h[p].refs
                /\ t[p].kind \in Policies => h2[p].refs = PolicyRefs(t[p], h2[p].handled)
    PROVE  Given(t, h2)
<1>1. \A i \in DOMAIN t : \A g \in Placements(t, i) : h2[g] = h[g]
  BY DEF Placements
<1>2. ASSUME NEW i \in DOMAIN t, i # p PROVE GivenOne(t, h2, i)
  <2>1. GivenOne(t, h, i) /\ h2[i] = h[i]
    BY <1>2 DEF Given
  <2> QED
    BY <1>1, <2>1 DEF GivenOne
<1>3. ASSUME p \in DOMAIN t PROVE GivenOne(t, h2, p)
  <2>1. GivenOne(t, h, p)
    BY <1>3 DEF Given
  <2>2. t[p].kind \in Nodes =>
            /\ h2[p].refs \subseteq t[p].refs \cup PlacementNames(t, p)
            /\ \A g \in Placements(t, p) : h2[g].handled => t[g].name \in h2[p].refs
    BY <1>1, <1>3, <2>1 DEF GivenOne
  <2> QED
    BY <1>3, <2>2 DEF GivenOne
<1> QED
  BY <1>2, <1>3 DEF Given

\* The handling of a resource of its own.
LEMMA OwnFacts ==
    ASSUME NEW r \in ResourceRecord, NEW q, q = OwnHandled(r)
    PROVE  /\ q \in ResourceRecord /\ SameFields(q, r) /\ q.refs = r.refs
           /\ q.adjustment = r.adjustment
           /\ LeftAlone(r) => q = r
           /\ ~ LeftAlone(r) => q.handled
           /\ r.kind \in {"Monitoring", "Reservation"} /\ Triggered(r)
                => q.name = <<r.triggers[1]>>
           /\ ~ (r.kind \in {"Monitoring", "Reservation"} /\ Triggered(r)) => q.name = r.name
<1>1. q \in ResourceRecord
  BY HandledTyped
<1>2. r.kind \in {"Monitoring", "Reservation"} /\ Triggered(r) <=> OwnsTrigger(r)
  <2>1. PICK l : l = r.triggers
    OBVIOUS
  <2>2. l \in Seq(Word)
    BY <2>1, PartsTyped
  <2>3. Len(l) # 0 <=> l # <<>>
    BY <2>2
  <2> QED
    BY <2>1, <2>3 DEF Triggered, OwnsTrigger
<1>3. OwnsTrigger(r) => ~ LeftAlone(r)
  BY DEF OwnsTrigger, LeftAlone
<1>4. CASE LeftAlone(r)
  <2>1. q = r
    BY <1>3, <1>4 DEF OwnHandled
  <2> QED
    BY <1>1, <1>2, <1>3, <1>4, <2>1 DEF SameFields
<1>5. CASE OwnsTrigger(r)
  <2>1. PICK x : x = <<r.triggers[1]>>
    OBVIOUS
  <2>2. q = [Handled(r) EXCEPT !.name = x]
    BY <1>3, <1>5, <2>1 DEF OwnHandled
  <2>3. /\ q.name = x /\ q.handled /\ q.refs = r.refs /\ q.adjustment = r.adjustment
        /\ q.kind = r.kind /\ q.policy = r.policy /\ q.targets = r.targets
        /\ q.increment = r.increment /\ q.triggers = r.triggers
        /\ q.server = r.server /\ q.hidden = r.hidden
    BY <2>2 DEF Handled, ResourceRecord
  <2> QED
    BY <1>1, <1>2, <1>3, <1>5, <2>1, <2>3 DEF SameFields
<1>6. CASE ~ LeftAlone(r) /\ ~ OwnsTrigger(r)
  <2>1. q = Handled(r)
    BY <1>6 DEF OwnHandled
  <2>2. /\ q.name = r.name /\ q.handled /\ q.refs = r.refs /\ q.adjustment = r.adjustment
        /\ q.kind = r.kind /\ q.policy = r.policy /\ q.targets = r.targets
        /\ q.increment = r.increment /\ q.triggers = r.triggers
        /\ q.server = r.server /\ q.hidden = r.hidden
    BY <2>1 DEF Handled, ResourceRecord
  <2> QED
    BY <1>1, <1>2, <1>6, <2>2 DEF SameFields
<1> QED
  BY <1>4, <1>5, <1>6

\* What comes out of a node or of a policy that neither scales nor places.
LEMMA HandledOne ==
    ASSUME TypeOK, NEW t \in Topologies, NEW p \in DOMAIN t, GivenOne(t, heap, p),
           t[p].kind \notin Scalers,
           NEW q, q = OwnHandled(heap[p])
    PROVE  /\ SameFields(q, t[p]) /\ q.handled /\ q.name = NameNow(t[p], q.handled)
           /\ q.refs = heap[p].refs /\ q.adjustment = heap[p].adjustment
           /\ t[p].kind \in Policies => q.refs = PolicyRefs(t[p], q.handled)
<1>1. PICK r, s : r = heap[p] /\ s = t[p]
  OBVIOUS
<1>2. r \in ResourceRecord /\ s \in ResourceRecord /\ s.kind \in Nodes \cup Policies
  BY <1>1, ListsTyped, TopologyFacts DEF GivenOne
<1>3. SameFields(r, s) /\ r.name = NameNow(s, r.handled)
      /\ (s.kind \in Policies => r.refs = PolicyRefs(s, r.handled))
  BY <1>1 DEF GivenOne
<1>4. /\ q \in ResourceRecord /\ SameFields(q, r) /\ q.refs = r.refs
      /\ q.adjustment = r.adjustment
      /\ ~ LeftAlone(r) => q.handled
      /\ r.kind \in {"Monitoring", "Reservation"} /\ Triggered(r) => q.name = <<r.triggers[1]>>
      /\ ~ (r.kind \in {"Monitoring", "Reservation"} /\ Triggered(r)) => q.name = r.name
  BY <1>1, <1>2, OwnFacts
<1>5. r.kind = s.kind /\ r.triggers = s.triggers
  BY <1>3 DEF SameFields
<1>6. ~ LeftAlone(r)
  BY <1>1, <1>2, <1>5 DEF LeftAlone, Nodes, Policies, Scalers
<1>7. SameFields(q, s)
  BY <1>3, <1>4 DEF SameFields
<1>9. q.name = NameNow(s, q.handled)
  <2>1. CASE s.kind \in {"Monitoring", "Reservation"} /\ Triggered(s)
    BY <1>4, <1>5, <1>6, <2>1 DEF NameNow, Triggered
  <2>2. CASE ~ (s.kind \in {"Monitoring", "Reservation"} /\ Triggered(s))
    <3>1. NameNow(s, r.handled) = s.name /\ NameNow(s, q.handled) = s.name
      BY <1>1, <2>2 DEF NameNow, Scalers
    <3> QED
      BY <1>3, <1>4, <1>5, <2>2, <3>1 DEF Triggered
  <2> QED
    BY <2>1, <2>2
<1>10. s.kind \in Policies => q.refs = PolicyRefs(s, q.handled)
  <2>1. PolicyRefs(s, r.handled) = {} /\ PolicyRefs(s, q.handled) = {}
    BY <1>1 DEF PolicyRefs, Scalers
  <2> QED
    BY <1>3, <1>4, <2>1
<1> QED
  BY <1>1, <1>4, <1>6, <1>7, <1>9, <1>10
\* Every resource of t, as the walk has it.
LEMMA GivenFacts ==
    ASSUME TypeOK, NEW t \in Topologies, Given(t, heap)
    PROVE  /\ DOMAIN t \subseteq DOMAIN heap
           /\ \A i \in DOMAIN t :
                /\ GivenOne(t, heap, i) /\ SameFields(heap[i], t[i])
                /\ heap[i].kind = t[i].kind /\ heap[i].hidden = t[i].hidden
                /\ heap[i].targets = t[i].targets /\ heap[i].triggers = t[i].triggers
                /\ heap[i].policy = t[i].policy /\ heap[i].increment = t[i].increment
                /\ heap[i].name = NameNow(t[i], heap[i].handled)
                /\ t[i].kind \in Nodes \cup {"ServerGroup"} => heap[i].name = t[i].name
<1>1. DOMAIN t \subseteq DOMAIN heap
  BY DEF Given, GivenOne
<1>2. ASSUME NEW i \in DOMAIN t, t[i].kind \in Nodes \cup {"ServerGroup"}
      PROVE  NameNow(t[i], heap[i].handled) = t[i].name
  BY <1>2 DEF NameNow, Nodes
<1>3. \A i \in DOMAIN t :
        GivenOne(t, heap, i) /\ SameFields(heap[i], t[i])
        /\ heap[i].name = NameNow(t[i], heap[i].handled)
  BY DEF Given, GivenOne
<1>4. \A i \in DOMAIN t :
        /\ heap[i].kind = t[i].kind /\ heap[i].hidden = t[i].hidden
        /\ heap[i].targets = t[i].targets /\ heap[i].triggers = t[i].triggers
        /\ heap[i].policy = t[i].policy /\ heap[i].increment = t[i].increment
  BY <1>3, Zenon DEF SameFields
<1> QED
  BY <1>1, <1>2, <1>3, <1>4

\* HandleResource changes the resource that the walk is at.
LEMMA ResourceStep ==
    ASSUME TypeOK, HandleResource, NEW p, p = Walked[pos], NEW q, q = OwnHandled(heap[p])
    PROVE  /\ p \in DOMAIN heap /\ heap[p] \in ResourceRecord /\ pos \in Nat /\ pos <= Len(Walked)
           /\ DOMAIN heap' = DOMAIN heap /\ heap'[p] = q
           /\ \A i \in DOMAIN heap \ {p} : heap'[i] = heap[i]
           /\ heap[p].kind \in {"ServerGroup", "ScalingPolicy", "SenlinPolicy", "MadePolicy"}
                => LeftAlone(heap[p])
<1>1. pos <= Len(Walked) /\ Visited = heap[p]
  BY DEF HandleResource, Visited
<1>2. p \in DOMAIN heap /\ heap[p] \in ResourceRecord
  BY <1>1, ListsTyped
<1>3. heap' = [heap EXCEPT ![p] = q]
  BY <1>1 DEF HandleResource
<1>4. heap \in [DOMAIN heap -> ResourceRecord]
  BY DEF TypeOK
<1> QED
  BY <1>1, <1>2, <1>3, <1>4 DEF HandleResource, TypeOK

\* A node, or a policy that neither scales nor places, is handled.
LEMMA ResourceGiven ==
    ASSUME TypeOK, NEW t \in Topologies, Given(t, heap), HandleResource,
           NEW p, p = Walked[pos],
           p \in DOMAIN t => t[p].kind \notin Scalers \cup {"ServerGroup"}
    PROVE  /\ Given(t, heap')
           /\ p \in DOMAIN t => heap'[p].handled /\ heap'[p].adjustment = heap[p].adjustment
<1>1. PICK q : q = OwnHandled(heap[p])
  OBVIOUS
<1>2. /\ DOMAIN heap' = DOMAIN heap /\ heap'[p] = q
      /\ \A i \in DOMAIN heap \ {p} : heap'[i] = heap[i]
  BY <1>1, ResourceStep
<1>3. DOMAIN t \subseteq DOMAIN heap /\ \A i \in DOMAIN t : GivenOne(t, heap, i)
  BY GivenFacts
<1>4. p \in DOMAIN t =>
        /\ SameFields(q, t[p]) /\ q.handled /\ q.name = NameNow(t[p], q.handled)
        /\ q.refs = heap[p].refs /\ q.adjustment = heap[p].adjustment
        /\ t[p].kind \in Policies => q.refs = PolicyRefs(t[p], q.handled)
  BY <1>1, <1>2, <1>3, HandledOne
<1>5. Given(t, heap')
  <2>1. PICK h2 : h2 = heap'
    OBVIOUS
  <2>2. \A i \in DOMAIN t \ {p} : h2[i] = heap[i]
    BY <1>2, <1>3, <2>1
  <2>3. DOMAIN t \subseteq DOMAIN h2 /\ h2[p] = q
    BY <1>2, <1>3, <2>1
  <2>4. p \in DOMAIN t =>
                /\ SameFields(h2[p], t[p]) /\ h2[p].name = NameNow(t[p], h2[p].handled)
                /\ t[p].kind # "ServerGroup"
                /\ t[p].kind \in Nodes => h2[p].refs = heap[p].refs
                /\ t[p].kind \in Policies => h2[p].refs = PolicyRefs(t[p], h2[p].handled)
    BY <1>4, <2>3
  <2>5. Given(t, h2)
    BY <2>2, <2>3, <2>4, GivenKept
  <2> QED
    BY <2>1, <2>5
<1> QED
  BY <1>2, <1>4, <1>5

\* The walk goes over the resources of t.
LEMMA PlainWalk ==
    ASSUME TypeOK, NEW t \in Topologies, Walked = Identity(t), pos <= Len(Walked)
    PROVE  Walked[pos] = pos /\ pos \in DOMAIN t /\ pos \in 1..Len(t)
<1>1. PICK n \in Nat : n = Len(t)
  BY TopologyFacts
<1>2. DOMAIN t = 1..n
  BY <1>1, TopologyFacts
<1>3. Walked = [i \in 1..n |-> i] /\ Len(Walked) = n
  BY <1>2 DEF Identity
<1>4. pos \in 1..n
  BY <1>3 DEF TypeOK
<1> QED
  BY <1>1, <1>2, <1>3, <1>4

\* HandleResource before a policy scales.
LEMMA PlainResource ==
    ASSUME TypeOK, NEW t \in Topologies, Given(t, heap), Plain(t), HandleResource
    PROVE  Given(t, heap') /\ Plain(t)'
<1>1. Walked = Identity(t) /\ lists = <<Identity(t)>> /\ policyRes = {} /\ nested = <<>>
      /\ DOMAIN heap = DOMAIN t
      /\ \A i \in DOMAIN t :
            (heap[i].handled <=> i < pos) /\ (heap[i].handled => t[i].kind \notin Scalers)
  BY DEF Plain, Walked
<1>2. Walked[pos] = pos /\ pos \in DOMAIN t
  BY <1>1, PlainWalk DEF HandleResource
<1>3. /\ DOMAIN heap' = DOMAIN heap
      /\ \A i \in DOMAIN heap \ {pos} : heap'[i] = heap[i]
      /\ heap[pos].kind \in {"ServerGroup", "ScalingPolicy", "SenlinPolicy", "MadePolicy"}
                => LeftAlone(heap[pos])
  BY <1>2, ResourceStep
<1>4. t[pos].kind \notin Scalers \cup {"ServerGroup"}
  <2>1. heap[pos].kind = t[pos].kind /\ t[pos].kind \in Nodes \cup Policies
    BY <1>2, GivenFacts, TopologyFacts
  <2> QED
    BY <1>1, <1>3, <2>1 DEF LeftAlone, Nodes, Policies, Scalers
<1>5. Given(t, heap') /\ heap'[pos].handled
  BY <1>2, <1>4, ResourceGiven
<1>6. pos' = pos + 1 /\ lists' = lists /\ policyRes' = policyRes /\ nested' = nested
  BY DEF HandleResource
<1>7. \A i \in DOMAIN t : i \in Nat /\ pos \in Nat
  BY <1>2, TopologyFacts
<1>8. \A i \in DOMAIN t :
            (heap'[i].handled <=> i < pos') /\ (heap'[i].handled => t[i].kind \notin Scalers)
  <2> SUFFICES ASSUME NEW i \in DOMAIN t
               PROVE  (heap'[i].handled <=> i < pos') /\ (heap'[i].handled => t[i].kind \notin Scalers)
    OBVIOUS
  <2>1. i \in Nat /\ pos \in Nat
    BY <1>7
  <2>2. CASE i = pos
    BY <1>4, <1>5, <1>6, <2>1, <2>2
  <2>3. CASE i # pos
    BY <1>1, <1>3, <1>6, <2>1, <2>3
  <2> QED
    BY <2>2, <2>3
<1> QED
  BY <1>1, <1>3, <1>5, <1>6, <1>8 DEF Plain
\* HandleResource behind a scaling policy.
LEMMA ScaledResource ==
    ASSUME Regular, TypeOK, NEW t \in Topologies, NEW c \in DOMAIN t,
           Given(t, heap), Scaled(t, c), HandleResource
    PROVE  Given(t, heap') /\ Scaled(t, c)'
<1>1. PICK n \in Nat : n = Len(t) /\ DOMAIN t = 1..n
  BY TopologyFacts
<1>2. /\ t[c].kind = "ScalingPolicy" /\ heap[c].adjustment = t[c].increment
      /\ \A i \in DOMAIN t : heap[i].handled <=> i < pos
      /\ c < pos /\ Walked = Identity(t)
      /\ DOMAIN heap = 1 .. n + IF t[c].increment = 0 THEN 1 ELSE 2
  BY <1>1 DEF Scaled
<1>3. Walked[pos] = pos /\ pos \in DOMAIN t
  BY <1>2, PlainWalk DEF HandleResource
<1>4. /\ DOMAIN heap' = DOMAIN heap
      /\ \A i \in DOMAIN heap \ {pos} : heap'[i] = heap[i]
  BY <1>3, ResourceStep
<1>5. t[pos].kind \notin Scalers \cup {"ServerGroup"}
  <2>1. t[c].kind \in Scalers
    BY <1>2 DEF Scalers
  <2>2. t[pos].kind \in Scalers => pos = c
    BY <1>3, <2>1, ScalerFacts
  <2>3. t[pos].kind = "ServerGroup" => pos < c
    BY <1>3, <2>1, ScalerFacts
  <2>4. c \in Nat /\ pos \in Nat /\ c < pos
    BY <1>1, <1>2, <1>3
  <2> QED
    BY <2>2, <2>3, <2>4
<1>6. Given(t, heap') /\ heap'[pos].handled /\ heap'[pos].adjustment = heap[pos].adjustment
  BY <1>3, <1>5, ResourceGiven
<1>7. /\ pos' = pos + 1 /\ lists' = lists /\ policyRes' = policyRes /\ nested' = nested
      /\ Hot' = Hot /\ Walked' = Walked
  BY DEF HandleResource, Hot, Last, Walked
<1>8. \A i \in DOMAIN t : heap'[i].handled <=> i < pos'
  <2> SUFFICES ASSUME NEW i \in DOMAIN t PROVE heap'[i].handled <=> i < pos'
    OBVIOUS
  <2>1. i \in Nat /\ pos \in Nat /\ i \in DOMAIN heap
    BY <1>1, <1>2, <1>3
  <2>2. CASE i = pos
    BY <1>6, <1>7, <2>1, <2>2
  <2>3. CASE i # pos
    BY <1>2, <1>4, <1>7, <2>1, <2>3
  <2> QED
    BY <2>2, <2>3
<1>9. heap'[c].adjustment = t[c].increment /\ c < pos'
  <2>1. c # pos /\ c \in DOMAIN heap /\ c < pos'
    BY <1>1, <1>2, <1>3, <1>7
  <2> QED
    BY <1>2, <1>4, <2>1
<1>10. GroupOf(t[c], heap'[n + 1]) /\ (t[c].increment # 0 => OppositeOf(t[c], heap'[n + 2]))
  <2>1. n + 1 \in DOMAIN heap \ {pos}
    BY <1>1, <1>2, <1>3
  <2>2. t[c].increment # 0 => n + 2 \in DOMAIN heap \ {pos}
    BY <1>1, <1>2, <1>3
  <2>3. GroupOf(t[c], heap[n + 1]) /\ (t[c].increment # 0 => OppositeOf(t[c], heap[n + 2]))
    BY <1>1 DEF Scaled
  <2> QED
    BY <1>4, <2>1, <2>2, <2>3
<1>11. Range(Hot') = Range(Hot)
  BY <1>7 DEF Range
<1>12. Range(Hot') = Outside(t) \cup (DOMAIN heap' \ DOMAIN t)
  BY <1>4, <1>11 DEF Scaled
<1>13. /\ \A i \in DOMAIN t : t[i].kind \in Movable => \E r \in Range(nested') : NestedOf(t, i, r)
       /\ \A r \in Range(nested') : \E i \in DOMAIN t : t[i].kind \in Movable /\ NestedOf(t, i, r)
  BY <1>7 DEF Scaled
<1> QED
  <2>1. DOMAIN heap' = 1 .. Len(t) + IF t[c].increment = 0 THEN 1 ELSE 2
    BY <1>1, <1>2, <1>4
  <2>2. GroupOf(t[c], heap'[Len(t) + 1]) /\ (t[c].increment # 0 => OppositeOf(t[c], heap'[Len(t) + 2]))
    BY <1>1, <1>10
  <2>3. Scaled(t, c)'
    BY <1>2, <1>7, <1>8, <1>9, <1>12, <1>13, <2>1, <2>2 DEF Scaled
  <2> QED
    BY <1>6, <2>3

\* What a cluster makes is not told apart by the fields that handling changes.
LEMMA MadeKept ==
    ASSUME NEW t, NEW c, NEW r, NEW q, SameFields(q, r), q.name = r.name, q.refs = r.refs
    PROVE  /\ \A j : ProfileOf(t, j, r) => ProfileOf(t, j, q)
           /\ \A x : ClusterOf(t[c], x, r) => ClusterOf(t[c], x, q)
           /\ MadeByCluster(t, c, r) => MadeByCluster(t, c, q)
<1>1. q.kind = r.kind /\ q.policy = r.policy /\ q.hidden = r.hidden
  BY DEF SameFields
<1>2. \A j : ProfileOf(t, j, r) => ProfileOf(t, j, q)
  BY <1>1 DEF ProfileOf
<1>3. \A s, x : ClusterOf(s, x, r) => ClusterOf(s, x, q)
  BY <1>1 DEF ClusterOf
<1>4. \A s, g : TriggerOf(s, g, r) => TriggerOf(s, g, q)
  BY <1>1 DEF TriggerOf
<1> QED
  BY <1>2, <1>3, <1>4 DEF MadeByCluster

\* HandleResource behind a cluster policy.
LEMMA ClusteredResource ==
    ASSUME Regular, TypeOK, NEW t \in Topologies, NEW c \in DOMAIN t,
           Given(t, heap), Clustered(t, c), HandleResource
    PROVE  Given(t, heap') /\ Clustered(t, c)'
<1>1. PICK n \in Nat : n = Len(t) /\ DOMAIN t = 1..n
  BY TopologyFacts
<1>2. PICK p, q : p = Walked[pos] /\ q = OwnHandled(heap[p])
  OBVIOUS
<1>3. /\ p \in DOMAIN heap /\ heap[p] \in ResourceRecord /\ pos \in Nat /\ pos <= Len(Walked)
      /\ DOMAIN heap' = DOMAIN heap /\ heap'[p] = q
      /\ \A i \in DOMAIN heap \ {p} : heap'[i] = heap[i]
  BY <1>2, ResourceStep
<1>4. /\ t[c].kind = "SenlinPolicy" /\ Triggered(t[c]) /\ nested = <<>>
      /\ \A i \in DOMAIN t : i <= c => heap[i].handled
      /\ DOMAIN t \subseteq DOMAIN heap
      /\ Len(lists) = 1 /\ pos > c /\ \A k \in DOMAIN Walked : k >= pos => Walked[k] > c
  BY DEF Clustered
<1>5. p > c /\ p \in Nat
  <2>1. pos \in DOMAIN Walked
    BY <1>3, ListsTyped DEF TypeOK
  <2>2. p > c
    BY <1>2, <1>3, <1>4, <2>1
  <2>3. p \in 1..Len(heap)
    BY <1>3, ListsTyped
  <2> QED
    BY <2>2, <2>3, ListsTyped
<1>6. p \in DOMAIN t => t[p].kind \in Nodes
  BY <1>4, <1>5 DEF Regular, ClusterFits
<1>7. Given(t, heap')
  <2>1. p \in DOMAIN t => t[p].kind \notin Scalers \cup {"ServerGroup"}
    BY <1>6 DEF Nodes, Scalers
  <2> QED
    BY <1>2, <2>1, ResourceGiven
<1>8. /\ pos' = pos + 1 /\ lists' = lists /\ policyRes' = policyRes /\ nested' = nested
      /\ Hot' = Hot /\ Walked' = Walked /\ Len(lists') = Len(lists)
  BY DEF HandleResource, Hot, Last, Walked
<1>9. /\ SameFields(q, heap[p]) /\ q.refs = heap[p].refs
      /\ ~ (heap[p].kind \in {"Monitoring", "Reservation"} /\ Triggered(heap[p]))
            => q.name = heap[p].name
  BY <1>2, <1>3, OwnFacts
<1>10. \A i \in DOMAIN heap \ DOMAIN t :
        SameFields(heap'[i], heap[i]) /\ heap'[i].name = heap[i].name /\ heap'[i].refs = heap[i].refs
  <2> SUFFICES ASSUME NEW i \in DOMAIN heap \ DOMAIN t
               PROVE  /\ SameFields(heap'[i], heap[i]) /\ heap'[i].name = heap[i].name
                      /\ heap'[i].refs = heap[i].refs
    OBVIOUS
  <2>1. CASE i # p
    BY <1>3, <2>1 DEF SameFields
  <2>2. CASE i = p
    <3>1. MadeByCluster(t, c, heap[p])
      BY <2>2 DEF Clustered
    <3>2. heap[p].kind \in {"Profile", "Cluster", "MadePolicy"}
      BY <3>1 DEF MadeByCluster, ProfileOf, ClusterOf, TriggerOf
    <3> QED
      BY <1>3, <1>9, <2>2, <3>2
  <2> QED
    BY <2>1, <2>2
<1>11. \A i \in DOMAIN heap \ DOMAIN t :
            /\ heap'[i].kind = heap[i].kind /\ heap'[i].name = heap[i].name
            /\ MadeByCluster(t, c, heap'[i])
            /\ \A j : ProfileOf(t, j, heap[i]) => ProfileOf(t, j, heap'[i])
            /\ \A x : ClusterOf(t[c], x, heap[i]) => ClusterOf(t[c], x, heap'[i])
  <2> SUFFICES ASSUME NEW i \in DOMAIN heap \ DOMAIN t
               PROVE  /\ heap'[i].kind = heap[i].kind /\ heap'[i].name = heap[i].name
                      /\ MadeByCluster(t, c, heap'[i])
                      /\ \A j : ProfileOf(t, j, heap[i]) => ProfileOf(t, j, heap'[i])
                      /\ \A x : ClusterOf(t[c], x, heap[i]) => ClusterOf(t[c], x, heap'[i])
    OBVIOUS
  <2>1. MadeByCluster(t, c, heap[i])
    BY DEF Clustered
  <2>2. PICK a, b : a = heap[i] /\ b = heap'[i]
    OBVIOUS
  <2>3. SameFields(b, a) /\ b.name = a.name /\ b.refs = a.refs
    BY <1>10, <2>2
  <2>4. /\ \A j : ProfileOf(t, j, a) => ProfileOf(t, j, b)
        /\ \A x : ClusterOf(t[c], x, a) => ClusterOf(t[c], x, b)
        /\ MadeByCluster(t, c, a) => MadeByCluster(t, c, b)
    BY <2>3, MadeKept
  <2> QED
    BY <2>1, <2>2, <2>3, <2>4 DEF SameFields
<1>12. \A i \in DOMAIN t : i <= c => heap'[i].handled
  <2> SUFFICES ASSUME NEW i \in DOMAIN t, i <= c PROVE heap'[i].handled
    OBVIOUS
  <2>1. i # p
    BY <1>1, <1>5
  <2> QED
    BY <1>3, <1>4, <2>1
<1>13. pos' > c /\ \A k \in DOMAIN Walked' : k >= pos' => Walked'[k] > c
  <2>1. \A k \in DOMAIN Walked : k \in Nat
    BY ListsTyped
  <2> QED
    BY <1>1, <1>3, <1>4, <1>8, <2>1
<1>14. Range(Hot') = (DOMAIN heap' \ DOMAIN t) \cup Remaining(t, c)
  <2>1. Range(Hot') = Range(Hot)
    BY <1>8 DEF Range
  <2> QED
    BY <1>3, <2>1 DEF Clustered
<1>15. /\ \A j \in Taken(t, c) : \E i \in DOMAIN heap' \ DOMAIN t : ProfileOf(t, j, heap'[i])
       /\ \A x \in Range(t[c].targets) :
            \E i \in DOMAIN heap' \ DOMAIN t : ClusterOf(t[c], x, heap'[i])
  BY <1>3, <1>11 DEF Clustered
<1>16. \A i, j \in DOMAIN heap' \ DOMAIN t :
            heap'[i].kind = "Profile" /\ heap'[j].kind = "Profile" /\ heap'[i].name = heap'[j].name
                => i = j
  BY <1>3, <1>11 DEF Clustered
<1>17. \A i \in DOMAIN heap' \ DOMAIN t : MadeByCluster(t, c, heap'[i])
  BY <1>3, <1>11
<1>18. Clustered(t, c)'
  BY <1>3, <1>4, <1>8, <1>12, <1>13, <1>14, <1>15, <1>16, <1>17 DEF Clustered
<1> QED
  BY <1>7, <1>18
-----------------------------------------------------------------------------
(* The walk: placements.                                                   *)

\* A resource that has the name of a server is that server.
LEMMA ServerFacts ==
    ASSUME Regular, NEW t \in Topologies, NEW i \in DOMAIN t,
           NEW x \in ServerNames(t), x \in TakenNames(t[i])
    PROVE  t[i].kind = "Server" /\ t[i].name = x
<1>1. PICK s \in DOMAIN t : t[s].kind = "Server" /\ t[s].name = x
  BY DEF ServerNames, Range
<1>2. x \in TakenNames(t[s])
  BY <1>1, NamesFacts
<1>3. s = i
  BY <1>2, NamesFacts, Zenon
<1> QED
  BY <1>1, <1>3

\* The name of a resource is one that it may get, if it is no scaling policy.
LEMMA NameTaken ==
    ASSUME Regular, NEW t \in Topologies, NEW i \in DOMAIN t, NEW b \in BOOLEAN,
           b => t[i].kind # "ScalingPolicy",
           b /\ t[i].kind = "SenlinPolicy" => Triggered(t[i])
    PROVE  NameNow(t[i], b) \in TakenNames(t[i])
<1>1. PICK s : s = t[i]
  OBVIOUS
<1>2. s.name \in TakenNames(s) /\ s \in ResourceRecord
  BY <1>1, NamesFacts, TopologyFacts, Zenon
<1>3. PICK l : l = s.triggers
  OBVIOUS
<1>4. l \in Seq(Word) /\ (Triggered(s) <=> Len(l) # 0)
  BY <1>2, <1>3, PartsTyped DEF Triggered
<1>5. Triggered(s) => l[1] \in Range(l) /\ l[Len(l)] \in Range(l)
  BY <1>4 DEF Range
<1>6. CASE b /\ s.kind \in {"Monitoring", "Reservation"} /\ Triggered(s)
  <2>1. NameNow(s, b) = <<l[1]>>
    BY <1>3, <1>6 DEF NameNow
  <2>2. \A g \in Range(l) : <<g>> \in TakenNames(s)
    BY <1>3, <1>6, TakenTriggers
  <2> QED
    BY <1>1, <1>5, <1>6, <2>1, <2>2
<1>7. CASE b /\ s.kind = "SenlinPolicy"
  <2>1. NameNow(s, b) = Append(s.name, l[Len(l)])
    BY <1>3, <1>7 DEF NameNow
  <2>2. \A g \in Range(l) : Append(s.name, g) \in TakenNames(s)
    BY <1>3, <1>7, TakenTriggers
  <2> QED
    BY <1>1, <1>5, <1>7, <2>1, <2>2
<1>8. CASE /\ ~ (b /\ s.kind \in {"Monitoring", "Reservation"} /\ Triggered(s))
           /\ ~ (b /\ s.kind = "SenlinPolicy")
  <2>1. NameNow(s, b) = s.name
    BY <1>1, <1>8 DEF NameNow
  <2> QED
    BY <1>1, <1>2, <2>1
<1> QED
  BY <1>6, <1>7, <1>8

\* The list before a policy scales.
LEMMA PlainHot ==
    ASSUME NEW t \in Topologies, Plain(t)
    PROVE  Hot = Identity(t) /\ Range(Hot) = DOMAIN t
<1>1. lists = <<Identity(t)>>
  BY DEF Plain
<1>2. Hot = Identity(t)
  BY <1>1 DEF Hot, Last
<1>3. DOMAIN Hot = DOMAIN t /\ \A i \in DOMAIN t : Hot[i] = i
  BY <1>2 DEF Identity
<1> QED
  BY <1>2, <1>3 DEF Range

\* Before a policy scales, the targets of a list of servers are those servers.
LEMMA PlainTargets ==
    ASSUME Regular, TypeOK, NEW t \in Topologies, Given(t, heap), Plain(t),
           NEW p \in DOMAIN t, Range(t[p].targets) \subseteq ServerNames(t)
    PROVE  \A i : Targeted(i, heap[p]) <=>
                i \in DOMAIN t /\ t[i].kind = "Server" /\ t[i].name \in Range(t[p].targets)
<1>1. heap[p].targets = t[p].targets /\ Range(Hot) = DOMAIN t
  BY GivenFacts, PlainHot
<1>2. \A i \in DOMAIN t : heap[i].name = NameNow(t[i], heap[i].handled)
                            /\ (t[i].kind \in Nodes => heap[i].name = t[i].name)
  BY GivenFacts
<1>3. ASSUME NEW i \in DOMAIN t, heap[i].name \in Range(t[p].targets)
      PROVE  t[i].kind = "Server" /\ t[i].name = heap[i].name
  <2>1. heap[i].handled => t[i].kind \notin Scalers
    BY DEF Plain
  <2>2. heap[i].handled \in BOOLEAN
    <3>1. heap[i] \in ResourceRecord
      BY ListsTyped, GivenFacts
    <3> QED
      BY <3>1 DEF ResourceRecord
  <2>3. NameNow(t[i], heap[i].handled) \in TakenNames(t[i])
    BY <2>1, <2>2, NameTaken DEF Scalers
  <2> QED
    BY <1>2, <1>3, <2>3, ServerFacts
<1>4. \A i \in DOMAIN t : t[i].kind = "Server" => heap[i].name = t[i].name
  BY <1>2 DEF Nodes
<1> QED
  BY <1>1, <1>3, <1>4 DEF Targeted

\* A placement before a policy scales.
LEMMA PlainPlacement ==
    ASSUME Regular, TypeOK, NEW t \in Topologies, Given(t, heap), Plain(t), HandlePlacement
    PROVE  Given(t, heap') /\ Plain(t)'
<1>1. Walked = Identity(t) /\ lists = <<Identity(t)>> /\ policyRes = {} /\ nested = <<>>
      /\ DOMAIN heap = DOMAIN t
      /\ \A i \in DOMAIN t :
            (heap[i].handled <=> i < pos) /\ (heap[i].handled => t[i].kind \notin Scalers)
  BY DEF Plain, Walked
<1>2. Walked[pos] = pos /\ pos \in DOMAIN t /\ Visited = heap[pos] /\ heap[pos].kind = "ServerGroup"
  BY <1>1, PlainWalk DEF HandlePlacement, AtKind, Visited
<1>3. t[pos].kind = "ServerGroup" /\ heap[pos].name = t[pos].name
  BY <1>2, GivenFacts, Zenon
<1>4. Range(t[pos].targets) \subseteq ServerNames(t)
  BY <1>2, <1>3 DEF Regular, ServersPlaced, Range
<1>5. \A i : Targeted(i, heap[pos]) <=>
                i \in DOMAIN t /\ t[i].kind = "Server" /\ pos \in Placements(t, i)
  BY <1>2, <1>3, <1>4, PlainTargets DEF Placements
<1>6. \A i \in DOMAIN t : pos \in Placements(t, i) => t[i].kind = "Server"
  <2> SUFFICES ASSUME NEW i \in DOMAIN t, pos \in Placements(t, i) PROVE t[i].kind = "Server"
    OBVIOUS
  <2>1. t[i].name \in ServerNames(t) /\ t[i].name \in TakenNames(t[i])
    BY <1>4, NamesFacts DEF Placements
  <2> QED
    BY <2>1, ServerFacts
<1>7. /\ heap' \in Seq(ResourceRecord) /\ Len(heap') = Len(heap)
      /\ \A i \in DOMAIN heap :
            LET r == IF i = pos THEN Handled(heap[i]) ELSE heap[i]
            IN  heap'[i] = IF Targeted(i, heap[pos]) THEN [r EXCEPT !.refs = @ \cup {t[pos].name}]
                                                     ELSE r
  BY <1>2, <1>3, PlacementResult
<1>8. \A i \in DOMAIN heap : heap[i] \in ResourceRecord
  BY ListsTyped
<1>9. ASSUME NEW i \in DOMAIN t
      PROVE  /\ SameFields(heap'[i], heap[i]) /\ heap'[i].name = heap[i].name
             /\ heap'[i].handled <=> (i = pos \/ heap[i].handled)
             /\ heap'[i].refs = IF pos \in Placements(t, i) THEN heap[i].refs \cup {t[pos].name}
                                                            ELSE heap[i].refs
  <2>1. PICK a, b : a = heap[i] /\ b = heap'[i]
    OBVIOUS
  <2>2. PICK r : r = IF i = pos THEN Handled(a) ELSE a
    OBVIOUS
  <2>3. a \in ResourceRecord
    BY <1>1, <1>8, <2>1
  <2>4. r \in ResourceRecord
    BY <2>2, <2>3, HandledTyped
  <2>5. /\ SameFields(r, a) /\ r.name = a.name /\ r.refs = a.refs
        /\ r.handled <=> (i = pos \/ a.handled)
    BY <2>2, <2>3 DEF Handled, SameFields, ResourceRecord
  <2>6. b = IF pos \in Placements(t, i) THEN [r EXCEPT !.refs = r.refs \cup {t[pos].name}] ELSE r
    BY <1>1, <1>5, <1>6, <1>7, <2>1, <2>2
  <2>7. PICK f : f = IF pos \in Placements(t, i) THEN r.refs \cup {t[pos].name} ELSE r.refs
    OBVIOUS
  <2>8. b = [r EXCEPT !.refs = f]
    <3>1. r = [r EXCEPT !.refs = r.refs]
      BY <2>4 DEF ResourceRecord
    <3> QED
      BY <2>6, <2>7, <3>1
  <2>9. SameFields(b, r) /\ b.name = r.name /\ b.handled = r.handled /\ b.refs = f
    BY <2>4, <2>8 DEF SameFields, ResourceRecord
  <2> QED
    BY <2>1, <2>5, <2>7, <2>9 DEF SameFields
<1>10. ASSUME NEW i \in DOMAIN t PROVE GivenOne(t, heap', i)
  <2>1. GivenOne(t, heap, i) /\ i \in DOMAIN heap'
    <3>1. DOMAIN heap' = DOMAIN heap
      BY <1>7, ListsTyped
    <3> QED
      BY <1>1, <3>1 DEF Given
  <2>2. SameFields(heap'[i], t[i])
    BY <1>9, <2>1 DEF GivenOne, SameFields
  <2>3. heap'[i].name = NameNow(t[i], heap'[i].handled)
    <3>1. CASE i = pos
      <4>1. NameNow(t[i], heap'[i].handled) = t[i].name /\ NameNow(t[i], heap[i].handled) = t[i].name
        BY <1>3, <3>1 DEF NameNow
      <4> QED
        BY <1>3, <1>9, <2>1, <3>1, <4>1 DEF GivenOne
    <3>2. CASE i # pos
      <4>1. heap'[i].handled <=> heap[i].handled
        BY <1>9, <3>2
      <4>2. NameNow(t[i], heap'[i].handled) = NameNow(t[i], heap[i].handled)
        BY <4>1, Zenon DEF NameNow
      <4> QED
        BY <1>9, <2>1, <4>1, <4>2 DEF GivenOne
    <3> QED
      BY <3>1, <3>2
  <2>4. ASSUME t[i].kind \in Nodes
        PROVE  /\ heap'[i].refs \subseteq t[i].refs \cup PlacementNames(t, i)
               /\ \A g \in Placements(t, i) : heap'[g].handled => t[g].name \in heap'[i].refs
    <3>1. /\ heap[i].refs \subseteq t[i].refs \cup PlacementNames(t, i)
          /\ \A g \in Placements(t, i) : heap[g].handled => t[g].name \in heap[i].refs
      BY <2>1, <2>4 DEF GivenOne
    <3>2. heap'[i].refs \subseteq t[i].refs \cup PlacementNames(t, i)
      BY <1>9, <3>1 DEF PlacementNames
    <3>3. \A g \in Placements(t, i) :
            g \in DOMAIN t /\ (heap'[g].handled <=> (g = pos \/ heap[g].handled))
      BY <1>9 DEF Placements
    <3> QED
      BY <1>9, <3>1, <3>2, <3>3
  <2>5. ASSUME t[i].kind \in Policies
        PROVE  heap'[i].refs = PolicyRefs(t[i], heap'[i].handled)
    <3>1. heap'[i].refs = heap[i].refs
      BY <1>6, <1>9, <2>5 DEF Policies
    <3>2. PolicyRefs(t[i], heap'[i].handled) = PolicyRefs(t[i], heap[i].handled)
      <4>1. CASE i = pos
        BY <1>3, <4>1 DEF PolicyRefs
      <4>2. CASE i # pos
        <5>1. heap'[i].handled <=> heap[i].handled
          BY <1>9, <4>2
        <5> QED
          BY <5>1, Zenon DEF PolicyRefs
      <4> QED
        BY <4>1, <4>2
    <3> QED
      BY <2>1, <2>5, <3>1, <3>2 DEF GivenOne
  <2> QED
    BY <2>1, <2>2, <2>3, <2>4, <2>5 DEF GivenOne
<1>11. pos' = pos + 1 /\ lists' = lists /\ policyRes' = policyRes /\ nested' = nested
  BY DEF HandlePlacement
<1>12. \A i \in DOMAIN t :
            (heap'[i].handled <=> i < pos') /\ (heap'[i].handled => t[i].kind \notin Scalers)
  <2> SUFFICES ASSUME NEW i \in DOMAIN t
               PROVE  (heap'[i].handled <=> i < pos') /\ (heap'[i].handled => t[i].kind \notin Scalers)
    OBVIOUS
  <2>1. i \in Nat /\ pos \in Nat
    BY <1>2, TopologyFacts
  <2>2. heap'[i].handled <=> (i = pos \/ i < pos)
    BY <1>1, <1>9, Zenon
  <2>3. i < pos + 1 <=> (i = pos \/ i < pos)
    BY <2>1
  <2>4. i = pos => t[i].kind \notin Scalers
    BY <1>3 DEF Scalers
  <2>5. i < pos => t[i].kind \notin Scalers
    BY <1>1, Zenon
  <2> QED
    BY <1>11, <2>2, <2>3, <2>4, <2>5, Zenon
<1>13. DOMAIN heap' = DOMAIN t
  BY <1>1, <1>7, ListsTyped
<1> QED
  BY <1>1, <1>10, <1>11, <1>12, <1>13 DEF Plain, Given

\* Behind a policy that scales there is neither a placement nor another.
LEMMA LateVisit ==
    ASSUME Regular, TypeOK, NEW t \in Topologies, NEW c \in DOMAIN t, Given(t, heap),
           Scaled(t, c) \/ Clustered(t, c), pos <= Len(Walked)
    PROVE  Visited.kind \notin Scalers \cup {"ServerGroup"}
<1> SUFFICES ASSUME Visited.kind \in Scalers \cup {"ServerGroup"} PROVE FALSE
  OBVIOUS
<1>1. PICK p : p = Walked[pos]
  OBVIOUS
<1>2. heap[p].kind \in Scalers \cup {"ServerGroup"} /\ p \in DOMAIN heap
  BY <1>1, ListsTyped DEF Visited
<1>3. t[c].kind \in Scalers /\ c \in Nat
  BY TopologyFacts DEF Scaled, Clustered, Scalers
<1>4. p \in DOMAIN t => p \in Nat /\ p <= c
  <2> SUFFICES ASSUME p \in DOMAIN t PROVE p \in Nat /\ p <= c
    OBVIOUS
  <2>1. t[p].kind \in Scalers \/ t[p].kind = "ServerGroup"
    BY <1>2, GivenFacts
  <2>2. p = c \/ p < c
    BY <1>3, <2>1, ScalerFacts
  <2> QED
    BY <1>3, <2>2, TopologyFacts
<1>5. CASE Scaled(t, c)
  <2>1. p = pos /\ pos \in DOMAIN t /\ c < pos
    BY <1>1, <1>5, PlainWalk DEF Scaled
  <2> QED
    BY <1>3, <1>4, <2>1
<1>6. CASE Clustered(t, c)
  <2>1. pos \in DOMAIN Walked
    BY ListsTyped DEF TypeOK
  <2>2. p > c
    BY <1>1, <1>6, <2>1 DEF Clustered, TypeOK
  <2>3. p \notin DOMAIN t
    BY <1>3, <1>4, <2>2
  <2>4. MadeByCluster(t, c, heap[p])
    BY <1>2, <1>6, <2>3 DEF Clustered
  <2> QED
    BY <1>2, <2>4 DEF MadeByCluster, ProfileOf, ClusterOf, TriggerOf, Scalers
<1> QED
  BY <1>5, <1>6
-----------------------------------------------------------------------------
(* The walk: scaling.                                                      *)

\* A list that repeats none, with one element or none.
LEMMA FewOnce ==
    ASSUME NEW R, NEW b \in Seq(R), OnceIn(b), NEW p
    PROVE  /\ ToSet(b) = {} => Len(b) = 0 /\ b = <<>>
           /\ ToSet(b) = {p} => Len(b) = 1 /\ b[1] = p
<1>1. PICK n \in Nat : n = Len(b)
  OBVIOUS
<1>2. DOMAIN b = 1..n /\ \A k \in 1..n : b[k] \in ToSet(b)
  BY <1>1 DEF ToSet
<1>3. \A i, j \in 1..n : b[i] = b[j] => i = j
  BY <1>2 DEF OnceIn
<1>4. ASSUME ToSet(b) = {} PROVE Len(b) = 0 /\ b = <<>>
  <2>1. n = 0
    <3>1. 1 \notin 1..n
      BY <1>2, <1>4
    <3> QED
      BY <3>1
  <2>2. Len(b) = 0
    BY <1>1, <2>1
  <2> QED
    BY <2>2, EmptySeq
<1>5. ASSUME ToSet(b) = {p} PROVE Len(b) = 1 /\ b[1] = p
  <2>1. \A k \in 1..n : b[k] = p
    BY <1>2, <1>5
  <2>2. n # 0
    BY <1>2, <1>5 DEF ToSet
  <2>3. 2 \notin 1..n
    BY <1>3, <2>1
  <2>4. n = 1
    BY <2>2, <2>3
  <2> QED
    BY <1>1, <2>1, <2>4
<1> QED
  BY <1>4, <1>5

\* What a scaling policy moves and what it leaves, before it adds anything.
LEMMA ScaledLists ==
    ASSUME Regular, TypeOK, NEW t \in Topologies, Given(t, heap), Plain(t),
           pos \in DOMAIN t, t[pos].kind = "ScalingPolicy"
    PROVE  /\ Range(Moved) = {i \in DOMAIN t : t[i].kind \in Movable}
           /\ Range(ScaledList) = Outside(t) \cup {Len(heap) + 1}
<1>1. PICK m \in Nat : m = Len(heap)
  BY ListsTyped
<1>2. PICK l, mv : l = Hot /\ mv = Moved
  OBVIOUS
<1>3. l \in Seq(1..m) /\ Range(l) = DOMAIN t
  BY <1>1, <1>2, ListsTyped, PlainHot
<1>4. \A i \in DOMAIN t : heap[i].kind = t[i].kind /\ t[i].kind \in Nodes \cup Policies
                            /\ (t[i].kind = "SenlinPolicy" => FALSE)
  <2>1. \A i \in DOMAIN t : t[i].kind = "SenlinPolicy" => i = pos
    BY ScalerFacts DEF Scalers
  <2> QED
    BY <2>1, GivenFacts, TopologyFacts
<1>5. \A i \in DOMAIN t : ~ StaysOut(i) <=> t[i].kind \in Movable
  BY <1>4 DEF StaysOut, Nodes, Policies, Movable
<1>6. \A i \in DOMAIN t : t[i].kind \notin Movable <=> i \in Outside(t)
  BY <1>4 DEF Outside, Nodes, Policies, Movable
<1> DEFINE M == {i \in DOMAIN t : t[i].kind \in Movable}
<1>7. mv \in Seq(1..m) /\ Range(mv) = M
  <2>1. PICK T : T = {i \in Range(Hot) : ~ StaysOut(i)}
    OBVIOUS
  <2>2. mv = Filter(l, T)
    BY <1>2, <2>1 DEF Moved
  <2>3. mv \in Seq(1..m) /\ ToSet(mv) = ToSet(l) \cap T
    BY <1>3, <2>2, FilterElements
  <2>4. T = M
    BY <1>2, <1>3, <1>5, <2>1
  <2> QED
    BY <1>3, <2>3, <2>4 DEF Range, ToSet
<1>8. \A i \in DOMAIN t : heap[i].name \in TakenNames(t[i])
  <2> SUFFICES ASSUME NEW i \in DOMAIN t PROVE heap[i].name \in TakenNames(t[i])
    OBVIOUS
  <2>1. heap[i].name = NameNow(t[i], heap[i].handled) /\ heap[i] \in ResourceRecord
    BY GivenFacts, ListsTyped
  <2>2. heap[i].handled \in BOOLEAN /\ (heap[i].handled => t[i].kind \notin Scalers)
    BY <2>1 DEF Plain, ResourceRecord
  <2> QED
    BY <2>1, <2>2, NameTaken DEF Scalers
<1>9. \A i, j \in DOMAIN t : heap[i].name = heap[j].name => i = j
  <2> SUFFICES ASSUME NEW i \in DOMAIN t, NEW j \in DOMAIN t, heap[i].name = heap[j].name
               PROVE  i = j
    OBVIOUS
  <2>1. heap[i].name \in TakenNames(t[i]) /\ heap[i].name \in TakenNames(t[j])
    BY <1>8
  <2> QED
    BY <2>1, NamesFacts, Zenon
<1>10. PICK S : S = {i \in Range(Hot) : heap[i].name \notin {heap[k].name : k \in Range(Moved)}}
  OBVIOUS
<1>11. S = Outside(t)
  <2>1. \A i \in DOMAIN t : heap[i].name \in {heap[k].name : k \in M} <=> i \in M
    BY <1>9
  <2>2. S = {i \in DOMAIN t : i \notin M}
    BY <1>2, <1>3, <1>7, <1>10, <2>1
  <2> QED
    BY <1>6, <2>2 DEF Outside
<1>12. PICK s : s = Filter(l, S)
  OBVIOUS
<1>13. s \in Seq(1..m) /\ ToSet(s) = ToSet(l) \cap S
  BY <1>3, <1>12, FilterElements
<1>14. ToSet(s) = Outside(t)
  <2>1. ToSet(l) = DOMAIN t
    BY <1>3 DEF Range, ToSet
  <2> QED
    BY <1>11, <1>13, <2>1 DEF Outside
<1>15. ScaledList = Append(s, m + 1)
  BY <1>1, <1>2, <1>10, <1>12 DEF ScaledList
<1>16. ToSet(Append(s, m + 1)) = ToSet(s) \cup {m + 1}
  <2>1. s \in Seq(Nat) /\ m + 1 \in Nat
    <3>1. \A a \in 1..Len(s) : s[a] \in Nat
      BY <1>13
    <3> QED
      BY <1>13, <3>1
  <2> QED
    BY <2>1, AppendElements
<1>17. Range(ScaledList) = Outside(t) \cup {m + 1}
  <2>1. PICK u : u = ScaledList
    OBVIOUS
  <2>2. ToSet(u) = Outside(t) \cup {m + 1}
    BY <1>14, <1>15, <1>16, <2>1
  <2> QED
    BY <2>1, <2>2 DEF Range, ToSet
<1> QED
  BY <1>1, <1>2, <1>7, <1>17
\* What scaling makes of a resource: with an increment and a group, with
\* another name, and with the opposite adjustment.
Adjusted(v, a, f) == [Handled(v) EXCEPT !.adjustment = a, !.refs = f]

Named(r, x) == [r EXCEPT !.name = x]

Turned(r, x, a) == [r EXCEPT !.name = x, !.adjustment = - a]

\* A handled resource r of the policy v.
FieldsAre(r, v, x, a, f) ==
    SameFields(r, v) /\ r.name = x /\ r.handled /\ r.adjustment = a /\ r.refs = f

\* The fields of a resource that scaling changes.
LEMMA FieldsChanged ==
    ASSUME NEW v \in ResourceRecord, NEW a \in Int, NEW f \in SUBSET Name, NEW x \in Name
    PROVE  /\ FieldsAre(Adjusted(v, a, f), v, v.name, a, f)
           /\ FieldsAre(Named(Adjusted(v, a, f), x), v, x, a, f)
           /\ FieldsAre(Turned(Adjusted(v, a, f), x, a), v, x, - a, f)
<1>0. PICK own, q, o : own = Adjusted(v, a, f) /\ q = Named(own, x) /\ o = Turned(own, x, a)
  OBVIOUS
<1>1. PICK u : u = Handled(v)
  OBVIOUS
<1>2. /\ u \in ResourceRecord /\ u.handled /\ u.name = v.name /\ SameFields(u, v)
  BY <1>1 DEF Handled, SameFields, ResourceRecord
<1>3. PICK w : w = [u EXCEPT !.adjustment = a]
  OBVIOUS
<1>4. w \in ResourceRecord /\ w.handled /\ w.name = u.name /\ w.adjustment = a /\ SameFields(w, u)
  BY <1>2, <1>3 DEF SameFields, ResourceRecord
<1>5. own = [w EXCEPT !.refs = f]
  BY <1>0, <1>1, <1>3 DEF Adjusted
<1>6. /\ own \in ResourceRecord /\ own.handled /\ own.name = w.name /\ own.adjustment = w.adjustment
      /\ SameFields(own, w) /\ own.refs = f
  BY <1>4, <1>5 DEF SameFields, ResourceRecord
<1>7. SameFields(own, v)
  BY <1>2, <1>4, <1>6 DEF SameFields
<1>8. /\ q \in ResourceRecord /\ q.handled /\ q.name = x /\ q.adjustment = own.adjustment
      /\ SameFields(q, own) /\ q.refs = own.refs
  BY <1>0, <1>6 DEF Named, SameFields, ResourceRecord
<1>9. - a \in Int
  OBVIOUS
<1>10. o = [q EXCEPT !.adjustment = - a]
  BY <1>0 DEF Named, Turned
<1>11. /\ o \in ResourceRecord /\ o.handled /\ o.name = q.name /\ o.adjustment = - a
       /\ SameFields(o, q) /\ o.refs = q.refs
  BY <1>8, <1>9, <1>10 DEF SameFields, ResourceRecord
<1>12. SameFields(q, v) /\ SameFields(o, v)
  BY <1>7, <1>8, <1>11 DEF SameFields
<1>13. /\ FieldsAre(own, v, v.name, a, f) /\ FieldsAre(q, v, x, a, f)
       /\ FieldsAre(o, v, x, - a, f)
  BY <1>2, <1>4, <1>6, <1>7, <1>8, <1>11, <1>12 DEF FieldsAre
<1> QED
  BY <1>0, <1>13

\* The heap and the list after HandleScaling, for a scaling policy s of n
\* resources; m are the ones that are added.
ScalingOf(t, n, s, m) ==
    /\ DOMAIN heap' = 1..(n + m) /\ m = (IF s.increment = 0 THEN 1 ELSE 2)
    /\ \A i \in 1..n : i # pos => heap'[i] = heap[i]
    /\ SameFields(heap'[pos], s) /\ heap'[pos].handled /\ heap'[pos].adjustment = s.increment
    /\ heap'[pos].name = NameNow(s, TRUE) /\ heap'[pos].refs = {Append(s.name, "group")}
    /\ GroupOf(s, heap'[n + 1])
    /\ s.increment # 0 => OppositeOf(s, heap'[n + 2])
    /\ Walked' = Walked /\ Range(Hot') = Outside(t) \cup (n + 1 .. n + m)

\* What HandleScaling does before another policy scaled.
LEMMA ScalingHeap ==
    ASSUME Regular, TypeOK, HotOnce, NEW t \in Topologies, Given(t, heap), Plain(t), HandleScaling,
           NEW n \in Nat, n = Len(t)
    PROVE  /\ pos \in DOMAIN t /\ t[pos].kind = "ScalingPolicy"
           /\ ScalingOf(t, n, t[pos], IF t[pos].increment = 0 THEN 1 ELSE 2)
<1>1. /\ pos <= Len(Walked) /\ Visited.kind = "ScalingPolicy"
      /\ Split(ScaledHeap, <<Walked, ScaledList>>)
  BY DEF HandleScaling, AtKind
<1>2. Walked = Identity(t) /\ DOMAIN heap = DOMAIN t
      /\ \A i \in DOMAIN t : heap[i].handled <=> i < pos
  BY DEF Plain, Walked
<1>3. Walked[pos] = pos /\ pos \in DOMAIN t /\ pos \in 1..n
  BY <1>1, <1>2, PlainWalk
<1>4. Len(heap) = n /\ DOMAIN t = 1..n
  <2>1. DOMAIN heap = 1..Len(heap) /\ DOMAIN t = 1..n
    BY ListsTyped, TopologyFacts
  <2>2. PICK k \in Nat : k = Len(heap)
    BY ListsTyped
  <2>3. 1..k = 1..n
    BY <1>2, <2>1, <2>2
  <2>4. k = n
    BY <2>3
  <2> QED
    BY <2>1, <2>2, <2>4
<1>5. PICK s, v : s = t[pos] /\ v = heap[pos]
  OBVIOUS
<1>6. v = Visited /\ v \in ResourceRecord /\ s.kind = "ScalingPolicy" /\ SameFields(v, s)
  BY <1>1, <1>3, <1>5, ListsTyped, GivenFacts DEF Visited
<1>7. v.name = s.name
  <2>1. ~ heap[pos].handled
    <3>1. pos \in Nat
      BY <1>3
    <3>2. ~ (pos < pos)
      BY <3>1
    <3> QED
      BY <1>2, <1>3, <3>2
  <2>2. v.name = NameNow(s, v.handled)
    BY <1>3, <1>5, GivenFacts
  <2> QED
    BY <1>5, <2>1, <2>2 DEF NameNow
<1>8. PICK a : a = s.increment
  OBVIOUS
<1>9. a \in Int /\ v.increment = a /\ s.policy = v.policy /\ s \in ResourceRecord
  <2>1. s \in ResourceRecord
    BY <1>3, <1>5, TopologyFacts
  <2> QED
    BY <1>6, <1>8, <2>1 DEF SameFields, ResourceRecord
<1>10. PICK gn : gn = Append(s.name, "group")
  OBVIOUS
<1>11. GroupName(v) = gn /\ gn \in Name
  <2>1. s.name \in Name
    BY <1>9 DEF ResourceRecord
  <2> QED
    BY <1>7, <1>10, <2>1, AppendName, MadeWords DEF GroupName
<1>12. PICK h, L : h = ScaledHeap /\ L = ScaledList
  OBVIOUS
<1>13. PICK own, gr : /\ own = Adjusted(v, a, {gn})
                      /\ gr = [Resource(gn, "Group") EXCEPT !.policy = s.policy]
  OBVIOUS
<1>14. /\ h \in Seq(ResourceRecord) /\ Len(h) = n + 1
       /\ \A i \in 1..n : h[i] = IF i = pos THEN own ELSE heap[i]
       /\ h[n + 1] = gr
  <2>1. /\ h \in Seq(ResourceRecord) /\ Len(h) = Len(heap) + 1
        /\ \A i \in 1..Len(heap) :
                h[i] = IF i = Walked[pos]
                    THEN [Handled(v) EXCEPT !.adjustment = v.increment, !.refs = {GroupName(v)}]
                    ELSE heap[i]
        /\ h[Len(heap) + 1] = [Resource(GroupName(v), "Group") EXCEPT !.policy = v.policy]
    BY <1>1, <1>6, <1>12, ScaledTyped
  <2> QED
    BY <1>3, <1>4, <1>9, <1>11, <1>13, <2>1 DEF Adjusted
<1>15. PICK ls : ls = <<Walked, L>>
  OBVIOUS
<1>16. ls \in Seq(Seq(1..Len(h))) /\ ls # <<>> /\ Last(ls) = L /\ ls[1] = Walked /\ Len(ls) = 2
  <2>1. ls \in Seq(Seq(1..Len(h)))
    BY <1>1, <1>12, <1>15, ScaledTyped
  <2> QED
    BY <1>15, <2>1 DEF Last
<1>17. PICK both \in Seq(1..Len(h)) : SplitOf(h, ls, both)
  BY <1>1, <1>12, <1>14, <1>15, <1>16, SplitResult
<1>18. OnceIn(L) /\ Range(L) = Outside(t) \cup {n + 1}
  BY <1>3, <1>4, <1>5, <1>6, <1>12, ScaledOnceIn, ScaledLists
<1>19. PICK x : x = Append(s.name, Suffix(a))
  OBVIOUS
<1>20. PICK y : y = Append(s.name, Suffix(- a))
  OBVIOUS
<1>21. x \in Name /\ y \in Name
  <2>1. s.name \in Name
    BY <1>9 DEF ResourceRecord
  <2> QED
    BY <1>19, <1>20, <2>1, AppendName, MadeWords
<1>22. PICK q : q = Named(own, x)
  OBVIOUS
<1>23. PICK o : o = Turned(own, y, a)
  OBVIOUS
<1>24. /\ SameFields(own, v) /\ own.name = v.name /\ own.handled /\ own.adjustment = a
       /\ own.refs = {gn}
       /\ SameFields(q, v) /\ q.name = x /\ q.handled /\ q.adjustment = a /\ q.refs = {gn}
       /\ SameFields(o, v) /\ o.name = y /\ o.adjustment = - a /\ o.refs = {gn}
  <2>1. PICK f : f = {gn}
    OBVIOUS
  <2>2. f \in SUBSET Name
    BY <1>11, <2>1
  <2>3. /\ FieldsAre(Adjusted(v, a, f), v, v.name, a, f)
        /\ FieldsAre(Named(Adjusted(v, a, f), x), v, x, a, f)
        /\ FieldsAre(Turned(Adjusted(v, a, f), y, a), v, y, - a, f)
    BY <1>6, <1>9, <1>21, <2>2, FieldsChanged
  <2>4. own = Adjusted(v, a, f)
    BY <1>13, <2>1
  <2>5. FieldsAre(own, v, v.name, a, f) /\ FieldsAre(q, v, x, a, f) /\ FieldsAre(o, v, y, - a, f)
    BY <1>22, <1>23, <2>3, <2>4
  <2> QED
    BY <2>1, <2>5, Zenon DEF FieldsAre
<1>26. GroupOf(s, gr) /\ gr.kind = "Group"
  BY <1>10, <1>13 DEF GroupOf, Resource
<1>27. ToSet(both) = IF a = 0 THEN {} ELSE {pos}
  <2>1. ToSet(both) = {i \in Range(L) : h[i].kind = "ScalingPolicy" /\ h[i].adjustment # 0}
    BY <1>16, <1>17 DEF SplitOf
  <2>2. pos \in Outside(t) /\ h[pos].kind = "ScalingPolicy" /\ h[pos].adjustment = a
    BY <1>3, <1>5, <1>6, <1>14, <1>24 DEF Outside, SameFields
  <2>3. h[n + 1].kind # "ScalingPolicy"
    BY <1>14, <1>26
  <2>4. \A i \in Outside(t) : i # pos => h[i].kind # "ScalingPolicy"
    <3> SUFFICES ASSUME NEW i \in Outside(t), i # pos PROVE h[i].kind # "ScalingPolicy"
      OBVIOUS
    <3>1. i \in DOMAIN t /\ i \in 1..n
      BY <1>4 DEF Outside
    <3>2. t[i].kind \notin Scalers
      BY <1>3, <1>5, <1>6, <3>1, ScalerFacts DEF Scalers
    <3>3. h[i] = heap[i] /\ heap[i].kind = t[i].kind
      BY <1>14, <3>1, GivenFacts
    <3> QED
      BY <3>2, <3>3 DEF Scalers
  <2> QED
    BY <1>18, <2>1, <2>2, <2>3, <2>4
<1>28. a = 0 => Len(both) = 0
  BY <1>16, <1>17, <1>18, <1>27, FewOnce DEF SplitOf
<1>29. a # 0 => Len(both) = 1 /\ both[1] = pos
  BY <1>16, <1>17, <1>18, <1>27, FewOnce DEF SplitOf
<1>30. PICK m : m = IF a = 0 THEN 1 ELSE 2
  OBVIOUS
<1>31. m \in Nat /\ n + 1 + Len(both) = n + m
  <2>1. CASE a = 0
    BY <1>28, <1>30, <2>1
  <2>2. CASE a # 0
    <3>1. m = 2 /\ Len(both) = 1
      BY <1>29, <1>30, <2>2
    <3>2. n + 1 + 1 = n + 2
      OBVIOUS
    <3> QED
      BY <3>1, <3>2
  <2> QED
    BY <2>1, <2>2
<1>32. /\ heap' \in Seq(ResourceRecord) /\ Len(heap') = n + 1 + Len(both)
       /\ \A i \in 1..(n + 1) :
            heap'[i] = IF i \in ToSet(both)
                       THEN [h[i] EXCEPT !.name = Append(h[i].name, Suffix(h[i].adjustment))]
                       ELSE h[i]
       /\ \A k \in 1..Len(both) : heap'[n + 1 + k] = Opposite(h[both[k]])
       /\ lists' = [ls EXCEPT ![Len(ls)] = Last(ls) \o [k \in DOMAIN both |-> n + 1 + k]]
  BY <1>14, <1>17, Zenon DEF SplitOf
<1>33. DOMAIN heap' = 1..(n + m)
  BY <1>31, <1>32
<1>34. \A i \in 1..n : i # pos => heap'[i] = heap[i]
  <2> SUFFICES ASSUME NEW i \in 1..n, i # pos PROVE heap'[i] = heap[i]
    OBVIOUS
  <2>1. i \in 1..(n + 1) /\ i \notin ToSet(both)
    BY <1>27
  <2>2. heap'[i] = h[i]
    BY <1>32, <2>1, Zenon
  <2> QED
    BY <1>14, <2>2
<1>35. heap'[n + 1] = gr
  <2>1. n + 1 \notin ToSet(both) /\ n + 1 \in 1..(n + 1)
    BY <1>3, <1>27
  <2> QED
    BY <1>14, <1>32, <2>1
<1>36. heap'[pos] = IF a = 0 THEN own ELSE q
  <2>1. pos \in 1..(n + 1) /\ h[pos] = own
    BY <1>3, <1>14
  <2>2. CASE a = 0
    BY <1>27, <1>32, <2>1, <2>2
  <2>3. CASE a # 0
    <3>1. heap'[pos] = [own EXCEPT !.name = Append(own.name, Suffix(own.adjustment))]
      BY <1>27, <1>32, <2>1, <2>3
    <3>2. Append(own.name, Suffix(own.adjustment)) = x
      BY <1>7, <1>19, <1>24
    <3> QED
      BY <1>22, <2>3, <3>1, <3>2 DEF Named
  <2> QED
    BY <2>2, <2>3
<1>37. a # 0 => heap'[n + 2] = o
  <2> SUFFICES ASSUME a # 0 PROVE heap'[n + 2] = o
    OBVIOUS
  <2>1. heap'[n + 1 + 1] = Opposite(h[pos]) /\ h[pos] = own
    <3>1. 1 \in 1..Len(both) /\ both[1] = pos
      BY <1>29
    <3>2. heap'[n + 1 + 1] = Opposite(h[both[1]])
      BY <1>32, <3>1, Zenon
    <3> QED
      BY <1>3, <1>14, <3>1, <3>2
  <2>2. n + 1 + 1 = n + 2
    OBVIOUS
  <2>3. Opposite(own) = [own EXCEPT !.name = Append(own.name, Suffix(- own.adjustment)),
                                    !.adjustment = - own.adjustment]
    BY DEF Opposite
  <2>4. Append(own.name, Suffix(- own.adjustment)) = y /\ - own.adjustment = - a
    BY <1>7, <1>20, <1>24
  <2> QED
    BY <1>23, <2>1, <2>2, <2>3, <2>4 DEF Turned
<1>38. SameFields(heap'[pos], s) /\ heap'[pos].handled /\ heap'[pos].adjustment = a
       /\ heap'[pos].refs = {gn}
  BY <1>6, <1>24, <1>36 DEF SameFields
<1>39. heap'[pos].name = NameNow(s, TRUE)
  BY <1>6, <1>7, <1>8, <1>19, <1>24, <1>36 DEF NameNow
<1>40. a # 0 => OppositeOf(s, heap'[n + 2])
  BY <1>6, <1>8, <1>10, <1>20, <1>24, <1>37 DEF OppositeOf, SameFields
<1>41. Walked' = Walked /\ Range(Hot') = Outside(t) \cup (n + 1 .. n + m)
  <2>1. Walked' = Walked
    <3>1. PICK l : l = Last(ls) \o [k \in DOMAIN both |-> n + 1 + k]
      OBVIOUS
    <3>2. lists' = [ls EXCEPT ![2] = l]
      BY <1>16, <1>32, <3>1
    <3>3. lists'[1] = ls[1]
      BY <1>16, <3>2
    <3> QED
      BY <1>16, <3>3 DEF Walked
  <2>2. Range(Hot') = Range(Last(ls)) \cup (Len(h) + 1 .. Len(h) + Len(both))
    BY <1>14, <1>16, <1>17, <1>32, SplitHot
  <2>3. Range(Hot') = Outside(t) \cup {n + 1} \cup (n + 2 .. n + m)
    <3>1. Len(h) + 1 = n + 2 /\ Len(h) + Len(both) = n + m
      BY <1>14, <1>31
    <3> QED
      BY <1>16, <1>18, <2>2, <3>1
  <2>4. {n + 1} \cup (n + 2 .. n + m) = n + 1 .. n + m
    BY <1>30
  <2> QED
    BY <2>1, <2>3, <2>4
<1> QED
  <2>1. ScalingOf(t, n, s, m)
    BY <1>8, <1>10, <1>26, <1>30, <1>33, <1>34, <1>35, <1>38, <1>39, <1>40, <1>41, Zenon DEF ScalingOf
  <2> QED
    BY <1>3, <1>5, <1>6, <1>8, <1>30, <2>1
\* The resources of the nested template.
LEMMA ScalingNested ==
    ASSUME Regular, TypeOK, NEW t \in Topologies, Given(t, heap), Plain(t), HandleScaling,
           pos \in DOMAIN t, t[pos].kind = "ScalingPolicy"
    PROVE  /\ \A i \in DOMAIN t : t[i].kind \in Movable =>
                \E r \in Range(nested') : NestedOf(t, i, r)
           /\ \A r \in Range(nested') :
                \E i \in DOMAIN t : t[i].kind \in Movable /\ NestedOf(t, i, r)
<1>1. PICK mv : mv = Moved
  OBVIOUS
<1>2. Range(mv) = {i \in DOMAIN t : t[i].kind \in Movable}
  BY <1>1, ScaledLists
<1>3. nested' = [k \in DOMAIN mv |-> heap[mv[k]]]
  BY <1>1 DEF HandleScaling
<1>4. \A i \in Range(mv) : heap[i] \in Range(nested')
  <2> SUFFICES ASSUME NEW i \in Range(mv) PROVE heap[i] \in Range(nested')
    OBVIOUS
  <2>1. PICK k \in DOMAIN mv : mv[k] = i
    BY DEF Range
  <2>2. k \in DOMAIN nested' /\ nested'[k] = heap[i]
    BY <1>3, <2>1
  <2> QED
    BY <2>2 DEF Range
<1>5. \A r \in Range(nested') : \E i \in Range(mv) : r = heap[i]
  <2> SUFFICES ASSUME NEW r \in Range(nested') PROVE \E i \in Range(mv) : r = heap[i]
    OBVIOUS
  <2>1. PICK k \in DOMAIN nested' : nested'[k] = r
    BY DEF Range
  <2>2. k \in DOMAIN mv /\ r = heap[mv[k]]
    BY <1>3, <2>1
  <2> QED
    BY <2>2 DEF Range
<1>6. ASSUME NEW i \in DOMAIN t, t[i].kind \in Movable PROVE NestedOf(t, i, heap[i])
  <2>1. GivenOne(t, heap, i) /\ heap[i].name = t[i].name
    BY <1>6, GivenFacts DEF Movable
  <2>2. CASE t[i].kind \in Nodes
    <3>1. \A g \in Placements(t, i) : heap[g].handled
      <4> SUFFICES ASSUME NEW g \in Placements(t, i) PROVE heap[g].handled
        OBVIOUS
      <4>1. g \in DOMAIN t /\ t[g].kind = "ServerGroup"
        BY DEF Placements
      <4>2. g < pos
        BY <4>1, ScalerFacts DEF Scalers
      <4> QED
        BY <4>1, <4>2 DEF Plain
    <3> QED
      BY <2>1, <2>2, <3>1 DEF GivenOne, NestedOf, PlacementNames
  <2>3. CASE t[i].kind = "ServerGroup"
    <3>1. Placements(t, i) = {}
      <4> SUFFICES ASSUME NEW g \in Placements(t, i) PROVE FALSE
        OBVIOUS
      <4>1. g \in DOMAIN t /\ t[g].kind = "ServerGroup" /\ t[i].name \in Range(t[g].targets)
        BY DEF Placements
      <4>2. t[i].name \in ServerNames(t)
        BY <4>1 DEF Regular, ServersPlaced, Range
      <4>3. t[i].name \in TakenNames(t[i])
        BY NamesFacts
      <4> QED
        BY <2>3, <4>2, <4>3, ServerFacts
    <3>2. heap[i].refs = {}
      BY <2>1, <2>3 DEF GivenOne, PolicyRefs, Policies
    <3> QED
      BY <2>1, <3>1, <3>2 DEF NestedOf, PlacementNames
  <2> QED
    BY <1>6, <2>2, <2>3 DEF Movable
<1> QED
  BY <1>2, <1>4, <1>5, <1>6

\* HandleScaling makes the list of the policy and what it scales.
LEMMA ScalingStep ==
    ASSUME Regular, TypeOK, HotOnce, NEW t \in Topologies, Given(t, heap), Plain(t), HandleScaling
    PROVE  Given(t, heap') /\ \E c \in DOMAIN t : Scaled(t, c)'
<1>1. PICK n \in Nat : n = Len(t) /\ DOMAIN t = 1..n
  BY TopologyFacts
<1>2. PICK s, m : s = t[pos] /\ m = IF s.increment = 0 THEN 1 ELSE 2
  OBVIOUS
<1>3. pos \in DOMAIN t /\ s.kind = "ScalingPolicy" /\ ScalingOf(t, n, s, m)
  BY <1>1, <1>2, ScalingHeap
<1>4. /\ DOMAIN heap' = 1..(n + m) /\ m = (IF s.increment = 0 THEN 1 ELSE 2)
      /\ \A i \in 1..n : i # pos => heap'[i] = heap[i]
      /\ SameFields(heap'[pos], s) /\ heap'[pos].handled /\ heap'[pos].adjustment = s.increment
      /\ heap'[pos].name = NameNow(s, TRUE) /\ heap'[pos].refs = {Append(s.name, "group")}
      /\ GroupOf(s, heap'[n + 1])
      /\ s.increment # 0 => OppositeOf(s, heap'[n + 2])
      /\ Walked' = Walked /\ Range(Hot') = Outside(t) \cup (n + 1 .. n + m)
  BY <1>3, Zenon DEF ScalingOf
<1>5. m \in Nat /\ DOMAIN t \subseteq DOMAIN heap'
  BY <1>1, <1>4
<1>6. Given(t, heap')
  <2>1. PICK h2 : h2 = heap'
    OBVIOUS
  <2>2. SameFields(h2[pos], t[pos]) /\ h2[pos].name = NameNow(t[pos], h2[pos].handled)
    <3>1. NameNow(s, h2[pos].handled) = NameNow(s, TRUE)
      BY <1>4, <2>1, Zenon DEF NameNow
    <3> QED
      BY <1>2, <1>4, <2>1, <3>1
  <2>3. t[pos].kind # "ServerGroup" /\ t[pos].kind \notin Nodes
    BY <1>2, <1>3 DEF Nodes
  <2>4. h2[pos].refs = PolicyRefs(t[pos], h2[pos].handled)
    BY <1>2, <1>3, <1>4, <2>1 DEF PolicyRefs
  <2>5. \A i \in DOMAIN t \ {pos} : h2[i] = heap[i]
    BY <1>1, <1>4, <2>1
  <2>6. Given(t, h2)
    BY <1>5, <2>1, <2>2, <2>3, <2>4, <2>5, GivenKept
  <2> QED
    BY <2>1, <2>6
<1>7. pos' = pos + 1
  BY DEF HandleScaling
<1>8. /\ Walked = Identity(t)
      /\ \A i \in DOMAIN t : heap[i].handled <=> i < pos
  BY DEF Plain, Walked
<1>9. \A i \in DOMAIN t : heap'[i].handled <=> i < pos'
  <2> SUFFICES ASSUME NEW i \in DOMAIN t PROVE heap'[i].handled <=> i < pos'
    OBVIOUS
  <2>1. i \in Nat /\ pos \in Nat /\ i \in 1..n
    BY <1>1, <1>3
  <2>2. CASE i = pos
    BY <1>4, <1>7, <2>1, <2>2
  <2>3. CASE i # pos
    BY <1>4, <1>7, <1>8, <2>1, <2>3
  <2> QED
    BY <2>2, <2>3
<1>10. DOMAIN heap' \ DOMAIN t = n + 1 .. n + m
  BY <1>1, <1>4, <1>5
<1>11. /\ \A i \in DOMAIN t : t[i].kind \in Movable => \E r \in Range(nested') : NestedOf(t, i, r)
       /\ \A r \in Range(nested') : \E i \in DOMAIN t : t[i].kind \in Movable /\ NestedOf(t, i, r)
  BY <1>2, <1>3, ScalingNested
<1>12. pos < pos' /\ DOMAIN heap' = 1 .. Len(t) + IF t[pos].increment = 0 THEN 1 ELSE 2
  BY <1>1, <1>2, <1>3, <1>4, <1>7
<1>13. GroupOf(t[pos], heap'[Len(t) + 1])
       /\ (t[pos].increment # 0 => OppositeOf(t[pos], heap'[Len(t) + 2]))
  BY <1>1, <1>2, <1>4
<1>14. PICK c : c = pos
  OBVIOUS
<1>15. Scaled(t, c)'
  <2>1. /\ t[c].kind = "ScalingPolicy" /\ heap'[c].adjustment = t[c].increment
        /\ c < pos' /\ Walked' = Identity(t)
        /\ DOMAIN heap' = 1 .. Len(t) + IF t[c].increment = 0 THEN 1 ELSE 2
        /\ Range(Hot') = Outside(t) \cup (DOMAIN heap' \ DOMAIN t)
        /\ GroupOf(t[c], heap'[Len(t) + 1])
        /\ t[c].increment # 0 => OppositeOf(t[c], heap'[Len(t) + 2])
    BY <1>2, <1>3, <1>4, <1>8, <1>10, <1>12, <1>13, <1>14
  <2> QED
    BY <1>9, <1>11, <2>1 DEF Scaled
<1> QED
  BY <1>3, <1>6, <1>14, <1>15
-----------------------------------------------------------------------------
(* The walk: clusters.                                                     *)

\* The walk is at the cluster policy s of n resources.
AtCluster(t, n, s) ==
    /\ pos \in 1..n /\ DOMAIN t = 1..n /\ n = Len(heap) /\ Walked[pos] = pos
    /\ s = t[pos] /\ s.kind = "SenlinPolicy" /\ SameFields(heap[pos], s)
    /\ heap[pos].name = s.name /\ Range(s.targets) \subseteq ServerNames(t)

\* HandleCluster is at a cluster policy that has triggers.
LEMMA ClusterVisit ==
    ASSUME Regular, TypeOK, NEW t \in Topologies, Given(t, heap), Plain(t), HandleCluster,
           NEW n \in Nat, n = Len(t)
    PROVE  AtCluster(t, n, t[pos]) /\ pos <= Len(Walked) /\ Triggered(t[pos])
<1>1. pos <= Len(Walked) /\ Visited.kind = "SenlinPolicy" /\ Visited.triggers # <<>>
  BY DEF HandleCluster, AtKind, ClusterSucceeds
<1>2. Walked = Identity(t) /\ DOMAIN heap = DOMAIN t
      /\ \A i \in DOMAIN t : heap[i].handled <=> i < pos
  BY DEF Plain, Walked
<1>3. Walked[pos] = pos /\ pos \in DOMAIN t /\ pos \in 1..n
  BY <1>1, <1>2, PlainWalk
<1>4. Len(heap) = n /\ DOMAIN t = 1..n
  <2>1. DOMAIN heap = 1..Len(heap) /\ DOMAIN t = 1..n
    BY ListsTyped, TopologyFacts
  <2>2. PICK k \in Nat : k = Len(heap)
    BY ListsTyped
  <2>3. 1..k = 1..n
    BY <1>2, <2>1, <2>2
  <2>4. k = n
    BY <2>3
  <2> QED
    BY <2>1, <2>2, <2>4
<1>5. PICK s, v : s = t[pos] /\ v = heap[pos]
  OBVIOUS
<1>6. v = Visited /\ v \in ResourceRecord /\ s.kind = "SenlinPolicy" /\ SameFields(v, s)
  BY <1>1, <1>3, <1>5, ListsTyped, GivenFacts DEF Visited
<1>7. v.name = s.name
  <2>1. ~ heap[pos].handled
    <3>1. pos \in Nat
      BY <1>3
    <3>2. ~ (pos < pos)
      BY <3>1
    <3> QED
      BY <1>2, <1>3, <3>2
  <2>2. v.name = NameNow(s, v.handled)
    BY <1>3, <1>5, GivenFacts
  <2> QED
    BY <1>5, <2>1, <2>2 DEF NameNow
<1>8. Range(s.targets) \subseteq ServerNames(t)
  BY <1>3, <1>5, <1>6 DEF Regular, ClusterFits
<1>9. Triggered(s)
  <2>1. PICK l : l = v.triggers
    OBVIOUS
  <2>2. l \in Seq(Word) /\ l # <<>> /\ l = s.triggers
    BY <1>1, <1>6, <2>1, PartsTyped DEF SameFields
  <2>3. Len(l) # 0
    BY <2>2, EmptySeq
  <2> QED
    BY <2>2, <2>3 DEF Triggered
<1> QED
  BY <1>1, <1>3, <1>4, <1>5, <1>6, <1>7, <1>8, <1>9 DEF AtCluster

\* The servers that a cluster replaces.
LEMMA ClusterTaken ==
    ASSUME Regular, TypeOK, HotOnce, NEW t \in Topologies, Given(t, heap), Plain(t), NEW n \in Nat,
           pos <= Len(Walked), AtCluster(t, n, t[pos])
    PROVE  /\ Replaced \in Seq(1..n) /\ Range(Replaced) = Taken(t, pos) /\ OnceIn(Replaced)
           /\ Staying = {i \in DOMAIN t : t[i].kind \notin {"Port", "Net"}}
           /\ Taken(t, pos) \subseteq Staying
           /\ \A i \in DOMAIN t : i # pos => t[i].kind \notin Scalers
<1>1. /\ pos \in DOMAIN t /\ n = Len(heap) /\ Visited = heap[pos]
      /\ t[pos].kind = "SenlinPolicy" /\ Range(t[pos].targets) \subseteq ServerNames(t)
  BY DEF AtCluster, Visited
<1>2. Range(Hot) = DOMAIN t /\ \A i \in DOMAIN t : heap[i].kind = t[i].kind
  BY PlainHot, GivenFacts
<1>3. \A i : Targeted(i, heap[pos]) <=>
                i \in DOMAIN t /\ t[i].kind = "Server" /\ t[i].name \in Range(t[pos].targets)
  BY <1>1, PlainTargets
<1>4. PICK rs, T : rs = Replaced
                   /\ T = {i \in Range(Hot) : Targeted(i, Visited) /\ heap[i].kind # "SenlinPolicy"}
  OBVIOUS
<1>5. rs \in Seq(1..n) /\ Range(rs) = T
  BY <1>1, <1>4, ClusterParts
<1>6. T = Taken(t, pos)
  BY <1>1, <1>2, <1>3, <1>4 DEF Taken
<1>7. OnceIn(rs)
  <2>1. PICK l : l = Hot
    OBVIOUS
  <2>2. l \in Seq(1..n) /\ OnceIn(l)
    BY <1>1, <2>1, ListsTyped DEF HotOnce
  <2>3. OnceIn(Filter(l, T))
    BY <2>2, FilterOnceIn
  <2> QED
    BY <1>4, <2>1, <2>3 DEF Replaced
<1>8. Staying = {i \in DOMAIN t : t[i].kind \notin {"Port", "Net"}}
  BY <1>2 DEF Staying
<1>9. Taken(t, pos) \subseteq Staying
  BY <1>8 DEF Taken
<1>10. \A i \in DOMAIN t : i # pos => t[i].kind \notin Scalers
  BY <1>1, ScalerFacts DEF Scalers
<1> QED
  BY <1>4, <1>5, <1>6, <1>7, <1>8, <1>9, <1>10

\* The profile of a server keeps its placements and refers to what is left.
LEMMA ProfileMade ==
    ASSUME Regular, TypeOK, NEW t \in Topologies, Given(t, heap), Plain(t), NEW n \in Nat,
           AtCluster(t, n, t[pos]), NEW j \in Taken(t, pos)
    PROVE  ProfileOf(t, j, Profile(j))
<1>1. /\ pos \in DOMAIN t /\ t[pos].kind = "SenlinPolicy"
      /\ Range(t[pos].targets) \subseteq ServerNames(t)
  BY DEF AtCluster
<1>2. j \in DOMAIN t /\ t[j].kind = "Server" /\ heap[j].name = t[j].name
  BY GivenFacts DEF Taken, Nodes
<1> DEFINE ports == {heap[k].name : k \in PortsOf(j)}
           given == UNION {heap[k].refs : k \in PortsOf(j)}
<1>3. PICK r, f : r = Profile(j) /\ f = (heap[j].refs \ ports) \cup given
  OBVIOUS
<1>4. r.kind = "Profile" /\ r.policy = NoPolicy /\ ~ r.hidden /\ r.name = t[j].name /\ r.refs = f
  BY <1>2, <1>3 DEF Profile, Resource
<1>5. Range(Hot) = DOMAIN t
  BY PlainHot
<1>6. \A k : k \in PortsOf(j) <=> k \in DOMAIN t /\ t[k].kind = "Port" /\ t[k].server = t[j].name
  <2>1. \A k \in DOMAIN t : heap[k].kind = t[k].kind /\ heap[k].server = t[k].server
    BY GivenFacts DEF SameFields
  <2> QED
    BY <1>2, <1>5, <2>1 DEF PortsOf
<1>7. \A k \in PortsOf(j) : heap[k].name = t[k].name
  BY <1>6, GivenFacts DEF Nodes
<1>8. /\ heap[j].refs \subseteq t[j].refs \cup PlacementNames(t, j)
      /\ \A g \in Placements(t, j) : heap[g].handled => t[g].name \in heap[j].refs
  BY <1>2, GivenFacts DEF GivenOne, Nodes
<1>9. \A i \in DOMAIN t : t[i].refs \subseteq NodeNames(t)
  BY DEF Regular, RefsGiven, Range
<1>10. \A i, k \in DOMAIN t :
        t[i].kind # "Net" /\ t[k].kind \in {"Port", "Net"} /\ t[k].name \in t[i].refs =>
            /\ t[k].kind = "Port" /\ t[k].server = t[i].name
            /\ t[i].name \in Range(t[pos].targets)
  <2>1. \A a, b \in Range(t) :
            a.kind # "Net" /\ b.kind \in {"Port", "Net"} /\ b.name \in a.refs =>
                /\ b.kind = "Port" /\ b.server = a.name /\ a.name \in Range(t[pos].targets)
    BY <1>1 DEF Regular, ClusterFits
  <2>2. \A i \in DOMAIN t : t[i] \in Range(t)
    BY DEF Range
  <2> QED
    BY <2>1, <2>2, Zenon
<1>11. \A x \in NodeNames(t) : \E k \in DOMAIN t : x = t[k].name /\ t[k].kind \in Nodes
  BY DEF NodeNames, Range
<1>12. \A k \in DOMAIN t : t[k].kind \in Nodes \ {"Port", "Net"} => t[k].name \in LeftNames(t)
  BY DEF LeftNames, Range
<1>13. PlacementNames(t, j) \subseteq f
  <2> SUFFICES ASSUME NEW g \in Placements(t, j) PROVE t[g].name \in f
    BY DEF PlacementNames
  <2>1. g \in DOMAIN t /\ t[g].kind = "ServerGroup"
    BY DEF Placements
  <2>2. g < pos
    BY <1>1, <2>1, ScalerFacts DEF Scalers
  <2>3. heap[g].handled
    BY <2>1, <2>2 DEF Plain
  <2>4. t[g].name \in heap[j].refs
    BY <1>8, <2>3
  <2>5. t[g].name \notin ports
    <3> SUFFICES ASSUME NEW k \in PortsOf(j), heap[k].name = t[g].name PROVE FALSE
      OBVIOUS
    <3>1. k \in DOMAIN t /\ t[k].kind = "Port" /\ t[k].name = t[g].name
      BY <1>6, <1>7
    <3>2. t[g].name \in TakenNames(t[g]) /\ t[k].name \in TakenNames(t[k])
      BY <2>1, <3>1, NamesFacts, Zenon
    <3>3. k = g
      BY <2>1, <3>1, <3>2, NamesFacts
    <3> QED
      BY <2>1, <3>1, <3>3
  <2> QED
    BY <1>3, <2>4, <2>5
<1>14. heap[j].refs \ ports \subseteq LeftNames(t) \cup PlacementNames(t, j)
  <2> SUFFICES ASSUME NEW x \in t[j].refs, x \notin ports PROVE x \in LeftNames(t)
    BY <1>8
  <2>1. PICK k \in DOMAIN t : x = t[k].name /\ t[k].kind \in Nodes
    BY <1>2, <1>9, <1>11
  <2>2. CASE t[k].kind \in {"Port", "Net"}
    <3>1. t[k].kind = "Port" /\ t[k].server = t[j].name
      BY <1>2, <1>10, <2>1, <2>2
    <3>2. k \in PortsOf(j) /\ heap[k].name = x
      BY <1>6, <1>7, <2>1, <3>1
    <3> QED
      BY <3>2
  <2>3. CASE t[k].kind \notin {"Port", "Net"}
    BY <1>12, <2>1, <2>3
  <2> QED
    BY <2>2, <2>3
<1>15. given \subseteq LeftNames(t)
  <2> SUFFICES ASSUME NEW k \in PortsOf(j), NEW x \in heap[k].refs PROVE x \in LeftNames(t)
    OBVIOUS
  <2>1. k \in DOMAIN t /\ t[k].kind = "Port"
    BY <1>6
  <2>2. t[k].name \notin ServerNames(t)
    BY <2>1, NamesFacts, ServerFacts
  <2>3. heap[k].refs \subseteq t[k].refs \cup PlacementNames(t, k)
    BY <2>1, GivenFacts DEF GivenOne, Nodes
  <2>4. Placements(t, k) = {}
    BY <2>2 DEF Placements, Regular, ServersPlaced, Range
  <2>5. x \in t[k].refs
    BY <2>3, <2>4 DEF PlacementNames
  <2>6. PICK w \in DOMAIN t : x = t[w].name /\ t[w].kind \in Nodes
    BY <1>9, <1>11, <2>1, <2>5
  <2>7. t[w].kind \notin {"Port", "Net"}
    BY <1>1, <1>10, <2>1, <2>2, <2>5, <2>6
  <2> QED
    BY <1>12, <2>6, <2>7
<1> HIDE DEF ports, given
<1>16. f \subseteq LeftNames(t) \cup PlacementNames(t, j)
  BY <1>3, <1>14, <1>15
<1> QED
  BY <1>3, <1>4, <1>13, <1>16 DEF ProfileOf
\* Every element of a sublist is at its place of the list or behind it.
Behind(s, fl) ==
    \A a \in 1..Len(fl) : \E j \in Nat : j >= a /\ j <= Len(s) /\ fl[a] = s[j]

\* A filtered list keeps the order.
LEMMA FilterIsBehind ==
    ASSUME NEW R, NEW s \in Seq(R), NEW T
    PROVE  Behind(s, Filter(s, T))
<1>1. Filter(s, T) \in Seq(R)
  BY FilterElements
<1>2. ASSUME NEW a \in 1..Len(Filter(s, T))
      PROVE  \E j \in Nat : j >= a /\ j <= Len(s) /\ Filter(s, T)[a] = s[j]
  <2>1. PICK j \in a..Len(s) : Filter(s, T)[a] = s[j]
    BY FilterBehind
  <2>2. j \in Nat /\ j >= a /\ j <= Len(s)
    BY <1>1, <2>1
  <2> QED
    BY <2>1, <2>2
<1> QED
  BY <1>2 DEF Behind

\* The list of HandleCluster: of the given resources it has those that remain,
\* and none that the walk was at.
LEMMA ClusterRange ==
    ASSUME Regular, TypeOK, HotOnce, NEW t \in Topologies, Given(t, heap), Plain(t),
           NEW n \in Nat, pos <= Len(Walked), AtCluster(t, n, t[pos]),
           NEW q \in Nat, q = Len(ClusterHeap), n + Len(Replaced) <= q
    PROVE  /\ Range(ClusterList) = Remaining(t, pos) \cup (n + 1 .. q)
           /\ \A k \in DOMAIN ClusterList : k > pos => ClusterList[k] > pos
<1>1. PICK rs, p : rs = Replaced /\ p = pos
  OBVIOUS
<1>2. /\ rs \in Seq(1..n) /\ Range(rs) = Taken(t, p) /\ OnceIn(rs)
      /\ Staying = {i \in DOMAIN t : t[i].kind \notin {"Port", "Net"}}
      /\ Taken(t, p) \subseteq Staying
  BY <1>1, ClusterTaken
<1>3. n = Len(heap) /\ DOMAIN t = 1..n /\ p \in 1..n
  BY <1>1 DEF AtCluster
<1>4. PICK k1 \in Nat : k1 = Len(rs)
  BY <1>2
<1>5. n + k1 <= q
  BY <1>1, <1>4
<1>6. \E stays, first, more : MadeList(q, n, rs, stays, first, more)
  BY <1>1, <1>2, <1>3, <1>4, <1>5, ClusterListTyped
<1>7. PICK stays, first, more : MadeList(q, n, rs, stays, first, more)
  BY <1>6
<1>8. /\ stays \in Seq(1..n) /\ first \in Seq(1..q) /\ more \in Seq(1..q)
      /\ stays = Filter(Hot, Staying) /\ ToSet(stays) = Staying
      /\ ClusterList = first \o more
      /\ Len(first) = Len(stays) /\ Len(more) = q - n - Len(rs)
      /\ \A k \in 1..Len(stays) :
            first[k] = IF stays[k] \in Range(rs) THEN n + PlaceOf(rs, stays[k])
                                                ELSE stays[k]
      /\ \A k \in 1..(q - n - Len(rs)) : more[k] = n + Len(rs) + k
  BY <1>7 DEF MadeList
<1>0. PICK l \in Nat : l = Len(stays)
  BY <1>8
<1>9. PICK d \in Nat : l = Len(stays) /\ d = q - n - k1
  <2>1. q - n - k1 \in Nat
    BY <1>5
  <2> QED
    BY <1>0, <2>1
<1>10. DOMAIN rs = 1..k1 /\ DOMAIN stays = 1..l /\ DOMAIN first = 1..l /\ DOMAIN more = 1..d
  BY <1>2, <1>4, <1>8, <1>9
<1>11. \A x \in Range(rs) : PlaceOf(rs, x) \in 1..k1 /\ rs[PlaceOf(rs, x)] = x
  <2> SUFFICES ASSUME NEW x \in Range(rs) PROVE PlaceOf(rs, x) \in 1..k1 /\ rs[PlaceOf(rs, x)] = x
    OBVIOUS
  <2>1. \E i \in DOMAIN rs : rs[i] = x
    BY DEF Range
  <2>2. PICK i : i = PlaceOf(rs, x)
    OBVIOUS
  <2>3. i \in DOMAIN rs /\ rs[i] = x
    BY <2>1, <2>2, Zenon DEF PlaceOf
  <2> QED
    BY <1>10, <2>2, <2>3
<1>12. \A i \in 1..k1 : PlaceOf(rs, rs[i]) = i /\ rs[i] \in Range(rs)
  <2> SUFFICES ASSUME NEW i \in 1..k1 PROVE PlaceOf(rs, rs[i]) = i /\ rs[i] \in Range(rs)
    OBVIOUS
  <2>1. rs[i] \in Range(rs)
    BY <1>10 DEF Range
  <2>2. PICK j : j = PlaceOf(rs, rs[i])
    OBVIOUS
  <2>3. j \in 1..k1 /\ rs[j] = rs[i]
    BY <1>11, <2>1, <2>2
  <2>4. j = i
    BY <1>2, <1>10, <2>3 DEF OnceIn
  <2> QED
    BY <2>1, <2>2, <2>4
<1>13. \A k \in 1..l : stays[k] \in Staying /\ stays[k] \in 1..n
  BY <1>8, <1>9, <1>10 DEF ToSet
<1>14. \A x \in Staying : \E k \in 1..l : stays[k] = x
  BY <1>8, <1>10 DEF ToSet
<1>15. ToSet(first) \subseteq Remaining(t, p) \cup (n + 1 .. n + k1)
  <2> SUFFICES ASSUME NEW k \in 1..l PROVE first[k] \in Remaining(t, p) \cup (n + 1 .. n + k1)
    BY <1>10 DEF ToSet
  <2>1. CASE stays[k] \in Range(rs)
    <3>1. PICK i \in 1..k1 : i = PlaceOf(rs, stays[k])
      BY <1>11, <2>1
    <3>2. first[k] = n + i
      BY <1>8, <1>9, <2>1, <3>1
    <3> QED
      BY <3>2
  <2>2. CASE stays[k] \notin Range(rs)
    <3>1. first[k] = stays[k]
      BY <1>8, <1>9, <2>2
    <3> QED
      BY <1>2, <1>13, <2>2, <3>1 DEF Remaining
  <2> QED
    BY <2>1, <2>2
<1>16. Remaining(t, p) \subseteq ToSet(first)
  <2> SUFFICES ASSUME NEW x \in Remaining(t, p) PROVE x \in ToSet(first)
    OBVIOUS
  <2>1. x \in Staying /\ x \notin Range(rs)
    BY <1>2 DEF Remaining
  <2>2. PICK k \in 1..l : stays[k] = x
    BY <1>14, <2>1
  <2>3. first[k] = x
    BY <1>8, <1>9, <2>1, <2>2
  <2> QED
    BY <1>10, <2>3 DEF ToSet
<1>17. n + 1 .. n + k1 \subseteq ToSet(first)
  <2> SUFFICES ASSUME NEW i \in 1..k1 PROVE n + i \in ToSet(first)
    <3>1. \A x \in n + 1 .. n + k1 : x - n \in 1..k1 /\ n + (x - n) = x
      OBVIOUS
    <3> QED
      BY <3>1
  <2>1. rs[i] \in Staying /\ rs[i] \in Range(rs) /\ PlaceOf(rs, rs[i]) = i
    BY <1>2, <1>12
  <2>2. PICK k \in 1..l : stays[k] = rs[i]
    BY <1>14, <2>1
  <2>3. first[k] = n + i
    BY <1>8, <1>9, <2>1, <2>2
  <2> QED
    BY <1>10, <2>3 DEF ToSet
<1>18. ToSet(more) = n + k1 + 1 .. q
  <2>1. \A k \in 1..d : more[k] = n + k1 + k
    BY <1>4, <1>8, <1>9
  <2>2. \A k \in 1..d : more[k] \in n + k1 + 1 .. q
    BY <1>9, <2>1
  <2>3. \A x \in n + k1 + 1 .. q : x - n - k1 \in 1..d /\ n + k1 + (x - n - k1) = x
    BY <1>9
  <2>4. \A x \in n + k1 + 1 .. q : \E k \in 1..d : more[k] = x
    BY <2>1, <2>3
  <2> QED
    BY <1>10, <2>2, <2>4 DEF ToSet
<1>19. ToSet(first \o more) = ToSet(first) \cup ToSet(more)
  BY <1>8, ConcatElements
<1>20. Range(ClusterList) = Remaining(t, p) \cup (n + 1 .. q)
  <2>1. n + 1 .. q = (n + 1 .. n + k1) \cup (n + k1 + 1 .. q)
    BY <1>5
  <2>2. ToSet(first) = Remaining(t, p) \cup (n + 1 .. n + k1)
    BY <1>15, <1>16, <1>17
  <2>3. PICK L : L = ClusterList
    OBVIOUS
  <2>4. ToSet(L) = Remaining(t, p) \cup (n + 1 .. q)
    BY <1>8, <1>18, <1>19, <2>1, <2>2, <2>3
  <2> QED
    BY <2>3, <2>4 DEF ToSet, Range
<1>21. \A k \in 1..l : k > p => first[k] > p
  <2> SUFFICES ASSUME NEW k \in 1..l, k > p PROVE first[k] > p
    OBVIOUS
  <2>1. stays[k] > p
    <3>1. PICK hot : hot = Hot
      OBVIOUS
    <3>2. hot \in Seq(1..n) /\ hot = Identity(t)
      BY <1>3, <3>1, ListsTyped, PlainHot
    <3>3. PICK st : st = Staying
      OBVIOUS
    <3>4. Behind(hot, Filter(hot, st))
      BY <3>2, FilterIsBehind
    <3>5. Filter(hot, st) = stays
      BY <1>8, <3>1, <3>3
    <3>6. Behind(hot, stays)
      BY <3>4, <3>5
    <3>7. PICK j \in Nat : j >= k /\ j <= Len(hot) /\ stays[k] = hot[j]
      <4>1. k \in 1..Len(stays)
        BY <1>9
      <4> QED
        BY <3>6, <4>1, Zenon DEF Behind
    <3>8. j \in 1..n
      <4>1. hot = [i \in 1..n |-> i]
        BY <1>3, <3>2 DEF Identity
      <4>2. Len(hot) = n
        BY <3>2, <4>1
      <4> QED
        BY <3>7, <4>2
    <3>9. hot[j] = j
      BY <1>3, <3>2, <3>8 DEF Identity
    <3> QED
      BY <1>3, <3>7, <3>8, <3>9
  <2>2. CASE stays[k] \in Range(rs)
    <3>1. PICK i \in 1..k1 : i = PlaceOf(rs, stays[k])
      BY <1>11, <2>2
    <3>2. first[k] = n + i
      BY <1>8, <1>9, <2>2, <3>1
    <3> QED
      BY <1>3, <3>2
  <2>3. CASE stays[k] \notin Range(rs)
    BY <1>8, <1>9, <2>1, <2>3
  <2> QED
    BY <2>2, <2>3
<1>22. ASSUME NEW k \in DOMAIN ClusterList, k > p PROVE ClusterList[k] > p
  <2>1. /\ Len(first) = l /\ Len(more) = d /\ Len(first \o more) = l + d
        /\ \A i \in 1..l : (first \o more)[i] = first[i]
        /\ \A i \in 1..d : (first \o more)[l + i] = more[i]
    <3>1. Len(first) = l /\ Len(more) = d
      BY <1>4, <1>8, <1>9
    <3>2. \A a, b \in Seq(1..q) :
            /\ Len(a \o b) = Len(a) + Len(b)
            /\ \A i \in 1..Len(a) : (a \o b)[i] = a[i]
            /\ \A i \in 1..Len(b) : (a \o b)[Len(a) + i] = b[i]
      BY ConcatPositions
    <3>3. /\ Len(first \o more) = Len(first) + Len(more)
          /\ \A i \in 1..Len(first) : (first \o more)[i] = first[i]
          /\ \A i \in 1..Len(more) : (first \o more)[Len(first) + i] = more[i]
      BY <1>8, <3>2, Zenon
    <3> QED
      BY <3>1, <3>3, Zenon
  <2>2. k \in 1..(l + d)
    <3>1. first \o more \in Seq(1..q)
      BY <1>8, ConcatElements
    <3> QED
      BY <1>8, <1>22, <2>1, <3>1
  <2>3. CASE k \in 1..l
    BY <1>8, <1>21, <1>22, <2>1, <2>3
  <2>4. CASE k \notin 1..l
    <3>1. PICK i \in 1..d : k = l + i
      <4>1. k - l \in 1..d /\ k = l + (k - l)
        BY <2>2, <2>4
      <4> QED
        BY <4>1
    <3>2. ClusterList[k] = n + k1 + i
      BY <1>4, <1>8, <1>9, <2>1, <3>1
    <3> QED
      BY <1>3, <3>2
  <2> QED
    BY <2>3, <2>4
<1> QED
  BY <1>1, <1>20, <1>22
-----------------------------------------------------------------------------
(* What HandleCluster makes.                                               *)

\* The resources h behind the n given ones: profiles of rs, clusters, policies.
ClusterContents(t, n, s, q, rs, h) ==
    /\ h \in Seq(ResourceRecord) /\ Len(h) = q /\ n + Len(rs) <= q
    /\ \A i \in 1..n : i # pos => h[i] = heap[i]
    /\ SameFields(h[pos], s) /\ h[pos].handled /\ h[pos].refs = ClusterNames(s)
    /\ h[pos].name = Append(s.name, s.triggers[Len(s.triggers)])
    /\ \A k \in 1..Len(rs) : ProfileOf(t, rs[k], h[n + k])
    /\ \A x \in Range(s.targets) : \E i \in n + 1 .. q : ClusterOf(s, x, h[i])
    /\ \A i \in n + 1 .. q :
            \/ \E k \in 1..Len(rs) : i = n + k
            \/ \E x \in Range(s.targets) : ClusterOf(s, x, h[i])
            \/ \E g \in Range(s.triggers) : TriggerOf(s, g, h[i])

\* The cluster of a target and the policy of a trigger, for the resource v of
\* the policy s, and the resource itself with the k-th trigger.
PiecesOf(v, s) ==
    /\ \A x, r : r = [Resource(ClusterName(x), "Cluster") EXCEPT !.policy = v.policy, !.refs = {x}]
                    => ClusterOf(s, x, r)
    /\ \A k : TriggerOf(s, v.triggers[k], TriggerPolicy(v, k))
    /\ \A k, own : own = [Handled(v) EXCEPT !.name = TriggerPolicy(v, k).name,
                                            !.refs = TriggerPolicy(v, k).refs] =>
            /\ SameFields(own, s) /\ own.handled /\ own.refs = ClusterNames(s)
            /\ own.name = Append(s.name, v.triggers[k])

\* The pieces are what a cluster needs.
LEMMA ClusterPieces ==
    ASSUME NEW v \in ResourceRecord, NEW s, SameFields(v, s), v.name = s.name
    PROVE  PiecesOf(v, s)
<1>1. v.policy = s.policy /\ v.targets = s.targets
  BY DEF SameFields
<1>2. ASSUME NEW x
      PROVE  ClusterOf(s, x, [Resource(ClusterName(x), "Cluster") EXCEPT
                                !.policy = v.policy, !.refs = {x}])
  BY <1>1 DEF ClusterOf, ClusterName, Resource
<1>3. ASSUME NEW k PROVE TriggerOf(s, v.triggers[k], TriggerPolicy(v, k))
  <2>1. PICK x, f, r : /\ x = Append(v.name, v.triggers[k]) /\ f = ClusterNames(s)
                       /\ r = TriggerPolicy(v, k)
    OBVIOUS
  <2>2. r = [Resource(x, "MadePolicy") EXCEPT !.policy = v.policy, !.refs = f]
    BY <1>1, <2>1 DEF TriggerPolicy, ClusterNames
  <2>3. r.kind = "MadePolicy" /\ r.policy = v.policy /\ ~ r.hidden /\ r.name = x /\ r.refs = f
    BY <2>2 DEF Resource
  <2> QED
    BY <1>1, <2>1, <2>3 DEF TriggerOf
<1>4. ASSUME NEW k, NEW own,
             own = [Handled(v) EXCEPT !.name = TriggerPolicy(v, k).name,
                                      !.refs = TriggerPolicy(v, k).refs]
      PROVE  /\ SameFields(own, s) /\ own.handled /\ own.refs = ClusterNames(s)
             /\ own.name = Append(s.name, v.triggers[k])
  <2>1. PICK x, f : x = TriggerPolicy(v, k).name /\ f = TriggerPolicy(v, k).refs
    OBVIOUS
  <2>2. x = Append(s.name, v.triggers[k]) /\ f = ClusterNames(s)
    BY <1>3, <2>1 DEF TriggerOf
  <2>3. PICK w : w = Handled(v)
    OBVIOUS
  <2>4. w \in ResourceRecord /\ SameFields(w, v) /\ w.handled
    BY <2>3 DEF Handled, SameFields, ResourceRecord
  <2>5. own = [w EXCEPT !.name = x, !.refs = f]
    BY <1>4, <2>1, <2>3
  <2>6. SameFields(own, w) /\ own.handled /\ own.refs = f /\ own.name = x
    BY <2>4, <2>5 DEF SameFields, ResourceRecord
  <2> QED
    BY <2>2, <2>4, <2>6 DEF SameFields
<1> QED
  BY <1>2, <1>3, <1>4, Zenon DEF PiecesOf

\* HandleCluster makes a profile of each server, a cluster of each target and a
\* policy of each trigger but the last.
LEMMA ClusterContent ==
    ASSUME Regular, TypeOK, HotOnce, NEW t \in Topologies, Given(t, heap), Plain(t), NEW n \in Nat,
           pos <= Len(Walked), NEW s, s = t[pos], AtCluster(t, n, s), Triggered(s),
           NEW rs, rs = Replaced
    PROVE  \E q \in Nat : ClusterContents(t, n, s, q, rs, ClusterHeap)
<1>1. AtCluster(t, n, t[pos])
  OBVIOUS
<1>2. /\ pos \in 1..n /\ DOMAIN t = 1..n /\ n = Len(heap) /\ Walked[pos] = pos
      /\ s.kind = "SenlinPolicy" /\ SameFields(heap[pos], s) /\ heap[pos].name = s.name
  BY DEF AtCluster
<1>3. /\ rs \in Seq(1..n) /\ Range(rs) = Taken(t, pos) /\ OnceIn(rs)
  BY <1>1, ClusterTaken
<1>4. PICK v \in ResourceRecord : v = Visited /\ v = heap[pos]
  BY <1>2, ListsTyped DEF Visited
<1>0. PiecesOf(v, s)
  BY <1>2, <1>4, ClusterPieces
<1>5. PICK tg \in Seq(Name), tr \in Seq(Word) : tg = v.targets /\ tr = v.triggers
  BY PartsTyped
<1>6. tg = s.targets /\ tr = s.triggers /\ Len(tr) # 0
  BY <1>2, <1>4, <1>5 DEF SameFields, Triggered
<1>7. PICK h : h = ClusterHeap
  OBVIOUS
<1>8. ClusterMade(v, n, rs, tg, tr)
  BY <1>2, <1>3, <1>4, <1>5, <1>6, ClusterHeapTyped
<1>9. PICK k1 \in Nat, k2 \in Nat, k3 \in Nat : k1 = Len(rs) /\ k2 = Len(tg) /\ k3 + 1 = Len(tr)
  <2>1. PICK k \in Nat : k = Len(tr)
    OBVIOUS
  <2>2. k - 1 \in Nat /\ (k - 1) + 1 = k
    BY <1>6, <2>1
  <2>3. Len(rs) \in Nat /\ Len(tg) \in Nat
    BY <1>3
  <2> QED
    BY <2>1, <2>2, <2>3
<1>10. Len(tr) - 1 = k3
  BY <1>9
<1>11. PICK q \in Nat : q = n + k1 + k2 + k3
  OBVIOUS
<1>12. h \in Seq(ResourceRecord) /\ Len(h) = q
  BY <1>7, <1>8, <1>9, <1>10, <1>11, Zenon DEF ClusterMade
<1>13. PICK own : own = [Handled(v) EXCEPT !.name = TriggerPolicy(v, Len(tr)).name,
                                           !.refs = TriggerPolicy(v, Len(tr)).refs]
  OBVIOUS
<1>14. \A i \in 1..n : h[i] = IF i = Walked[pos] THEN own ELSE heap[i]
  BY <1>7, <1>8, <1>13, Zenon DEF ClusterMade
<1>15. \A k \in 1..k1 : h[n + k] = Profile(rs[k])
  BY <1>7, <1>8, <1>9, Zenon DEF ClusterMade
<1>16. \A k \in 1..k2 : h[n + k1 + k] = Clusters(v)[k]
  BY <1>7, <1>8, <1>9, Zenon DEF ClusterMade
<1>17. \A k \in 1..k3 : h[n + k1 + k2 + k] = TriggerPolicy(v, k)
  BY <1>7, <1>8, <1>9, <1>10, Zenon DEF ClusterMade
<1>18. /\ SameFields(own, s) /\ own.handled /\ own.refs = ClusterNames(s)
       /\ own.name = Append(s.name, v.triggers[Len(tr)])
  BY <1>13, <1>0, Zenon DEF PiecesOf
<1>19. h[pos] = own /\ own.name = Append(s.name, s.triggers[Len(s.triggers)])
  BY <1>2, <1>5, <1>6, <1>14, <1>18
<1>20. \A i \in 1..n : i # pos => h[i] = heap[i]
  BY <1>2, <1>14
<1>21. \A k \in 1..k1 : ProfileOf(t, rs[k], h[n + k])
  <2> SUFFICES ASSUME NEW k \in 1..k1 PROVE ProfileOf(t, rs[k], h[n + k])
    OBVIOUS
  <2>1. PICK j : j = rs[k]
    OBVIOUS
  <2>2. j \in Taken(t, pos)
    BY <1>3, <1>9, <2>1 DEF Range
  <2>3. ProfileOf(t, j, Profile(j))
    BY <1>1, <2>2, ProfileMade
  <2> QED
    BY <1>15, <2>1, <2>3
<1>22. \A k \in 1..k2 : ClusterOf(s, s.targets[k], h[n + k1 + k]) /\ s.targets[k] \in Range(s.targets)
  <2> SUFFICES ASSUME NEW k \in 1..k2
               PROVE  ClusterOf(s, s.targets[k], h[n + k1 + k]) /\ s.targets[k] \in Range(s.targets)
    OBVIOUS
  <2>1. \A a \in 1..Len(tg) : Clusters(v)[a] = [Resource(ClusterName(tg[a]), "Cluster") EXCEPT
                                                    !.policy = v.policy, !.refs = {tg[a]}]
    BY <1>4, <1>5, ClusterParts
  <2>2. PICK x : x = tg[k]
    OBVIOUS
  <2>3. Clusters(v)[k] = [Resource(ClusterName(x), "Cluster") EXCEPT
                                !.policy = v.policy, !.refs = {x}]
    BY <1>9, <2>1, <2>2
  <2>4. ClusterOf(s, x, Clusters(v)[k])
    BY <1>0, <2>3, Zenon DEF PiecesOf
  <2>5. x \in Range(tg)
    BY <1>9, <2>2 DEF Range
  <2> QED
    BY <1>6, <1>16, <2>2, <2>4, <2>5
<1>23. \A k \in 1..k3 : \E g \in Range(s.triggers) : TriggerOf(s, g, h[n + k1 + k2 + k])
  <2> SUFFICES ASSUME NEW k \in 1..k3
               PROVE  \E g \in Range(s.triggers) : TriggerOf(s, g, h[n + k1 + k2 + k])
    OBVIOUS
  <2>1. PICK g : g = tr[k]
    OBVIOUS
  <2>2. TriggerOf(s, g, TriggerPolicy(v, k))
    BY <1>0, <1>5, <2>1, Zenon DEF PiecesOf
  <2>3. g \in Range(tr)
    <3>1. k \in 1..Len(tr)
      BY <1>9
    <3> QED
      BY <2>1, <3>1 DEF Range
  <2> QED
    BY <1>6, <1>17, <2>2, <2>3
<1>24. \A x \in Range(s.targets) : \E i \in n + 1 .. q : ClusterOf(s, x, h[i])
  <2> SUFFICES ASSUME NEW x \in Range(s.targets) PROVE \E i \in n + 1 .. q : ClusterOf(s, x, h[i])
    OBVIOUS
  <2>1. PICK k \in 1..k2 : s.targets[k] = x
    BY <1>6, <1>9 DEF Range
  <2>2. PICK i : i = n + k1 + k
    OBVIOUS
  <2>3. i \in n + 1 .. q
    BY <1>11, <2>2
  <2> QED
    BY <1>22, <2>1, <2>2, <2>3
<1>25. ASSUME NEW i \in n + 1 .. q
       PROVE  \/ \E k \in 1..k1 : i = n + k
              \/ \E x \in Range(s.targets) : ClusterOf(s, x, h[i])
              \/ \E g \in Range(s.triggers) : TriggerOf(s, g, h[i])
  <2>1. CASE i <= n + k1
    <3>1. i - n \in 1..k1 /\ i = n + (i - n)
      BY <2>1
    <3> QED
      BY <3>1
  <2>2. CASE n + k1 < i /\ i <= n + k1 + k2
    <3>1. PICK k \in 1..k2 : i = n + k1 + k
      <4>1. i - n - k1 \in 1..k2 /\ i = n + k1 + (i - n - k1)
        BY <2>2
      <4> QED
        BY <4>1
    <3> QED
      BY <1>22, <3>1
  <2>3. CASE n + k1 + k2 < i
    <3>1. PICK k \in 1..k3 : i = n + k1 + k2 + k
      <4>1. i - n - k1 - k2 \in 1..k3 /\ i = n + k1 + k2 + (i - n - k1 - k2)
        BY <1>11, <2>3
      <4> QED
        BY <4>1
    <3> QED
      BY <1>23, <3>1
  <2> QED
    BY <2>1, <2>2, <2>3
<1>26. n + k1 <= q
  BY <1>11
<1>27. ClusterContents(t, n, s, q, rs, h)
  BY <1>9, <1>12, <1>18, <1>19, <1>20, <1>21, <1>24, <1>25, <1>26, Zenon DEF ClusterContents
<1> QED
  BY <1>7, <1>27
\* No scaling policy is in the list of HandleCluster, so that Split only takes
\* over what HandleCluster made.
LEMMA ClusterSplit ==
    ASSUME Regular, TypeOK, HotOnce, NEW t \in Topologies, Given(t, heap), Plain(t), NEW n \in Nat,
           HandleCluster, NEW s, s = t[pos], AtCluster(t, n, s), NEW rs, rs = Replaced,
           NEW q \in Nat, ClusterContents(t, n, s, q, rs, ClusterHeap)
    PROVE  /\ heap' \in Seq(ResourceRecord) /\ Len(heap') = q
           /\ \A i \in 1..q : heap'[i] = ClusterHeap[i]
           /\ Len(lists') = 1 /\ Hot' = ClusterList \o <<>>
<1>1. /\ pos <= Len(Walked) /\ Visited.triggers # <<>> /\ AtCluster(t, n, t[pos])
      /\ Split(ClusterHeap, [lists EXCEPT ![Len(lists)] = ClusterList])
  BY DEF HandleCluster, AtKind, ClusterSucceeds
<1>2. PICK h, ls : h = ClusterHeap /\ ls = [lists EXCEPT ![Len(lists)] = ClusterList]
  OBVIOUS
<1>3. /\ h \in Seq(ResourceRecord) /\ ls \in Seq(Seq(1..Len(h))) /\ ls # <<>>
      /\ Last(ls) = ClusterList /\ Split(h, ls) /\ Len(ls) = Len(lists)
  BY <1>1, <1>2, ClusterTyped, ClusterLast
<1>4. PICK both \in Seq(1..Len(h)) : SplitOf(h, ls, both)
  BY <1>3, SplitResult
<1>5. /\ ToSet(both) = {i \in Range(Last(ls)) : h[i].kind = "ScalingPolicy" /\ h[i].adjustment # 0}
      /\ OnceIn(Last(ls)) => OnceIn(both)
      /\ heap' \in Seq(ResourceRecord) /\ Len(heap') = Len(h) + Len(both)
      /\ \A i \in 1..Len(h) :
            heap'[i] = IF i \in ToSet(both)
                       THEN [h[i] EXCEPT !.name = Append(h[i].name, Suffix(h[i].adjustment))]
                       ELSE h[i]
      /\ lists' = [ls EXCEPT ![Len(ls)] = Last(ls) \o [k \in DOMAIN both |-> Len(h) + k]]
      /\ Len(lists') = Len(ls)
  BY <1>4, Zenon DEF SplitOf
<1>6. /\ Len(h) = q /\ n + Len(rs) <= q
      /\ \A i \in 1..n : i # pos => h[i] = heap[i]
      /\ SameFields(h[pos], s)
      /\ \A k \in 1..Len(rs) : ProfileOf(t, rs[k], h[n + k])
      /\ \A i \in n + 1 .. q :
            \/ \E k \in 1..Len(rs) : i = n + k
            \/ \E x \in Range(s.targets) : ClusterOf(s, x, h[i])
            \/ \E g \in Range(s.triggers) : TriggerOf(s, g, h[i])
  BY <1>2, Zenon DEF ClusterContents
<1>7. Range(ClusterList) = Remaining(t, pos) \cup (n + 1 .. q)
  <2>1. q = Len(ClusterHeap) /\ n + Len(Replaced) <= q
    BY <1>2, <1>6
  <2> QED
    BY <1>1, <2>1, ClusterRange
<1>8. DOMAIN t = 1..n /\ pos \in 1..n /\ s.kind = "SenlinPolicy"
  BY DEF AtCluster
<1>9. \A i \in Range(ClusterList) : h[i].kind # "ScalingPolicy"
  <2> SUFFICES ASSUME NEW i \in Range(ClusterList) PROVE h[i].kind # "ScalingPolicy"
    OBVIOUS
  <2>1. CASE i \in n + 1 .. q
    BY <1>6, <2>1 DEF ProfileOf, ClusterOf, TriggerOf
  <2>2. CASE i = pos
    BY <1>6, <1>8, <2>2 DEF SameFields
  <2>3. CASE i \in 1..n /\ i # pos
    <3>1. h[i] = heap[i] /\ heap[i].kind = t[i].kind
      BY <1>6, <1>8, <2>3, GivenFacts
    <3>2. t[i].kind \notin Scalers
      BY <1>1, <1>8, <2>3, ClusterTaken
    <3> QED
      BY <3>1, <3>2 DEF Scalers
  <2> QED
    BY <1>7, <1>8, <2>1, <2>2, <2>3 DEF Remaining
<1>10. ToSet(both) = {}
  BY <1>3, <1>5, <1>9
<1>11. OnceIn(both)
  <2>0. PICK m \in Nat : m = Len(heap)
    BY ListsTyped
  <2>1. m = n
    BY <2>0 DEF AtCluster
  <2>2. rs \in Seq(1..m)
    BY <1>1, <2>0, ClusterParts
  <2>3. q = Len(ClusterHeap) /\ m + Len(rs) <= q
    BY <1>2, <1>6, <2>1
  <2>4. \E stays, first, more : MadeList(q, m, rs, stays, first, more)
    BY <2>0, <2>2, <2>3, ClusterListTyped
  <2>5. PICK stays, first, more : MadeList(q, m, rs, stays, first, more)
    BY <2>4
  <2>6. OnceIn(ClusterList)
    BY <2>0, <2>2, <2>3, <2>5, ClusterOnceIn
  <2> QED
    BY <1>3, <1>5, <2>6
<1>12. Len(both) = 0 /\ both = <<>>
  <2>1. PICK R : R = 1..Len(h)
    OBVIOUS
  <2>2. both \in Seq(R)
    BY <1>4, <2>1
  <2>3. ToSet(both) = {} => Len(both) = 0 /\ both = <<>>
    BY <1>11, <2>2, FewOnce
  <2> QED
    BY <1>10, <2>3
<1>13. Len(heap') = q /\ \A i \in 1..q : heap'[i] = h[i]
  <2>1. Len(heap') = q
    BY <1>5, <1>6, <1>12
  <2>2. \A i \in 1..q : i \notin ToSet(both)
    BY <1>10
  <2>3. \A i \in 1..q : heap'[i] = h[i]
    BY <1>5, <1>6, <2>2, Zenon
  <2> QED
    BY <2>1, <2>3
<1>14. Len(lists') = 1
  BY <1>3, <1>5 DEF Plain
<1>15. Hot' = ClusterList \o <<>>
  <2>1. Hot' = Last(ls) \o [k \in 1..Len(both) |-> Len(h) + k]
    BY <1>3, <1>4, <1>5, SplitHot
  <2>2. [k \in 1..Len(both) |-> Len(h) + k] = <<>>
    BY <1>12
  <2> QED
    BY <1>3, <2>1, <2>2
<1> QED
  BY <1>2, <1>5, <1>13, <1>14, <1>15

\* HandleCluster makes what a cluster is.
LEMMA ClusterStep ==
    ASSUME Regular, TypeOK, HotOnce, NEW t \in Topologies, Given(t, heap), Plain(t), HandleCluster
    PROVE  Given(t, heap') /\ \E c \in DOMAIN t : Clustered(t, c)'
<1>1. PICK n \in Nat : n = Len(t) /\ DOMAIN t = 1..n
  BY TopologyFacts
<1>2. PICK s, rs : s = t[pos] /\ rs = Replaced
  OBVIOUS
<1>3. AtCluster(t, n, s) /\ AtCluster(t, n, t[pos]) /\ pos <= Len(Walked) /\ Triggered(s)
  BY <1>1, <1>2, ClusterVisit
<1>4. /\ pos \in 1..n /\ n = Len(heap) /\ Walked[pos] = pos /\ s.kind = "SenlinPolicy"
  BY <1>3 DEF AtCluster
<1>5. PICK q \in Nat : ClusterContents(t, n, s, q, rs, ClusterHeap)
  BY <1>2, <1>3, ClusterContent
<1>6. PICK h : h = heap'
  OBVIOUS
<1>7. /\ h \in Seq(ResourceRecord) /\ Len(h) = q /\ \A i \in 1..q : h[i] = ClusterHeap[i]
      /\ Len(lists') = 1 /\ Hot' = ClusterList \o <<>>
  BY <1>2, <1>3, <1>5, <1>6, ClusterSplit
<1>8. PICK k1 \in Nat : k1 = Len(rs)
  <2>1. rs \in Seq(1..n)
    BY <1>2, <1>3, ClusterTaken
  <2> QED
    BY <2>1
<1>9. PICK g : g = ClusterHeap
  OBVIOUS
<1>10. /\ Len(g) = q /\ n + k1 <= q
       /\ \A i \in 1..n : i # pos => g[i] = heap[i]
       /\ SameFields(g[pos], s) /\ g[pos].handled /\ g[pos].refs = ClusterNames(s)
       /\ g[pos].name = Append(s.name, s.triggers[Len(s.triggers)])
       /\ \A k \in 1..k1 : ProfileOf(t, rs[k], g[n + k])
       /\ \A x \in Range(s.targets) : \E i \in n + 1 .. q : ClusterOf(s, x, g[i])
       /\ \A i \in n + 1 .. q :
            \/ \E k \in 1..k1 : i = n + k
            \/ \E x \in Range(s.targets) : ClusterOf(s, x, g[i])
            \/ \E w \in Range(s.triggers) : TriggerOf(s, w, g[i])
  BY <1>5, <1>8, <1>9, Zenon DEF ClusterContents
<1>11. \A i \in 1..q : h[i] = g[i]
  BY <1>7, <1>9
<1>12. /\ 1..n \subseteq 1..q /\ n + 1 .. q \subseteq 1..q
       /\ \A k \in 1..k1 : n + k \in n + 1 .. q
  BY <1>10
<1>13. /\ \A i \in 1..n : i # pos => h[i] = heap[i]
       /\ SameFields(h[pos], s) /\ h[pos].handled /\ h[pos].refs = ClusterNames(s)
       /\ h[pos].name = Append(s.name, s.triggers[Len(s.triggers)])
       /\ \A k \in 1..k1 : ProfileOf(t, rs[k], h[n + k])
       /\ \A x \in Range(s.targets) : \E i \in n + 1 .. q : ClusterOf(s, x, h[i])
       /\ \A i \in n + 1 .. q :
            \/ \E k \in 1..k1 : i = n + k
            \/ \E x \in Range(s.targets) : ClusterOf(s, x, h[i])
            \/ \E w \in Range(s.triggers) : TriggerOf(s, w, h[i])
  <2>1. h[pos] = g[pos]
    BY <1>4, <1>11, <1>12
  <2>2. \A i \in n + 1 .. q : h[i] = g[i]
    BY <1>11, <1>12
  <2>3. \A k \in 1..k1 : h[n + k] = g[n + k]
    BY <1>12, <2>2
  <2>4. \A i \in 1..n : h[i] = g[i]
    BY <1>11, <1>12
  <2> QED
    BY <1>10, <2>1, <2>2, <2>3, <2>4
<1>14. DOMAIN h = 1..q /\ DOMAIN h \ DOMAIN t = n + 1 .. q /\ DOMAIN t \subseteq DOMAIN h
  <2>1. DOMAIN h = 1..q
    BY <1>7
  <2> QED
    BY <1>1, <1>12, <2>1
<1>15. Given(t, h)
  <2>1. NameNow(t[pos], TRUE) = Append(s.name, s.triggers[Len(s.triggers)])
    BY <1>2, <1>4 DEF NameNow
  <2>2. h[pos].name = NameNow(t[pos], h[pos].handled)
    <3>1. NameNow(s, h[pos].handled) = NameNow(s, TRUE)
      BY <1>13, Zenon DEF NameNow
    <3> QED
      BY <1>2, <1>13, <2>1, <3>1
  <2>3. t[pos].kind # "ServerGroup" /\ t[pos].kind \notin Nodes
    BY <1>2, <1>4 DEF Nodes
  <2>4. h[pos].refs = PolicyRefs(t[pos], h[pos].handled)
    BY <1>2, <1>4, <1>13 DEF PolicyRefs
  <2>5. \A i \in DOMAIN t \ {pos} : h[i] = heap[i]
    BY <1>1, <1>13
  <2>6. SameFields(h[pos], t[pos])
    BY <1>2, <1>13
  <2> QED
    BY <1>14, <2>2, <2>3, <2>4, <2>5, <2>6, GivenKept
<1>16. pos' = pos + 1 /\ nested' = nested /\ nested = <<>>
  BY DEF HandleCluster, Plain
<1>17. \A i \in DOMAIN t : i <= pos => h[i].handled
  <2> SUFFICES ASSUME NEW i \in DOMAIN t, i <= pos PROVE h[i].handled
    OBVIOUS
  <2>1. CASE i = pos
    BY <1>13, <2>1
  <2>2. CASE i # pos
    <3>1. i < pos
      BY <1>1, <1>4, <2>2
    <3>2. heap[i].handled
      BY <3>1 DEF Plain
    <3> QED
      BY <1>1, <1>13, <2>2, <3>2
  <2> QED
    BY <2>1, <2>2
<1>18. PICK L : L = ClusterList
  OBVIOUS
<1>19. L \in Seq(1..q) /\ L \in Seq(Nat)
  <2>1. Visited.triggers # <<>>
    BY DEF HandleCluster, ClusterSucceeds
  <2>2. L \in Seq(1..Len(g))
    BY <1>3, <1>9, <1>18, <2>1, ClusterTyped
  <2>3. 1..q \subseteq Nat
    OBVIOUS
  <2> QED
    BY <1>10, <2>2, <2>3
<1>20. Range(L) = Remaining(t, pos) \cup (n + 1 .. q) /\ \A k \in DOMAIN L : k > pos => L[k] > pos
  <2>1. q = Len(ClusterHeap) /\ n + Len(Replaced) <= q
    BY <1>2, <1>8, <1>9, <1>10
  <2> QED
    BY <1>3, <1>18, <2>1, ClusterRange
<1>21. PICK w : w = Hot'
  OBVIOUS
<1>22. DOMAIN w = DOMAIN L /\ \A k \in DOMAIN L : w[k] = L[k]
  <2>1. <<>> \in Seq(Nat) /\ Len(<<>>) = 0
    OBVIOUS
  <2>2. \A a, b \in Seq(Nat) :
            /\ a \o b \in Seq(Nat) /\ Len(a \o b) = Len(a) + Len(b)
            /\ \A i \in 1..Len(a) : (a \o b)[i] = a[i]
            /\ \A i \in 1..Len(b) : (a \o b)[Len(a) + i] = b[i]
    BY ConcatPositions
  <2>3. PICK e \in Seq(Nat) : e = <<>> /\ Len(e) = 0
    BY <2>1
  <2>4. w = L \o e
    BY <1>7, <1>18, <1>21, <2>3
  <2>5. w \in Seq(Nat) /\ Len(w) = Len(L) + Len(e) /\ \A i \in 1..Len(L) : w[i] = L[i]
    BY <1>19, <2>2, <2>4, Zenon
  <2>6. Len(w) = Len(L)
    BY <1>19, <2>3, <2>5
  <2> QED
    BY <1>19, <2>5, <2>6
<1>23. Range(w) = Range(L)
  BY <1>22 DEF Range
<1>24. Walked' = w
  BY <1>7, <1>21 DEF Walked, Hot, Last
<1>25. \A k \in DOMAIN w : k >= pos + 1 => w[k] > pos
  <2> SUFFICES ASSUME NEW k \in DOMAIN w, k >= pos + 1 PROVE w[k] > pos
    OBVIOUS
  <2>1. k \in Nat /\ k > pos
    BY <1>4, <1>19, <1>22
  <2> QED
    BY <1>20, <1>22, <2>1
<1>26. Range(rs) = Taken(t, pos) /\ OnceIn(rs) /\ DOMAIN rs = 1..k1
  <2>1. rs \in Seq(1..n) /\ Range(rs) = Taken(t, pos) /\ OnceIn(rs)
    BY <1>2, <1>3, ClusterTaken
  <2> QED
    BY <1>8, <2>1
<1>27. PICK c : c = pos
  OBVIOUS
<1>28. \A i \in DOMAIN h \ DOMAIN t : MadeByCluster(t, c, h[i])
  <2> SUFFICES ASSUME NEW i \in n + 1 .. q PROVE MadeByCluster(t, c, h[i])
    BY <1>14
  <2>1. CASE \E k \in 1..k1 : i = n + k
    <3>1. PICK k \in 1..k1 : i = n + k
      BY <2>1
    <3>2. ProfileOf(t, rs[k], h[i]) /\ rs[k] \in Taken(t, c)
      BY <1>13, <1>26, <1>27, <3>1 DEF Range
    <3> QED
      BY <3>2 DEF MadeByCluster
  <2>2. CASE \E x \in Range(s.targets) : ClusterOf(s, x, h[i])
    BY <1>2, <1>27, <2>2 DEF MadeByCluster
  <2>3. CASE \E v \in Range(s.triggers) : TriggerOf(s, v, h[i])
    BY <1>2, <1>27, <2>3 DEF MadeByCluster
  <2> QED
    BY <1>13, <2>1, <2>2, <2>3
<1>29. ASSUME NEW i \in n + 1 .. q, NEW j \in n + 1 .. q,
              h[i].kind = "Profile", h[j].kind = "Profile", h[i].name = h[j].name
       PROVE  i = j
  <2>1. PICK a \in 1..k1 : i = n + a
    BY <1>13, <1>29 DEF ClusterOf, TriggerOf
  <2>2. PICK b \in 1..k1 : j = n + b
    BY <1>13, <1>29 DEF ClusterOf, TriggerOf
  <2>3. h[i].name = t[rs[a]].name /\ h[j].name = t[rs[b]].name
    BY <1>13, <2>1, <2>2 DEF ProfileOf
  <2>4. rs[a] \in DOMAIN t /\ rs[b] \in DOMAIN t
    BY <1>26 DEF Range, Taken
  <2>5. t[rs[a]].name \in TakenNames(t[rs[a]]) /\ t[rs[b]].name \in TakenNames(t[rs[b]])
    BY <2>4, NamesFacts
  <2>8. \A y, z \in DOMAIN t : \A x : x \in TakenNames(t[y]) /\ x \in TakenNames(t[z]) => y = z
    BY NamesFacts
  <2>6. rs[a] = rs[b]
    BY <1>29, <2>3, <2>4, <2>5, <2>8, Zenon
  <2>7. a = b
    BY <1>26, <2>6 DEF OnceIn
  <2> QED
    BY <2>1, <2>2, <2>7
<1>30. \A j \in Taken(t, c) : \E i \in DOMAIN h \ DOMAIN t : ProfileOf(t, j, h[i])
  <2> SUFFICES ASSUME NEW j \in Taken(t, c)
               PROVE  \E i \in n + 1 .. q : ProfileOf(t, j, h[i])
    BY <1>14
  <2>1. PICK k \in 1..k1 : rs[k] = j
    BY <1>26, <1>27 DEF Range
  <2> QED
    BY <1>12, <1>13, <2>1
<1>31. \A x \in Range(t[c].targets) : \E i \in DOMAIN h \ DOMAIN t : ClusterOf(t[c], x, h[i])
  BY <1>2, <1>13, <1>14, <1>27
<1>32. /\ Range(w) = (DOMAIN h \ DOMAIN t) \cup Remaining(t, c) /\ c \in DOMAIN t
       /\ t[c].kind = "SenlinPolicy" /\ Triggered(t[c]) /\ nested' = <<>>
       /\ \A i \in DOMAIN t : i <= c => h[i].handled
       /\ Len(lists') = 1 /\ pos' > c /\ \A k \in DOMAIN w : k >= pos' => w[k] > c
  BY <1>1, <1>2, <1>3, <1>4, <1>7, <1>14, <1>16, <1>17, <1>20, <1>23, <1>25, <1>27
<1>33. Clustered(t, c)'
  BY <1>6, <1>14, <1>21, <1>24, <1>28, <1>29, <1>30, <1>31, <1>32 DEF Clustered
<1> QED
  BY <1>6, <1>15, <1>32, <1>33
-----------------------------------------------------------------------------
(* The walk keeps its invariant.                                           *)

\* Nothing is handled yet.
LEMMA WalkInit ==
    ASSUME Regular, Init
    PROVE  HotOnce /\ \E t \in Topologies : Walking(t)
<1>1. PICK t \in Topologies : t = heap
  BY DEF Init
<1>2. lists = <<Identity(t)>> /\ pos = 1 /\ policyRes = {} /\ nested = <<>> /\ stage = "properties"
  BY <1>1 DEF Init, Identity
<1>3. \A i \in DOMAIN t : ~ t[i].handled /\ (t[i].kind \in Policies => t[i].refs = {})
  BY TopologyFacts
<1>4. ASSUME NEW i \in DOMAIN t PROVE GivenOne(t, heap, i)
  <2>1. NameNow(t[i], heap[i].handled) = t[i].name
    BY <1>1, <1>3, Zenon DEF NameNow
  <2>2. PolicyRefs(t[i], heap[i].handled) = {}
    BY <1>1, <1>3, Zenon DEF PolicyRefs
  <2>3. SameFields(heap[i], t[i])
    BY <1>1 DEF SameFields
  <2>4. \A g \in Placements(t, i) : ~ heap[g].handled
    BY <1>1, <1>3 DEF Placements
  <2> QED
    BY <1>1, <1>3, <2>1, <2>2, <2>3, <2>4 DEF GivenOne
<1>5. Plain(t)
  <2>1. \A i \in DOMAIN t : ~ (i < pos)
    BY <1>2, TopologyFacts
  <2> QED
    BY <1>1, <1>2, <1>3, <2>1 DEF Plain
<1>6. Given(t, heap)
  BY <1>4 DEF Given
<1>7. Walking(t)
  BY <1>2, <1>5, <1>6 DEF Walking
<1>8. HotOnce
  <2>1. Hot = Identity(t)
    BY <1>5, PlainHot
  <2> QED
    BY <2>1 DEF HotOnce, OnceIn, Identity
<1> QED
  BY <1>7, <1>8

\* What Walking says of the list and the heap.
Met(t) == Plain(t) \/ \E c \in DOMAIN t : Scaled(t, c) \/ Clustered(t, c)

\* Every resource that the walk handles leaves the list as the invariant says.
LEMMA MetStep ==
    ASSUME Regular, TypeOK, HotOnce, NEW t \in Topologies, Given(t, heap), Met(t),
           HandleResource \/ HandlePlacement \/ HandleScaling \/ HandleCluster
    PROVE  Given(t, heap') /\ Met(t)'
<1>1. CASE Plain(t)
  <2>1. CASE HandleResource
    BY <1>1, <2>1, PlainResource DEF Met
  <2>2. CASE HandlePlacement
    BY <1>1, <2>2, PlainPlacement DEF Met
  <2>3. CASE HandleScaling
    BY <1>1, <2>3, ScalingStep DEF Met
  <2>4. CASE HandleCluster
    BY <1>1, <2>4, ClusterStep DEF Met
  <2> QED
    BY <2>1, <2>2, <2>3, <2>4
<1>2. CASE \E c \in DOMAIN t : Scaled(t, c) \/ Clustered(t, c)
  <2>1. PICK c \in DOMAIN t : Scaled(t, c) \/ Clustered(t, c)
    BY <1>2
  <2>2. HandleResource
    <3> SUFFICES ASSUME HandlePlacement \/ HandleScaling \/ HandleCluster PROVE FALSE
      OBVIOUS
    <3>1. pos <= Len(Walked) /\ Visited.kind \in Scalers \cup {"ServerGroup"}
      BY DEF HandlePlacement, HandleScaling, HandleCluster, AtKind, Scalers
    <3> QED
      BY <2>1, <3>1, LateVisit
  <2>3. CASE Scaled(t, c)
    BY <2>2, <2>3, ScaledResource DEF Met
  <2>4. CASE Clustered(t, c)
    BY <2>2, <2>4, ClusteredResource DEF Met
  <2> QED
    BY <2>1, <2>3, <2>4
<1> QED
  BY <1>1, <1>2 DEF Met

\* The steps before the expansion keep the invariant of the walk.
LEMMA WalkStep ==
    ASSUME Regular, TypeOK, HotOnce, NEW t \in Topologies, Walking(t), [Next]_vars,
           stage' \in {"properties", "expansion"}
    PROVE  Walking(t)'
<1>1. Given(t, heap) /\ Met(t) /\ (stage = "expansion" => pos > Len(Walked))
  BY DEF Walking, Met
<1>2. CASE HandleResource \/ HandlePlacement \/ HandleScaling \/ HandleCluster
  <2>1. Given(t, heap') /\ Met(t)'
    BY <1>1, <1>2, MetStep
  <2>2. stage' = "properties"
    BY <1>2 DEF HandleResource, HandlePlacement, HandleScaling, HandleCluster, AtKind
  <2> QED
    BY <2>1, <2>2 DEF Walking, Met
<1>3. CASE FinishProperties
  <2>1. UNCHANGED <<heap, lists, pos, policyRes, nested>> /\ pos > Len(Walked)
    BY <1>3 DEF FinishProperties
  <2> QED
    BY <1>1, <2>1 DEF Walking, Met, Given, GivenOne, Plain, Scaled, Clustered, Walked, Hot, Last,
                      MadeByCluster
<1>4. CASE UNCHANGED vars
  BY <1>1, <1>4 DEF vars, Walking, Met, Given, GivenOne, Plain, Scaled, Clustered, Walked, Hot,
                    Last, MadeByCluster
<1>5. CASE Fail \/ Expand \/ ResolveFunctions
  <2>1. stage' \in {"failed", "functions", "written"}
    BY <1>5 DEF Fail, Expand, ResolveFunctions
  <2> QED
    BY <2>1
<1> QED
  BY <1>2, <1>3, <1>4, <1>5 DEF Next
-----------------------------------------------------------------------------
(* The expansion.                                                          *)

\* Both scaling policies have the alarm of the policy p.
LEMMA SuffixDropped ==
    ASSUME NEW p \in Word, p \notin MadeOf
    PROVE  /\ AlarmName(<<p>>) = <<p, "alarm">>
           /\ \A a : AlarmName(Append(<<p>>, Suffix(a))) = <<p, "alarm">>
<1>1. p \notin {"scale_in", "scale_out"}
  BY DEF MadeOf
<1>2. PICK one : one = <<p>>
  OBVIOUS
<1>3. one \in Seq(Word) /\ Len(one) = 1 /\ one[1] = p /\ Append(<<>>, p) = one
  <2>1. Append(<<>>, p) = <<p>>
    OBVIOUS
  <2> QED
    BY <1>2, <2>1
<1>4. ASSUME NEW T, p \in T PROVE Filter(one, T) = one
  <2>1. PICK f : IsFilter(f, one, T)
    BY <1>3, FilterLoop
  <2>2. /\ f[0] = <<>> /\ Filter(one, T) = f[Len(one)]
        /\ \A i \in 1..Len(one) : f[i] = IF one[i] \in T THEN Append(f[i - 1], one[i]) ELSE f[i - 1]
    BY <2>1 DEF IsFilter
  <2>3. Filter(one, T) = f[1]
    BY <1>3, <2>2, Zenon
  <2>4. 1 \in 1..Len(one) /\ 1 - 1 = 0
    BY <1>3
  <2>5. f[1] = Append(f[1 - 1], one[1])
    BY <1>3, <1>4, <2>2, <2>4, Zenon
  <2>6. f[1 - 1] = <<>>
    BY <2>2, <2>4, Zenon
  <2>7. f[1] = Append(<<>>, p)
    BY <1>3, <2>5, <2>6, Zenon
  <2> QED
    BY <1>3, <2>3, <2>7, Zenon
<1>5. AlarmName(<<p>>) = <<p, "alarm">>
  <2>1. PICK T : T = Range(one) \ {"scale_in", "scale_out"}
    OBVIOUS
  <2>2. p \in Range(one)
    BY <1>3 DEF Range
  <2>3. Filter(one, T) = one
    BY <1>1, <1>4, <2>1, <2>2
  <2>4. AlarmName(one) = Append(one, "alarm")
    BY <2>1, <2>3 DEF AlarmName
  <2> QED
    BY <1>2, <2>4, AppendOne
<1>6. ASSUME NEW a PROVE AlarmName(Append(<<p>>, Suffix(a))) = <<p, "alarm">>
  <2>1. PICK w : w = Suffix(a)
    OBVIOUS
  <2>2. w \in Word /\ w \in {"scale_in", "scale_out"}
    BY <2>1, MadeWords DEF Suffix
  <2>3. PICK two : two = Append(one, w)
    OBVIOUS
  <2>4. two \in Seq(Word) /\ Len(two) = 2 /\ two[1] = p /\ two[2] = w
    <3>1. two = <<p, w>>
      BY <1>2, <2>3, AppendOne
    <3> QED
      BY <2>2, <3>1
  <2>5. PICK T : T = Range(two) \ {"scale_in", "scale_out"}
    OBVIOUS
  <2>6. p \in T /\ w \notin T
    <3>1. p \in Range(two)
      BY <2>4 DEF Range
    <3> QED
      BY <1>1, <2>2, <2>5, <3>1
  <2>7. PICK f : IsFilter(f, two, T)
    BY <2>4, FilterLoop
  <2>8. /\ f[0] = <<>> /\ Filter(two, T) = f[Len(two)]
        /\ \A i \in 1..Len(two) : f[i] = IF two[i] \in T THEN Append(f[i - 1], two[i]) ELSE f[i - 1]
    BY <2>7 DEF IsFilter
  <2>9. Filter(two, T) = one
    <3>1. 1 \in 1..Len(two) /\ 1 - 1 = 0 /\ 2 \in 1..Len(two) /\ 2 - 1 = 1
      BY <2>4
    <3>2. f[1] = Append(f[1 - 1], two[1])
      BY <2>4, <2>6, <2>8, <3>1, Zenon
    <3>3. f[2] = f[2 - 1]
      BY <2>4, <2>6, <2>8, <3>1, Zenon
    <3>4. f[1 - 1] = <<>> /\ f[2 - 1] = f[1]
      BY <2>8, <3>1, Zenon
    <3>5. Filter(two, T) = f[2]
      BY <2>4, <2>8, Zenon
    <3>6. f[1] = one
      BY <1>3, <2>4, <3>2, <3>4, Zenon
    <3> QED
      BY <3>3, <3>4, <3>5, <3>6, Zenon
  <2>10. AlarmName(two) = Append(one, "alarm")
    BY <2>5, <2>9 DEF AlarmName
  <2> QED
    BY <1>2, <2>1, <2>3, <2>10, AppendOne
<1> QED
  BY <1>5, <1>6

\* What is made by the expansion is shown, as what was.
ExpandOf ==
    /\ DOMAIN heap \subseteq DOMAIN heap' /\ \A i \in DOMAIN heap : heap'[i] = heap[i]
    /\ Shown \subseteq Shown' /\ Shown' \subseteq DOMAIN heap'
    /\ \A i \in DOMAIN heap : i \in Shown' => i \in Shown
    /\ \A i \in DOMAIN heap' :
            i \in DOMAIN heap \/ \E j \in Range(Hot) : heap'[i] \in Expanded(heap[j])
    /\ \A j \in Range(Hot) : \A r \in Expanded(heap[j]) : \E i \in Shown' : heap'[i] = r
    /\ nested' = nested

\* The expansion by the kind of the resource.
ExpandedIs(x) ==
    /\ x.kind = "Net" /\ ~ x.hidden => Expanded(x) = {Subnet(x)}
    /\ x.kind = "Net" /\ x.hidden => Expanded(x) = {}
    /\ x.kind = "ScalingPolicy" /\ Triggered(x) => Expanded(x) = {ScalingAlarm(x)}
    /\ x.kind = "ScalingPolicy" /\ ~ Triggered(x) => Expanded(x) = {}
    /\ x.kind = "SenlinPolicy" => Expanded(x) = Receivers(x) \cup TriggerAlarms(x)
    /\ x.kind = "Monitoring" => Expanded(x) = {PlainAlarm(x, g) : g \in Range(Unfiltered(x))}
    /\ x.kind = "Reservation" /\ x.handled =>
            Expanded(x) = {PlainAlarm(x, g) : g \in Range(x.triggers)}
    /\ x.kind = "Reservation" /\ ~ x.handled => Expanded(x) = {}
    /\ x.kind \notin {"Net", "ScalingPolicy", "SenlinPolicy", "Monitoring", "Reservation"} =>
            Expanded(x) = {}

\* These are the cases of Expanded.
LEMMA ExpandedCases ==
    \A x : ExpandedIs(x)
<1> SUFFICES ASSUME NEW x PROVE ExpandedIs(x)
  OBVIOUS
<1>1. CASE x.kind = "Net"
  BY <1>1 DEF Expanded, ExpandedIs
<1>2. CASE x.kind = "ScalingPolicy"
  BY <1>2 DEF Expanded, ExpandedIs
<1>3. CASE x.kind = "SenlinPolicy"
  BY <1>3 DEF Expanded, ExpandedIs
<1>4. CASE x.kind = "Monitoring"
  BY <1>4 DEF Expanded, ExpandedIs
<1>5. CASE x.kind = "Reservation"
  BY <1>5 DEF Expanded, ExpandedIs
<1>6. CASE x.kind \notin {"Net", "ScalingPolicy", "SenlinPolicy", "Monitoring", "Reservation"}
  BY <1>6 DEF Expanded, ExpandedIs
<1> QED
  BY <1>1, <1>2, <1>3, <1>4, <1>5, <1>6

\* What is made of x.
OfForm(x, name, kind, refs, r) ==
    /\ ~ r.hidden /\ r.policy = x.policy /\ r.name = name /\ r.kind = kind /\ r.refs = refs

\* Of makes it.
LEMMA OfFields ==
    ASSUME NEW x, NEW name, NEW kind, NEW refs
    PROVE  OfForm(x, name, kind, refs, Of(x, name, kind, refs))
BY DEF Of, Resource, OfForm

\* What a resource expands to.
FormOf(x, r) ==
    \/ x.kind = "Net" /\ ~ x.hidden /\ OfForm(x, Append(x.name, "subnet"), "Subnet", {x.name}, r)
    \/ x.kind = "ScalingPolicy" /\ Triggered(x) /\ OfForm(x, AlarmName(x.name), "Alarm", {}, r)
    \/ /\ x.kind = "SenlinPolicy"
       /\ \E tg \in Range(x.targets), g \in Range(x.triggers) :
                OfForm(x, ReceiverName(tg, g), "Receiver", {ClusterName(tg)}, r)
    \/ /\ x.kind = "SenlinPolicy"
       /\ \E g \in Range(x.triggers) :
                OfForm(x, <<g, "alarm">>, "Alarm", {ReceiverName(tg, g) : tg \in Range(x.targets)}, r)
    \/ x.kind = "Monitoring" /\ \E g \in Range(Unfiltered(x)) : OfForm(x, <<g>>, "Alarm", {}, r)
    \/ x.kind = "Reservation" /\ \E g \in Range(x.triggers) : OfForm(x, <<g>>, "Alarm", {}, r)

\* The expansion of a resource is of its policy.
LEMMA ExpandedForm ==
    ASSUME NEW x, NEW r \in Expanded(x)
    PROVE  /\ FormOf(x, r) /\ ~ r.hidden /\ r.policy = x.policy
           /\ r.kind \in {"Subnet", "Alarm", "Receiver"}
<1>1. ExpandedIs(x)
  BY ExpandedCases
<1>2. CASE x.kind = "Net"
  <2>1. ~ x.hidden /\ r = Subnet(x)
    BY <1>1, <1>2, Zenon DEF ExpandedIs
  <2>2. OfForm(x, Append(x.name, "subnet"), "Subnet", {x.name}, r)
    BY <2>1, OfFields DEF Subnet
  <2> QED
    BY <1>2, <2>1, <2>2 DEF FormOf, OfForm
<1>3. CASE x.kind = "ScalingPolicy"
  <2>1. Triggered(x) /\ r = ScalingAlarm(x)
    BY <1>1, <1>3, Zenon DEF ExpandedIs
  <2>2. OfForm(x, AlarmName(x.name), "Alarm", {}, r)
    BY <2>1, OfFields DEF ScalingAlarm
  <2> QED
    BY <1>3, <2>1, <2>2 DEF FormOf, OfForm
<1>4. CASE x.kind = "SenlinPolicy"
  <2>1. r \in Receivers(x) \cup TriggerAlarms(x)
    BY <1>1, <1>4, Zenon DEF ExpandedIs
  <2>2. CASE r \in Receivers(x)
    <3>1. PICK tg \in Range(x.targets), g \in Range(x.triggers) : r = Receiver(x, tg, g)
      BY <2>2 DEF Receivers
    <3>2. OfForm(x, ReceiverName(tg, g), "Receiver", {ClusterName(tg)}, r)
      BY <3>1, OfFields DEF Receiver
    <3> QED
      BY <1>4, <3>1, <3>2 DEF FormOf, OfForm
  <2>3. CASE r \in TriggerAlarms(x)
    <3>1. PICK g \in Range(x.triggers) : r = TriggerAlarm(x, g)
      BY <2>3 DEF TriggerAlarms
    <3>2. OfForm(x, <<g, "alarm">>, "Alarm", {ReceiverName(tg, g) : tg \in Range(x.targets)}, r)
      BY <3>1, OfFields DEF TriggerAlarm
    <3> QED
      BY <1>4, <3>1, <3>2 DEF FormOf, OfForm
  <2> QED
    BY <2>1, <2>2, <2>3
<1>5. CASE x.kind = "Monitoring"
  <2>1. PICK g \in Range(Unfiltered(x)) : r = PlainAlarm(x, g)
    BY <1>1, <1>5, Zenon DEF ExpandedIs
  <2>2. OfForm(x, <<g>>, "Alarm", {}, r)
    BY <2>1, OfFields DEF PlainAlarm
  <2> QED
    BY <1>5, <2>1, <2>2 DEF FormOf, OfForm
<1>6. CASE x.kind = "Reservation"
  <2>1. PICK g \in Range(x.triggers) : r = PlainAlarm(x, g)
    BY <1>1, <1>6, Zenon DEF ExpandedIs
  <2>2. OfForm(x, <<g>>, "Alarm", {}, r)
    BY <2>1, OfFields DEF PlainAlarm
  <2> QED
    BY <1>6, <2>1, <2>2 DEF FormOf, OfForm
<1>7. x.kind \in {"Net", "ScalingPolicy", "SenlinPolicy", "Monitoring", "Reservation"}
  BY <1>1, Zenon DEF ExpandedIs
<1> QED
  BY <1>2, <1>3, <1>4, <1>5, <1>6, <1>7

\* Expand adds the expansions to the list.
LEMMA ExpandOut ==
    ASSUME TypeOK, Expand
    PROVE  ExpandOf
<1>1. PICK made \in Seq(ResourceRecord) :
            /\ ToSet(made) = UNION {Expanded(heap[i]) : i \in Range(Hot)}
            /\ heap' \in Seq(ResourceRecord) /\ Len(heap') = Len(heap) + Len(made)
            /\ \A i \in 1..Len(heap) : heap'[i] = heap[i]
            /\ \A k \in 1..Len(made) : heap'[Len(heap) + k] = made[k]
            /\ Range(Hot') = Range(Hot) \cup (Len(heap) + 1 .. Len(heap'))
  BY ExpandResult
<1>2. PICK n \in Nat : n = Len(heap) /\ DOMAIN heap = 1..n /\ Range(Hot) \subseteq 1..n
  BY ListsTyped
<1>3. PICK m \in Nat : m = Len(made) /\ DOMAIN made = 1..m
  BY <1>1
<1>4. PICK h : h = heap'
  OBVIOUS
<1>5. /\ Len(h) = n + m /\ DOMAIN h = 1..(n + m) /\ \A i \in 1..n : h[i] = heap[i]
      /\ \A k \in 1..m : h[n + k] = made[k]
      /\ Range(Hot') = Range(Hot) \cup (n + 1 .. n + m)
  <2>1. h \in Seq(ResourceRecord) /\ Len(h) = n + m
    BY <1>1, <1>2, <1>3, <1>4
  <2>2. DOMAIN h = 1..(n + m)
    BY <2>1
  <2> QED
    BY <1>1, <1>2, <1>3, <1>4, <2>1, <2>2
<1>6. DOMAIN h = (1..n) \cup (n + 1 .. n + m) /\ (1..n) \cap (n + 1 .. n + m) = {}
  BY <1>5
<1>7. \A i \in n + 1 .. n + m : \E j \in Range(Hot) : h[i] \in Expanded(heap[j])
  <2> SUFFICES ASSUME NEW i \in n + 1 .. n + m
               PROVE  \E j \in Range(Hot) : h[i] \in Expanded(heap[j])
    OBVIOUS
  <2>1. PICK k \in 1..m : i = n + k
    <3>1. i - n \in 1..m /\ i = n + (i - n)
      OBVIOUS
    <3> QED
      BY <3>1
  <2>2. h[i] \in ToSet(made)
    BY <1>3, <1>5, <2>1 DEF ToSet
  <2> QED
    BY <1>1, <2>2
<1>8. Shown' = {i \in Range(Hot') : ~ h[i].hidden}
  BY <1>4 DEF Shown
<1>9. \A i \in n + 1 .. n + m : i \in Shown'
  BY <1>5, <1>7, <1>8, ExpandedForm
<1>10. \A i \in 1..n : i \in Shown' <=> i \in Shown
  BY <1>2, <1>5, <1>6, <1>8 DEF Shown
<1>11. Shown \subseteq 1..n
  BY <1>2 DEF Shown
<1>12. Shown' \subseteq DOMAIN h
  BY <1>2, <1>5, <1>6, <1>8
<1>13. \A j \in Range(Hot) : \A r \in Expanded(heap[j]) : \E i \in Shown' : h[i] = r
  <2> SUFFICES ASSUME NEW j \in Range(Hot), NEW r \in Expanded(heap[j])
               PROVE  \E i \in Shown' : h[i] = r
    OBVIOUS
  <2>1. r \in ToSet(made)
    BY <1>1
  <2>2. PICK k \in 1..m : made[k] = r
    BY <1>3, <2>1 DEF ToSet
  <2>3. n + k \in n + 1 .. n + m
    OBVIOUS
  <2> QED
    BY <1>5, <1>9, <2>2, <2>3
<1>14. nested' = nested
  BY DEF Expand
<1>15. Shown \subseteq Shown'
  BY <1>10, <1>11
<1>16. DOMAIN heap \subseteq DOMAIN h /\ \A i \in DOMAIN heap : h[i] = heap[i]
  BY <1>2, <1>5, <1>6
<1>17. \A i \in DOMAIN heap : i \in Shown' => i \in Shown
  BY <1>2, <1>10
<1>18. \A i \in DOMAIN h : i \in DOMAIN heap \/ \E j \in Range(Hot) : h[i] \in Expanded(heap[j])
  BY <1>2, <1>6, <1>7
<1> QED
  BY <1>4, <1>12, <1>13, <1>14, <1>15, <1>16, <1>17, <1>18, Zenon DEF ExpandOf
-----------------------------------------------------------------------------
(* The list before the expansion.                                          *)

\* What the policy at c makes.
MadeFor(t, c, r) ==
    \/ t[c].kind = "ScalingPolicy" /\ GroupOf(t[c], r)
    \/ t[c].kind = "ScalingPolicy" /\ t[c].increment # 0 /\ OppositeOf(t[c], r)
    \/ t[c].kind = "SenlinPolicy" /\ MadeByCluster(t, c, r)

\* Every policy is handled; those with alarms are in the list.
Listed(t) ==
    /\ Given(t, heap) /\ Met(t)
    /\ \A i \in DOMAIN t : t[i].kind \in Policies => heap[i].handled
    /\ \A i \in DOMAIN t :
            /\ t[i].kind \in {"Monitoring", "Reservation"} => i \in Range(Hot)
            /\ t[i].kind \in Scalers => i \in Range(Hot)
            /\ t[i].kind = "SenlinPolicy" => Triggered(t[i])
    /\ \A i \in DOMAIN heap \ DOMAIN t : \E c \in DOMAIN t : MadeFor(t, c, heap[i])

\* If the expansion succeeds, it has such a list.
LEMMA WalkEnds ==
    ASSUME Regular, TypeOK, NEW t \in Topologies, Walking(t), stage = "expansion"
    PROVE  Listed(t)
<1>1. Given(t, heap) /\ Met(t) /\ pos > Len(Walked)
  BY DEF Walking, Met
<1>2. PICK n \in Nat : n = Len(t) /\ DOMAIN t = 1..n
  BY TopologyFacts
<1>3. pos \in Nat
  BY DEF TypeOK
<1>4. Walked = Identity(t) => \A i \in DOMAIN t : i < pos
  <2> SUFFICES ASSUME Walked = Identity(t), NEW i \in DOMAIN t PROVE i < pos
    OBVIOUS
  <2>1. PICK l : l = Walked
    OBVIOUS
  <2>2. l = [k \in 1..n |-> k]
    BY <1>2, <2>1 DEF Identity
  <2>3. Len(l) = n
    BY <2>2
  <2> QED
    BY <1>1, <1>2, <1>3, <2>1, <2>3
<1>6. CASE Plain(t)
  <2>1. Range(Hot) = DOMAIN t /\ Walked = Identity(t) /\ DOMAIN heap = DOMAIN t
    BY <1>6, PlainHot DEF Plain, Walked
  <2>2. \A i \in DOMAIN t : heap[i].handled /\ t[i].kind \notin Scalers
    BY <1>4, <1>6, <2>1 DEF Plain
  <2>3. \A i \in DOMAIN t : t[i].kind # "SenlinPolicy"
    BY <2>2 DEF Scalers
  <2> QED
    BY <1>1, <2>1, <2>2, <2>3 DEF Listed, Policies, Scalers
<1>7. CASE \E c \in DOMAIN t : Scaled(t, c)
  <2>1. PICK c \in DOMAIN t : Scaled(t, c)
    BY <1>7
  <2>2. /\ t[c].kind = "ScalingPolicy" /\ \A i \in DOMAIN t : heap[i].handled <=> i < pos
        /\ Walked = Identity(t)
        /\ DOMAIN heap = 1 .. n + IF t[c].increment = 0 THEN 1 ELSE 2
        /\ Range(Hot) = Outside(t) \cup (DOMAIN heap \ DOMAIN t)
        /\ GroupOf(t[c], heap[n + 1])
        /\ t[c].increment # 0 => OppositeOf(t[c], heap[n + 2])
    BY <1>2, <2>1 DEF Scaled
  <2>3. \A i \in DOMAIN t : heap[i].handled
    BY <1>4, <2>2
  <2>4. \A i \in DOMAIN heap \ DOMAIN t : i = n + 1 \/ (t[c].increment # 0 /\ i = n + 2)
    BY <1>2, <2>2
  <2>5. \A i \in DOMAIN heap \ DOMAIN t : MadeFor(t, c, heap[i])
    BY <2>2, <2>4 DEF MadeFor
  <2>6. \A i \in DOMAIN t : t[i].kind \in Scalers => i = c
    BY <2>2, ScalerFacts DEF Scalers
  <2>7. \A i \in DOMAIN t :
            t[i].kind \in {"ScalingPolicy", "Monitoring", "Reservation"} => i \in Range(Hot)
    BY <2>2 DEF Outside
  <2>8. \A i \in DOMAIN t : t[i].kind \in {"Monitoring", "Reservation"} => i \in Range(Hot)
    BY <2>7
  <2>9. \A i \in DOMAIN t : t[i].kind \in Scalers => i \in Range(Hot)
    BY <2>2, <2>6, <2>7
  <2>10. \A i \in DOMAIN t : t[i].kind # "SenlinPolicy"
    BY <2>2, <2>6 DEF Scalers
  <2> QED
    BY <1>1, <2>3, <2>5, <2>8, <2>9, <2>10 DEF Listed
<1>8. CASE \E c \in DOMAIN t : Clustered(t, c)
  <2>1. PICK c \in DOMAIN t : Clustered(t, c)
    BY <1>8
  <2>2. /\ t[c].kind = "SenlinPolicy" /\ \A i \in DOMAIN t : i <= c => heap[i].handled
        /\ Range(Hot) = (DOMAIN heap \ DOMAIN t) \cup Remaining(t, c)
        /\ \A i \in DOMAIN heap \ DOMAIN t : MadeByCluster(t, c, heap[i])
    BY <2>1 DEF Clustered
  <2>3. \A i \in DOMAIN t : t[i].kind \in Policies => heap[i].handled
    <3> SUFFICES ASSUME NEW i \in DOMAIN t, t[i].kind \in Policies PROVE heap[i].handled
      OBVIOUS
    <3>1. ~ (i > c)
      <4>1. i > c => t[i].kind \in Nodes
        BY <2>2 DEF Regular, ClusterFits
      <4> QED
        BY <4>1 DEF Policies, Nodes
    <3>2. i \in Nat /\ c \in Nat
      BY <1>2
    <3>3. i <= c
      BY <3>1, <3>2
    <3> QED
      BY <2>2, <3>3
  <2>4. \A i \in DOMAIN heap \ DOMAIN t : MadeFor(t, c, heap[i])
    BY <2>2 DEF MadeFor
  <2>5. \A i \in DOMAIN t : t[i].kind \in Policies => i \in Range(Hot)
    BY <2>2 DEF Remaining, Taken, Policies
  <2>6. \A i \in DOMAIN t : t[i].kind \in {"Monitoring", "Reservation"} => i \in Range(Hot)
    BY <2>5 DEF Policies
  <2>7. \A i \in DOMAIN t : t[i].kind \in Scalers => i \in Range(Hot)
    BY <2>5 DEF Scalers, Policies
  <2>8. \A i \in DOMAIN t : t[i].kind = "SenlinPolicy" => Triggered(t[i])
    BY <2>1, <2>2, ScalerFacts DEF Scalers, Clustered
  <2> QED
    BY <1>1, <2>3, <2>4, <2>6, <2>7, <2>8 DEF Listed
<1> QED
  BY <1>1, <1>6, <1>7, <1>8 DEF Met

\* What the list has of the given resources.
LEMMA ListedGiven ==
    ASSUME Regular, TypeOK, NEW t \in Topologies, Listed(t), NEW i \in DOMAIN t
    PROVE  /\ heap[i].kind = t[i].kind /\ heap[i].policy = t[i].policy /\ SameFields(heap[i], t[i])
           /\ heap[i].triggers = t[i].triggers /\ heap[i].targets = t[i].targets
           /\ heap[i].hidden = t[i].hidden /\ heap[i] \in ResourceRecord /\ i \in DOMAIN heap
           /\ t[i].kind \in Nodes \cup {"ServerGroup"} => heap[i].name = t[i].name
           /\ t[i].kind \in {"Monitoring", "Reservation"} =>
                heap[i].name = FirstAlarm(t[i]) /\ heap[i].refs = {} /\ heap[i].handled
           /\ t[i].kind = "ScalingPolicy" =>
                /\ heap[i].name = IF t[i].increment = 0 THEN t[i].name
                                  ELSE Append(t[i].name, Suffix(t[i].increment))
                /\ heap[i].refs = {Append(t[i].name, "group")}
           /\ t[i].kind = "SenlinPolicy" =>
                /\ heap[i].name = Append(t[i].name, t[i].triggers[Len(t[i].triggers)])
                /\ heap[i].refs = ClusterNames(t[i])
           /\ t[i].kind = "ServerGroup" => heap[i].refs = {}
<1>1. Given(t, heap) /\ (t[i].kind \in Policies => heap[i].handled)
  BY DEF Listed
<1>2. /\ heap[i].kind = t[i].kind /\ heap[i].policy = t[i].policy /\ SameFields(heap[i], t[i])
      /\ heap[i].triggers = t[i].triggers /\ heap[i].targets = t[i].targets
      /\ heap[i].hidden = t[i].hidden /\ i \in DOMAIN heap
      /\ t[i].kind \in Nodes \cup {"ServerGroup"} => heap[i].name = t[i].name
      /\ heap[i].name = NameNow(t[i], heap[i].handled) /\ GivenOne(t, heap, i)
  BY <1>1, GivenFacts
<1>3. heap[i] \in ResourceRecord
  BY <1>2, ListsTyped
<1>4. t[i].kind \in Policies => heap[i].refs = PolicyRefs(t[i], heap[i].handled)
  BY <1>2 DEF GivenOne
<1>5. t[i].kind \in {"Monitoring", "Reservation"} =>
        heap[i].name = FirstAlarm(t[i]) /\ heap[i].refs = {} /\ heap[i].handled
  <2> SUFFICES ASSUME t[i].kind \in {"Monitoring", "Reservation"}
               PROVE  heap[i].name = FirstAlarm(t[i]) /\ heap[i].refs = {} /\ heap[i].handled
    OBVIOUS
  <2>1. t[i].kind \in Policies /\ heap[i].handled
    BY <1>1 DEF Policies
  <2>2. t[i].name = <<t[i].policy>>
    BY <2>1, TopologyFacts
  <2>3. NameNow(t[i], TRUE) = FirstAlarm(t[i])
    <3>1. CASE Triggered(t[i])
      BY <3>1 DEF NameNow, FirstAlarm
    <3>2. CASE ~ Triggered(t[i])
      BY <2>2, <3>2 DEF NameNow, FirstAlarm
    <3> QED
      BY <3>1, <3>2
  <2>4. heap[i].name = FirstAlarm(t[i])
    BY <1>2, <2>1, <2>3 DEF NameNow
  <2> QED
    BY <1>4, <2>1, <2>4 DEF PolicyRefs
<1>6. t[i].kind = "ScalingPolicy" =>
        /\ heap[i].name = IF t[i].increment = 0 THEN t[i].name
                          ELSE Append(t[i].name, Suffix(t[i].increment))
        /\ heap[i].refs = {Append(t[i].name, "group")}
  BY <1>1, <1>2, <1>4 DEF NameNow, PolicyRefs, Policies
<1>7. t[i].kind = "SenlinPolicy" =>
        /\ heap[i].name = Append(t[i].name, t[i].triggers[Len(t[i].triggers)])
        /\ heap[i].refs = ClusterNames(t[i])
  BY <1>1, <1>2, <1>4 DEF NameNow, PolicyRefs, Policies
<1>8. t[i].kind = "ServerGroup" => heap[i].refs = {}
  BY <1>1, <1>4 DEF PolicyRefs, Policies
<1> QED
  BY <1>2, <1>3, <1>5, <1>6, <1>7, <1>8
-----------------------------------------------------------------------------
(* What the expansion adds.                                                *)

\* What the resource of s expands to.
GrownFrom(s, r) ==
    \/ s.kind = "Net" /\ ~ s.hidden /\ OfForm(s, Append(s.name, "subnet"), "Subnet", {s.name}, r)
    \/ s.kind = "ScalingPolicy" /\ Triggered(s) /\ OfForm(s, <<s.policy, "alarm">>, "Alarm", {}, r)
    \/ /\ s.kind = "SenlinPolicy"
       /\ \E tg \in Range(s.targets), g \in Range(s.triggers) :
                OfForm(s, ReceiverName(tg, g), "Receiver", {ClusterName(tg)}, r)
    \/ /\ s.kind = "SenlinPolicy"
       /\ \E g \in Range(s.triggers) :
                OfForm(s, <<g, "alarm">>, "Alarm", {ReceiverName(tg, g) : tg \in Range(s.targets)}, r)
    \/ /\ s.kind \in {"Monitoring", "Reservation"}
       /\ \E g \in Range(s.triggers) : OfForm(s, <<g>>, "Alarm", {}, r)

\* The alarm of a scaling policy, whose name has a suffix or not.
LEMMA ScalingAlarmName ==
    ASSUME Regular, NEW t \in Topologies, NEW c \in DOMAIN t, t[c].kind = "ScalingPolicy"
    PROVE  /\ AlarmName(t[c].name) = <<t[c].policy, "alarm">>
           /\ \A a : AlarmName(Append(t[c].name, Suffix(a))) = <<t[c].policy, "alarm">>
<1>1. PICK p : p = t[c].policy
  OBVIOUS
<1>2. t[c].name = <<p>> /\ p # NoPolicy
  BY <1>1, TopologyFacts DEF Policies
<1>3. p \in Word
  BY <1>1, <1>2, TopologyFacts DEF ResourceRecord
<1>4. t[c].name \in TakenNames(t[c])
  BY NamesFacts
<1>5. Last(t[c].name) \notin MadeOf
  BY <1>4, NamesFacts
<1>6. Last(<<p>>) = p
  BY DEF Last
<1>7. p \notin MadeOf
  BY <1>2, <1>5, <1>6
<1> QED
  BY <1>1, <1>2, <1>3, <1>7, SuffixDropped

\* The expansion of what the list has is that of a given resource.
LEMMA Sources ==
    ASSUME Regular, TypeOK, NEW t \in Topologies, Listed(t), NEW j \in Range(Hot),
           NEW r \in Expanded(heap[j])
    PROVE  \E k \in DOMAIN t : GrownFrom(t[k], r) /\ (r.kind = "Subnet" => k = j)
<1>1. PICK x : x = heap[j]
  OBVIOUS
<1>2. FormOf(x, r) /\ r \in Expanded(x) /\ x.kind \in {"Net", "ScalingPolicy", "SenlinPolicy",
                                                      "Monitoring", "Reservation"}
  <2>1. FormOf(x, r)
    BY <1>1, ExpandedForm
  <2> QED
    BY <1>1, <2>1 DEF FormOf
<1>3. j \in DOMAIN heap
  BY ListsTyped
<1>4. CASE j \in DOMAIN t
  <2>1. PICK s : s = t[j]
    OBVIOUS
  <2>2. /\ x.kind = s.kind /\ x.policy = s.policy /\ x.triggers = s.triggers
        /\ x.targets = s.targets /\ x.hidden = s.hidden /\ x \in ResourceRecord
        /\ s.kind \in Nodes \cup {"ServerGroup"} => x.name = s.name
        /\ s.kind = "ScalingPolicy" =>
                x.name = IF s.increment = 0 THEN s.name ELSE Append(s.name, Suffix(s.increment))
    BY <1>1, <1>4, <2>1, ListedGiven
  <2>3. \A name, kind, refs : OfForm(x, name, kind, refs, r) => OfForm(s, name, kind, refs, r)
    BY <2>2 DEF OfForm
  <2>4. CASE x.kind = "Net"
    <3>1. ~ x.hidden /\ OfForm(x, Append(x.name, "subnet"), "Subnet", {x.name}, r)
      BY <1>2, <2>4 DEF FormOf
    <3>2. x.name = s.name
      BY <2>2, <2>4 DEF Nodes
    <3>3. s.kind = "Net" /\ ~ s.hidden /\ OfForm(s, Append(s.name, "subnet"), "Subnet", {s.name}, r)
      BY <2>2, <2>3, <2>4, <3>1, <3>2
    <3>4. GrownFrom(s, r)
      BY <3>3 DEF GrownFrom
    <3> QED
      BY <1>4, <2>1, <3>4
  <2>5. CASE x.kind = "ScalingPolicy"
    <3>1. Triggered(x) /\ OfForm(x, AlarmName(x.name), "Alarm", {}, r)
      BY <1>2, <2>5 DEF FormOf
    <3>2. AlarmName(x.name) = <<s.policy, "alarm">>
      <4>1. AlarmName(s.name) = <<s.policy, "alarm">>
            /\ \A a : AlarmName(Append(s.name, Suffix(a))) = <<s.policy, "alarm">>
        BY <1>4, <2>1, <2>2, <2>5, ScalingAlarmName
      <4> QED
        BY <2>2, <2>5, <4>1, Zenon
    <3>3. s.kind = "ScalingPolicy" /\ Triggered(s)
          /\ OfForm(s, <<s.policy, "alarm">>, "Alarm", {}, r) /\ r.kind = "Alarm"
      BY <2>2, <2>3, <2>5, <3>1, <3>2 DEF Triggered, OfForm
    <3>4. GrownFrom(s, r)
      BY <3>3 DEF GrownFrom
    <3> QED
      BY <1>4, <2>1, <3>3, <3>4
  <2>6. CASE x.kind \in {"SenlinPolicy", "Monitoring", "Reservation"}
    <3>1. Range(Unfiltered(x)) \subseteq Range(x.triggers)
      BY <2>2, PartsTyped
    <3>2. /\ x.kind = "SenlinPolicy" =>
             \/ \E tg \in Range(s.targets), g \in Range(s.triggers) :
                    OfForm(s, ReceiverName(tg, g), "Receiver", {ClusterName(tg)}, r)
             \/ \E g \in Range(s.triggers) :
                    OfForm(s, <<g, "alarm">>, "Alarm",
                           {ReceiverName(tg, g) : tg \in Range(s.targets)}, r)
      BY <1>2, <2>2, <2>3, Zenon DEF FormOf
    <3>3. x.kind \in {"Monitoring", "Reservation"} =>
                \E g \in Range(s.triggers) : OfForm(s, <<g>>, "Alarm", {}, r)
      BY <1>2, <2>2, <2>3, <3>1 DEF FormOf
    <3>4. GrownFrom(s, r)
      BY <2>2, <2>6, <3>2, <3>3 DEF GrownFrom
    <3>5. r.kind # "Subnet"
      BY <2>6, <3>2, <3>3 DEF OfForm
    <3> QED
      BY <1>4, <2>1, <3>4, <3>5
  <2> QED
    BY <1>2, <2>4, <2>5, <2>6
<1>5. CASE j \notin DOMAIN t
  <2>1. PICK c \in DOMAIN t : MadeFor(t, c, x)
    BY <1>1, <1>3, <1>5 DEF Listed
  <2>2. t[c].kind = "ScalingPolicy" /\ OppositeOf(t[c], x)
    BY <1>2, <2>1 DEF MadeFor, GroupOf, MadeByCluster, ProfileOf, ClusterOf, TriggerOf
  <2>3. PICK s : s = t[c]
    OBVIOUS
  <2>4. /\ SameFields(x, s) /\ x.name = Append(s.name, Suffix(- s.increment))
        /\ x.kind = "ScalingPolicy"
    BY <2>2, <2>3 DEF OppositeOf, SameFields
  <2>5. Triggered(x) /\ OfForm(x, AlarmName(x.name), "Alarm", {}, r)
    BY <1>2, <2>4 DEF FormOf
  <2>6. AlarmName(x.name) = <<s.policy, "alarm">>
    <3>1. \A a : AlarmName(Append(s.name, Suffix(a))) = <<s.policy, "alarm">>
      BY <2>2, <2>3, ScalingAlarmName
    <3> QED
      BY <2>4, <3>1, Zenon
  <2>7. Triggered(s) /\ OfForm(s, <<s.policy, "alarm">>, "Alarm", {}, r) /\ r.kind = "Alarm"
    BY <2>4, <2>5, <2>6 DEF SameFields, Triggered, OfForm
  <2>8. GrownFrom(s, r)
    BY <2>2, <2>3, <2>7 DEF GrownFrom
  <2> QED
    BY <2>3, <2>7, <2>8
<1> QED
  BY <1>4, <1>5

\* The alarms and receivers of the policy s.
Grown(s) ==
    /\ s.kind = "ScalingPolicy" /\ Triggered(s) =>
            \E i \in Shown : OfForm(s, <<s.policy, "alarm">>, "Alarm", {}, heap[i])
    /\ s.kind = "SenlinPolicy" =>
            \A g \in Range(s.triggers) :
                /\ \A tg \in Range(s.targets) : ReceiverName(tg, g) \in ShownNames
                /\ \E i \in Shown : heap[i].name = <<g, "alarm">> /\ heap[i].policy = s.policy
                                    /\ heap[i].kind = "Alarm"
    /\ s.kind \in {"Monitoring", "Reservation"} =>
            /\ \E i \in Shown : heap[i].name = FirstAlarm(s) /\ heap[i].policy = s.policy
                                    /\ heap[i].kind \in AlarmKinds
            /\ \A g \in Range(s.triggers) :
                \E i \in Shown : heap[i].name = <<g>> /\ heap[i].policy = s.policy
                                    /\ heap[i].kind \in AlarmKinds

\* A list is of something if it is not empty, and then its first is.
LEMMA SomeTrigger ==
    ASSUME NEW s \in ResourceRecord
    PROVE  /\ Triggered(s) <=> Range(s.triggers) # {}
           /\ Triggered(s) => s.triggers[1] \in Range(s.triggers)
<1>1. PICK l : l = s.triggers
  OBVIOUS
<1>2. l \in Seq(Word)
  BY <1>1, PartsTyped
<1>3. PICK n \in Nat : n = Len(l) /\ DOMAIN l = 1..n
  BY <1>2
<1>4. n # 0 => 1 \in DOMAIN l
  BY <1>3
<1>5. n # 0 => l[1] \in Range(l)
  BY <1>4 DEF Range
<1>6. n = 0 => Range(l) = {}
  BY <1>3 DEF Range
<1> QED
  BY <1>1, <1>3, <1>5, <1>6 DEF Triggered

\* The first element of a list, and the others.
LEMMA FirstOrTail ==
    ASSUME NEW R, NEW s \in Seq(R), Len(s) # 0, NEW x \in Range(s)
    PROVE  x = s[1] \/ x \in Range(Tail(s))
<1>1. PICK n \in Nat : n = Len(s)
  OBVIOUS
<1>2. PICK i \in 1..n : s[i] = x
  BY <1>1 DEF Range
<1>3. CASE i = 1
  BY <1>2, <1>3
<1>4. CASE i # 1
  <2>1. PICK u : u = Tail(s)
    OBVIOUS
  <2>2. s # <<>>
    OBVIOUS
  <2>3. u \in Seq(R) /\ Len(u) = n - 1 /\ \A k \in 1..(n - 1) : u[k] = s[k + 1]
    BY <1>1, <2>1, <2>2
  <2>4. PICK k \in 1..(n - 1) : i = k + 1
    <3>1. i - 1 \in 1..(n - 1) /\ i = (i - 1) + 1
      BY <1>2, <1>4
    <3> QED
      BY <3>1
  <2>5. k \in DOMAIN u /\ u[k] = x
    BY <1>2, <2>3, <2>4
  <2> QED
    BY <2>1, <2>5 DEF Range
<1> QED
  BY <1>3, <1>4

\* Every policy has its alarms, and every cluster its receivers.
LEMMA GrowsAll ==
    ASSUME Regular, TypeOK, NEW t \in Topologies, Listed(t), ExpandOf, NEW c \in DOMAIN t
    PROVE  Grown(t[c])'
<1>1. PICK s, x, h : s = t[c] /\ x = heap[c] /\ h = heap'
  OBVIOUS
<1>2. /\ x.kind = s.kind /\ x.policy = s.policy /\ x.triggers = s.triggers
      /\ x.targets = s.targets /\ x \in ResourceRecord /\ c \in DOMAIN heap
      /\ s.kind = "ScalingPolicy" =>
            x.name = IF s.increment = 0 THEN s.name ELSE Append(s.name, Suffix(s.increment))
      /\ s.kind \in {"Monitoring", "Reservation"} => x.name = FirstAlarm(s) /\ x.handled
  BY <1>1, ListedGiven
<1>3. /\ s.kind \in {"Monitoring", "Reservation"} => c \in Range(Hot)
      /\ s.kind \in Scalers => c \in Range(Hot)
  BY <1>1 DEF Listed
<1>4. ExpandedIs(x)
  BY ExpandedCases
<1>5. /\ Shown \subseteq Shown' /\ \A i \in DOMAIN heap : h[i] = heap[i]
      /\ c \in Range(Hot) => \A r \in Expanded(x) : \E i \in Shown' : h[i] = r
  BY <1>1, Zenon DEF ExpandOf
<1>6. ShownNames' = {h[i].name : i \in Shown'}
  BY <1>1 DEF ShownNames
<1>7. \A name, kind, refs, r : OfForm(x, name, kind, refs, r) => OfForm(s, name, kind, refs, r)
  BY <1>2 DEF OfForm
<1>8. ASSUME s.kind = "ScalingPolicy", Triggered(s)
      PROVE  \E i \in Shown' : OfForm(s, <<s.policy, "alarm">>, "Alarm", {}, h[i])
  <2>1. Expanded(x) = {ScalingAlarm(x)} /\ c \in Range(Hot)
    BY <1>2, <1>3, <1>4, <1>8 DEF ExpandedIs, Triggered, Scalers
  <2>2. OfForm(x, AlarmName(x.name), "Alarm", {}, ScalingAlarm(x))
    BY OfFields DEF ScalingAlarm
  <2>3. AlarmName(x.name) = <<s.policy, "alarm">>
    <3>1. AlarmName(s.name) = <<s.policy, "alarm">>
          /\ \A a : AlarmName(Append(s.name, Suffix(a))) = <<s.policy, "alarm">>
      BY <1>1, <1>8, ScalingAlarmName
    <3> QED
      BY <1>2, <1>8, <3>1, Zenon
  <2>4. PICK i \in Shown' : h[i] = ScalingAlarm(x)
    BY <1>5, <2>1
  <2>5. OfForm(s, <<s.policy, "alarm">>, "Alarm", {}, h[i])
    BY <1>7, <2>2, <2>3, <2>4
  <2> QED
    BY <2>5
<1>9. ASSUME s.kind = "SenlinPolicy", NEW g \in Range(s.triggers)
      PROVE  /\ \A tg \in Range(s.targets) : ReceiverName(tg, g) \in ShownNames'
             /\ \E i \in Shown' : h[i].name = <<g, "alarm">> /\ h[i].policy = s.policy
                                    /\ h[i].kind = "Alarm"
  <2>1. Expanded(x) = Receivers(x) \cup TriggerAlarms(x) /\ c \in Range(Hot)
    BY <1>2, <1>3, <1>4, <1>9 DEF ExpandedIs, Scalers
  <2>2. ASSUME NEW tg \in Range(s.targets) PROVE ReceiverName(tg, g) \in ShownNames'
    <3>1. PICK r : r = Receiver(x, tg, g)
      OBVIOUS
    <3>2. r \in Expanded(x)
      BY <1>2, <2>1, <3>1 DEF Receivers
    <3>3. r.name = ReceiverName(tg, g)
      BY <3>1, OfFields DEF Receiver, OfForm
    <3> QED
      BY <1>5, <1>6, <2>1, <3>2, <3>3
  <2>3. PICK r : r = TriggerAlarm(x, g)
    OBVIOUS
  <2>4. r \in Expanded(x)
    BY <1>2, <1>9, <2>1, <2>3 DEF TriggerAlarms
  <2>5. r.name = <<g, "alarm">> /\ r.policy = s.policy /\ r.kind = "Alarm"
    BY <1>2, <2>3, OfFields DEF TriggerAlarm, OfForm
  <2>6. PICK i \in Shown' : h[i] = r
    BY <1>5, <2>1, <2>4
  <2> QED
    BY <2>2, <2>5, <2>6
<1>11. ASSUME s.kind \in {"Monitoring", "Reservation"}
       PROVE  \E i \in Shown' : h[i].name = FirstAlarm(s) /\ h[i].policy = s.policy
                                    /\ h[i].kind \in AlarmKinds
  <2>1. ~ x.hidden
    <3>1. s.kind # "Net"
      BY <1>11
    <3> QED
      BY <1>1, <3>1, ListedGiven, TopologyFacts
  <2>2. c \in Shown
    BY <1>1, <1>2, <1>3, <1>11, <2>1 DEF Shown
  <2>3. c \in Shown' /\ h[c] = x
    BY <1>1, <1>2, <1>5, <2>2
  <2> QED
    BY <1>2, <1>11, <2>3 DEF AlarmKinds
<1>10. ASSUME s.kind \in {"Monitoring", "Reservation"}, NEW g \in Range(s.triggers)
       PROVE  \E i \in Shown' : h[i].name = <<g>> /\ h[i].policy = s.policy
                                    /\ h[i].kind \in AlarmKinds
  <2>1. c \in Range(Hot) /\ Triggered(s) /\ x.handled
    <3>1. s \in ResourceRecord
      BY <1>1, TopologyFacts
    <3> QED
      BY <1>2, <1>3, <1>10, <3>1, SomeTrigger
  <2>2. ASSUME PlainAlarm(x, g) \in Expanded(x)
        PROVE  \E i \in Shown' : h[i].name = <<g>> /\ h[i].policy = s.policy
                                    /\ h[i].kind \in AlarmKinds
    <3>1. PICK r : r = PlainAlarm(x, g)
      OBVIOUS
    <3>2. r.name = <<g>> /\ r.policy = s.policy /\ r.kind \in AlarmKinds
      BY <1>2, <3>1, OfFields DEF PlainAlarm, OfForm, AlarmKinds
    <3> QED
      BY <1>5, <2>1, <2>2, <3>1, <3>2
  <2>3. CASE s.kind = "Reservation"
    <3>1. Expanded(x) = {PlainAlarm(x, y) : y \in Range(x.triggers)}
      BY <1>2, <1>4, <2>1, <2>3, Zenon DEF ExpandedIs
    <3> QED
      BY <1>2, <1>10, <2>2, <3>1
  <2>4. CASE s.kind = "Monitoring"
    <3>1. PICK l : l = s.triggers
      OBVIOUS
    <3>2. l \in Seq(Word) /\ Len(l) # 0 /\ g \in Range(l)
      BY <1>2, <1>10, <2>1, <3>1, PartsTyped DEF Triggered
    <3>3. g = l[1] \/ g \in Range(Tail(l))
      BY <3>2, FirstOrTail
    <3>4. CASE g = l[1]
      <4>1. FirstAlarm(s) = <<g>>
        BY <2>1, <3>1, <3>4 DEF FirstAlarm
      <4> QED
        BY <1>10, <1>11, <4>1
    <3>5. CASE g \in Range(Tail(l))
      <4>1. Unfiltered(x) = Tail(l)
        BY <1>2, <2>1, <3>1, <3>2 DEF Unfiltered
      <4>2. PlainAlarm(x, g) \in Expanded(x)
        BY <1>2, <1>4, <2>4, <3>5, <4>1 DEF ExpandedIs
      <4> QED
        BY <2>2, <4>2
    <3> QED
      BY <3>3, <3>4, <3>5
  <2> QED
    BY <1>10, <2>3, <2>4
<1> QED
  BY <1>1, <1>8, <1>9, <1>10, <1>11 DEF Grown
-----------------------------------------------------------------------------
(* The properties of the list after the expansion.                         *)

\* What is shown was shown before, or the expansion made it.
LEMMA ShownEither ==
    ASSUME Regular, TypeOK, NEW t \in Topologies, Listed(t), ExpandOf, NEW i \in Shown'
    PROVE  \/ i \in Shown /\ i \in DOMAIN heap /\ heap'[i] = heap[i]
           \/ \E k \in DOMAIN t :
                GrownFrom(t[k], heap'[i]) /\ (heap'[i].kind = "Subnet" => k \in Range(Hot))
<1>1. PICK h, S : h = heap' /\ S = Shown'
  OBVIOUS
<1>2. /\ \A k \in DOMAIN heap : h[k] = heap[k]
      /\ S \subseteq DOMAIN h /\ \A k \in DOMAIN heap : k \in S => k \in Shown
      /\ \A k \in DOMAIN h :
            k \in DOMAIN heap \/ \E j \in Range(Hot) : h[k] \in Expanded(heap[j])
  BY <1>1, Zenon DEF ExpandOf
<1>3. CASE i \in DOMAIN heap
  BY <1>1, <1>2, <1>3
<1>4. CASE i \notin DOMAIN heap
  <2>1. PICK j \in Range(Hot) : h[i] \in Expanded(heap[j])
    BY <1>1, <1>2, <1>4
  <2> QED
    BY <1>1, <2>1, Sources
<1> QED
  BY <1>3, <1>4

\* The last part of a name.
LEMMA LastPart ==
    ASSUME NEW x \in Name, NEW w \in Word
    PROVE  Append(x, w) # <<>> /\ Last(Append(x, w)) = w
BY AppendApart DEF Name

\* The name and the policy of a given resource.
LEMMA OwnShown ==
    ASSUME Regular, TypeOK, NEW t \in Topologies, Listed(t), NEW i \in DOMAIN t
    PROVE  OwnForm(t, heap[i]) \/ ScalerForm(t, heap[i])
<1>1. PICK s, x : s = t[i] /\ x = heap[i]
  OBVIOUS
<1>2. /\ x.kind = s.kind /\ x.policy = s.policy /\ x.triggers = s.triggers /\ x \in ResourceRecord
      /\ s.kind \in Nodes \cup {"ServerGroup"} => x.name = s.name
      /\ s.kind \in {"Monitoring", "Reservation"} => x.name = FirstAlarm(s)
      /\ s.kind = "ScalingPolicy" =>
            x.name = IF s.increment = 0 THEN s.name ELSE Append(s.name, Suffix(s.increment))
      /\ s.kind = "SenlinPolicy" => x.name = Append(s.name, s.triggers[Len(s.triggers)])
  BY <1>1, ListedGiven
<1>3. s \in ResourceRecord /\ s.kind \in Nodes \cup Policies /\ s.name \in TakenNames(s)
  BY <1>1, TopologyFacts, NamesFacts
<1>4. s.kind = "SenlinPolicy" => Triggered(s)
  BY <1>1 DEF Listed
<1>5. Triggered(s) => /\ s.triggers[1] \in Range(s.triggers)
                      /\ s.triggers[Len(s.triggers)] \in Range(s.triggers)
  <2>1. PICK l : l = s.triggers
    OBVIOUS
  <2>2. l \in Seq(Word) /\ Len(l) \in Nat
    BY <1>3, <2>1, PartsTyped
  <2>3. Len(l) # 0 => 1 \in DOMAIN l /\ Len(l) \in DOMAIN l
    BY <2>2
  <2> QED
    BY <2>1, <2>3 DEF Range, Triggered
<1>6. ASSUME x.name \in TakenNames(s),
             s.kind \in {"Monitoring", "Reservation"} <=> x.kind \in AlarmKinds
      PROVE  OwnForm(t, x)
  BY <1>1, <1>2, <1>6 DEF OwnForm
<1>7. s.kind \in {"Monitoring", "Reservation"} <=> x.kind \in AlarmKinds
  BY <1>2, <1>3 DEF AlarmKinds, Nodes, Policies
<1>8. CASE s.kind \in Nodes \cup {"ServerGroup"}
  BY <1>1, <1>2, <1>3, <1>6, <1>7, <1>8
<1>9. CASE s.kind \in {"Monitoring", "Reservation"}
  <2>1. \A g \in Range(s.triggers) : <<g>> \in TakenNames(s)
    BY <1>9, TakenTriggers
  <2>2. FirstAlarm(s) \in TakenNames(s)
    <3>1. CASE Triggered(s)
      BY <1>5, <2>1, <3>1 DEF FirstAlarm
    <3>2. CASE ~ Triggered(s)
      <4>1. s.name = <<s.policy>>
        BY <1>1, <1>9, TopologyFacts DEF Policies
      <4> QED
        BY <1>3, <3>2, <4>1 DEF FirstAlarm
    <3> QED
      BY <3>1, <3>2
  <2> QED
    BY <1>1, <1>2, <1>6, <1>7, <1>9, <2>2
<1>10. CASE s.kind = "SenlinPolicy"
  <2>1. \A g \in Range(s.triggers) : Append(s.name, g) \in TakenNames(s)
    BY <1>10, TakenTriggers
  <2> QED
    BY <1>1, <1>2, <1>4, <1>5, <1>6, <1>7, <1>10, <2>1
<1>11. CASE s.kind = "ScalingPolicy" /\ s.increment = 0
  BY <1>1, <1>2, <1>3, <1>6, <1>7, <1>11
<1>12. CASE s.kind = "ScalingPolicy" /\ s.increment # 0
  <2>1. PICK w : w = Suffix(s.increment)
    OBVIOUS
  <2>2. w \in {"scale_in", "scale_out"} /\ w \in Word /\ w \in MadeOf \ {"subnet"} /\ w # "alarm"
    BY <2>1, MadeWords DEF Suffix, MadeOf
  <2>3. x.name = Append(s.name, w)
    BY <1>2, <1>12, <2>1
  <2>4. x.name # <<>> /\ Last(x.name) = w
    BY <1>3, <2>2, <2>3, LastPart, PartsTyped
  <2>5. ScalerForm(t, x)
    BY <1>1, <1>2, <1>12, <2>2, <2>4 DEF ScalerForm, Scalers, AlarmKinds
  <2> QED
    BY <1>1, <2>5
<1> QED
  BY <1>3, <1>8, <1>9, <1>10, <1>11, <1>12 DEF Policies

\* The name and the policy of what a policy made.
LEMMA MadeShown ==
    ASSUME Regular, NEW t \in Topologies, NEW c \in DOMAIN t, NEW r, MadeFor(t, c, r)
    PROVE  OwnForm(t, r) \/ ScalerForm(t, r)
<1>1. PICK s : s = t[c]
  OBVIOUS
<1>2. s \in ResourceRecord /\ s.name \in Name
  BY <1>1, TopologyFacts, PartsTyped
<1>3. ASSUME NEW x \in Name, NEW w \in Word, r.name = Append(x, w), w \in MadeOf \ {"subnet"},
             w # "alarm", r.kind \notin AlarmKinds, r.policy = s.policy, s.kind \in Scalers,
             w \in {"scale_in", "scale_out"} => r.kind = "ScalingPolicy"
      PROVE  ScalerForm(t, r)
  <2>1. r.name # <<>> /\ Last(r.name) = w
    BY <1>3, LastPart
  <2> QED
    BY <1>1, <1>3, <2>1 DEF ScalerForm
<1>4. CASE s.kind = "ScalingPolicy" /\ GroupOf(s, r)
  <2>1. r.name = Append(s.name, "group") /\ r.kind = "Group" /\ r.policy = s.policy
    BY <1>4 DEF GroupOf
  <2>2. "group" \in Word /\ "group" \in MadeOf \ {"subnet"}
    BY MadeWords DEF MadeOf
  <2> QED
    BY <1>2, <1>3, <1>4, <2>1, <2>2 DEF AlarmKinds, Scalers
<1>5. CASE s.kind = "ScalingPolicy" /\ OppositeOf(s, r)
  <2>1. PICK w : w = Suffix(- s.increment)
    OBVIOUS
  <2>2. w \in {"scale_in", "scale_out"} /\ w \in Word /\ w \in MadeOf \ {"subnet"} /\ w # "alarm"
    BY <2>1, MadeWords DEF Suffix, MadeOf
  <2>3. r.name = Append(s.name, w) /\ r.kind = "ScalingPolicy" /\ r.policy = s.policy
    BY <1>5, <2>1 DEF OppositeOf, SameFields
  <2> QED
    BY <1>2, <1>3, <1>5, <2>2, <2>3 DEF AlarmKinds, Scalers
<1>6. CASE \E j \in Taken(t, c) : ProfileOf(t, j, r)
  <2>1. PICK j \in Taken(t, c) : ProfileOf(t, j, r)
    BY <1>6
  <2>2. j \in DOMAIN t /\ t[j].kind = "Server"
    BY DEF Taken
  <2>3. r.name = t[j].name /\ r.kind = "Profile" /\ r.policy = t[j].policy
    BY <2>1, <2>2, TopologyFacts DEF ProfileOf, Nodes
  <2>4. r.name \in TakenNames(t[j])
    BY <2>2, <2>3, NamesFacts
  <2> QED
    BY <2>2, <2>3, <2>4 DEF OwnForm, AlarmKinds
<1>7. CASE s.kind = "SenlinPolicy" /\ \E x \in Range(s.targets) : ClusterOf(s, x, r)
  <2>1. PICK x \in Range(s.targets) : ClusterOf(s, x, r)
    BY <1>7
  <2>2. x \in Name
    BY <1>2, PartsTyped
  <2>3. r.name = Append(x, "cluster") /\ r.kind = "Cluster" /\ r.policy = s.policy
    BY <2>1 DEF ClusterOf
  <2>4. "cluster" \in Word /\ "cluster" \in MadeOf \ {"subnet"}
    BY MadeWords DEF MadeOf
  <2> QED
    BY <1>3, <1>7, <2>2, <2>3, <2>4 DEF AlarmKinds, Scalers
<1>8. CASE s.kind = "SenlinPolicy" /\ \E g \in Range(s.triggers) : TriggerOf(s, g, r)
  <2>1. PICK g \in Range(s.triggers) : TriggerOf(s, g, r)
    BY <1>8
  <2>2. r.name = Append(s.name, g) /\ r.kind = "MadePolicy" /\ r.policy = s.policy
    BY <2>1 DEF TriggerOf
  <2>3. r.name \in TakenNames(s)
    BY <1>8, <2>2, TakenTriggers
  <2> QED
    BY <1>1, <1>8, <2>2, <2>3 DEF OwnForm, AlarmKinds
<1> QED
  BY <1>1, <1>4, <1>5, <1>6, <1>7, <1>8 DEF MadeFor, MadeByCluster

\* The name and the policy of what the expansion made.
LEMMA GrownShown ==
    ASSUME Regular, NEW t \in Topologies, NEW k \in DOMAIN t, NEW r, GrownFrom(t[k], r)
    PROVE  OwnForm(t, r) \/ ScalerForm(t, r) \/ SubnetForm(r)
<1>1. PICK s : s = t[k]
  OBVIOUS
<1>2. s \in ResourceRecord /\ s.name \in Name /\ (s.kind \in Nodes => s.policy = NoPolicy)
      /\ s.targets \in Seq(Name) /\ s.triggers \in Seq(Word)
      /\ Range(s.targets) \subseteq Name /\ Range(s.triggers) \subseteq Word
  BY <1>1, TopologyFacts, PartsTyped
<1>3. "alarm" \in MadeOf \ {"subnet"} /\ "receiver" \in MadeOf \ {"subnet"} /\ "subnet" \in Word
  BY MadeWords DEF MadeOf
<1>4. ASSUME NEW w, OfForm(s, <<w, "alarm">>, "Alarm", r.refs, r), s.kind \in Scalers
      PROVE  ScalerForm(t, r)
  <2>1. r.name = <<w, "alarm">> /\ r.policy = s.policy /\ r.kind = "Alarm"
    BY <1>4 DEF OfForm
  <2>2. <<w, "alarm">> # <<>> /\ Last(<<w, "alarm">>) = "alarm"
    <3>1. Last(<<w, "alarm">>) = "alarm"
      BY AppendOne
    <3> QED
      BY <3>1
  <2> QED
    BY <1>1, <1>3, <1>4, <2>1, <2>2 DEF ScalerForm, AlarmKinds
<1>5. CASE s.kind = "Net" /\ OfForm(s, Append(s.name, "subnet"), "Subnet", {s.name}, r)
  <2>1. r.name = Append(s.name, "subnet") /\ r.policy = NoPolicy
    BY <1>2, <1>5 DEF OfForm, Nodes
  <2>2. r.name # <<>> /\ Last(r.name) = "subnet"
    BY <1>2, <1>3, <2>1, LastPart
  <2> QED
    BY <2>1, <2>2 DEF SubnetForm
<1>6. CASE s.kind = "ScalingPolicy" /\ OfForm(s, <<s.policy, "alarm">>, "Alarm", {}, r)
  <2>1. OfForm(s, <<s.policy, "alarm">>, "Alarm", r.refs, r)
    BY <1>6 DEF OfForm
  <2> QED
    BY <1>4, <1>6, <2>1 DEF Scalers
<1>7. CASE s.kind = "SenlinPolicy" /\ \E tg \in Range(s.targets), g \in Range(s.triggers) :
                OfForm(s, ReceiverName(tg, g), "Receiver", {ClusterName(tg)}, r)
  <2>1. PICK tg \in Range(s.targets), g \in Range(s.triggers) :
                OfForm(s, ReceiverName(tg, g), "Receiver", {ClusterName(tg)}, r)
    BY <1>7
  <2>2. r.name = ReceiverName(tg, g) /\ r.policy = s.policy /\ r.kind = "Receiver"
    BY <2>1 DEF OfForm
  <2>3. r.name # <<>> /\ Last(r.name) = "receiver"
    BY <1>2, <2>2, ExpandedNames
  <2> QED
    BY <1>1, <1>3, <1>7, <2>2, <2>3 DEF ScalerForm, AlarmKinds, Scalers
<1>8. CASE s.kind = "SenlinPolicy" /\ \E g \in Range(s.triggers) :
                OfForm(s, <<g, "alarm">>, "Alarm", {ReceiverName(tg, g) : tg \in Range(s.targets)}, r)
  <2>1. PICK g \in Range(s.triggers) :
                OfForm(s, <<g, "alarm">>, "Alarm", {ReceiverName(tg, g) : tg \in Range(s.targets)}, r)
    BY <1>8
  <2>2. OfForm(s, <<g, "alarm">>, "Alarm", r.refs, r)
    BY <2>1 DEF OfForm
  <2> QED
    BY <1>4, <1>8, <2>2 DEF Scalers
<1>9. CASE s.kind \in {"Monitoring", "Reservation"}
                /\ \E g \in Range(s.triggers) : OfForm(s, <<g>>, "Alarm", {}, r)
  <2>1. PICK g \in Range(s.triggers) : OfForm(s, <<g>>, "Alarm", {}, r)
    BY <1>9
  <2>2. r.name = <<g>> /\ r.policy = s.policy /\ r.kind = "Alarm"
    BY <2>1 DEF OfForm
  <2>3. r.name \in TakenNames(s)
    BY <1>9, <2>2, TakenTriggers
  <2> QED
    BY <1>1, <1>9, <2>2, <2>3 DEF OwnForm, AlarmKinds
<1> QED
  BY <1>1, <1>5, <1>6, <1>7, <1>8, <1>9 DEF GrownFrom

\* Formed holds after the expansion.
LEMMA FormedAfter ==
    ASSUME Regular, TypeOK, NEW t \in Topologies, Listed(t), ExpandOf
    PROVE  Formed(t)'
<1>1. PICK h, S : h = heap' /\ S = Shown'
  OBVIOUS
<1>2. ASSUME NEW i \in S PROVE OwnForm(t, h[i]) \/ ScalerForm(t, h[i]) \/ SubnetForm(h[i])
  <2>1. CASE i \in Shown /\ i \in DOMAIN heap /\ h[i] = heap[i]
    <3>1. CASE i \in DOMAIN t
      BY <2>1, <3>1, OwnShown
    <3>2. CASE i \notin DOMAIN t
      <4>1. PICK c \in DOMAIN t : MadeFor(t, c, heap[i])
        BY <2>1, <3>2 DEF Listed
      <4> QED
        BY <2>1, <4>1, MadeShown
    <3> QED
      BY <3>1, <3>2
  <2>2. CASE \E k \in DOMAIN t : GrownFrom(t[k], h[i])
    BY <2>2, GrownShown
  <2> QED
    BY <1>1, <1>2, <2>1, <2>2, ShownEither
<1> QED
  BY <1>1, <1>2 DEF Formed

\* NestedClosed holds after the expansion: the nodes and the placements are in
\* the nested template.
LEMMA NestedAfter ==
    ASSUME Regular, TypeOK, NEW t \in Topologies, Listed(t), ExpandOf
    PROVE  NestedClosed'
<1>1. nested' = nested
  BY DEF ExpandOf
<1>2. CASE nested = <<>>
  BY <1>1, <1>2 DEF NestedClosed, Nested, Range
<1>3. CASE \E c \in DOMAIN t : Scaled(t, c)
  <2>1. /\ \A i \in DOMAIN t : t[i].kind \in Movable => \E r \in Nested : NestedOf(t, i, r)
        /\ \A r \in Nested : \E i \in DOMAIN t : t[i].kind \in Movable /\ NestedOf(t, i, r)
    BY <1>3 DEF Scaled, Nested
  <2>2. \A i \in DOMAIN t : t[i].kind \in Movable => t[i].name \in Names(Nested)
    BY <2>1 DEF NestedOf, Names
  <2>3. ASSUME NEW r \in Nested PROVE r.refs \subseteq Names(Nested)
    <3>1. PICK i \in DOMAIN t : NestedOf(t, i, r)
      BY <2>1
    <3>2. r.refs \subseteq t[i].refs \cup PlacementNames(t, i)
      BY <3>1 DEF NestedOf
    <3>3. t[i].refs \subseteq Names(Nested)
      <4>1. t[i] \in Range(t)
        BY DEF Range
      <4>2. t[i].refs \subseteq NodeNames(t)
        BY <4>1 DEF Regular, RefsGiven
      <4>3. \A x \in NodeNames(t) : \E k \in DOMAIN t : t[k].kind \in Nodes /\ t[k].name = x
        BY DEF NodeNames, Range
      <4> QED
        BY <2>2, <4>2, <4>3 DEF Movable
    <3>4. PlacementNames(t, i) \subseteq Names(Nested)
      BY <2>2 DEF PlacementNames, Placements, Movable
    <3> QED
      BY <3>2, <3>3, <3>4
  <2> QED
    BY <1>1, <2>3 DEF NestedClosed, Nested
<1> QED
  BY <1>2, <1>3 DEF Listed, Met, Plain, Clustered

\* What is not of a given resource is of no policy kind, unless it is the
\* opposite of a scaling policy.
LEMMA NewKinds ==
    ASSUME Regular, TypeOK, NEW t \in Topologies, Listed(t), ExpandOf,
           NEW i \in DOMAIN heap', heap'[i].kind \in Policies, i \notin DOMAIN t
    PROVE  /\ i \in DOMAIN heap /\ heap'[i] = heap[i]
           /\ \E c \in DOMAIN t : t[c].kind = "ScalingPolicy" /\ OppositeOf(t[c], heap[i])
                                    /\ MadeFor(t, c, heap[i])
<1>1. PICK h, r : h = heap' /\ r = h[i]
  OBVIOUS
<1>2. /\ \A k \in DOMAIN heap : h[k] = heap[k]
      /\ i \in DOMAIN heap \/ \E j \in Range(Hot) : r \in Expanded(heap[j])
  BY <1>1, Zenon DEF ExpandOf
<1>3. \A j \in Range(Hot) : r \notin Expanded(heap[j])
  BY <1>1, ExpandedForm DEF Policies
<1>4. i \in DOMAIN heap /\ r = heap[i]
  BY <1>1, <1>2, <1>3
<1>5. PICK c \in DOMAIN t : MadeFor(t, c, r)
  BY <1>4 DEF Listed
<1>6. ~ GroupOf(t[c], r) /\ ~ MadeByCluster(t, c, r)
  BY <1>1 DEF GroupOf, MadeByCluster, ProfileOf, ClusterOf, TriggerOf, Policies
<1>7. t[c].kind = "ScalingPolicy" /\ OppositeOf(t[c], r)
  BY <1>5, <1>6 DEF MadeFor
<1> QED
  BY <1>1, <1>4, <1>5, <1>7

\* PoliciesGiven holds after the expansion.
LEMMA PoliciesAfter ==
    ASSUME Regular, TypeOK, NEW t \in Topologies, Listed(t), ExpandOf
    PROVE  PoliciesGiven(t)'
<1>1. PICK h : h = heap'
  OBVIOUS
<1>2. \A k \in DOMAIN heap : h[k] = heap[k]
  BY <1>1 DEF ExpandOf
<1>3. ASSUME NEW i \in DOMAIN h, h[i].kind \in Policies
      PROVE  \E j \in DOMAIN t :
                /\ SameFields(h[i], t[j])
                /\ t[j].kind = "ServerGroup" => h[i].name = t[j].name
  <2>1. CASE i \in DOMAIN t
    <3>1. /\ i \in DOMAIN heap /\ SameFields(heap[i], t[i])
          /\ t[i].kind \in Nodes \cup {"ServerGroup"} => heap[i].name = t[i].name
      BY <2>1, ListedGiven
    <3> QED
      BY <1>2, <2>1, <3>1
  <2>2. CASE i \notin DOMAIN t
    <3>1. /\ i \in DOMAIN heap /\ h[i] = heap[i]
          /\ \E c \in DOMAIN t : t[c].kind = "ScalingPolicy" /\ OppositeOf(t[c], heap[i])
      BY <1>1, <1>3, <2>2, NewKinds
    <3> QED
      BY <3>1 DEF OppositeOf
  <2> QED
    BY <2>1, <2>2
<1> QED
  BY <1>1, <1>3 DEF PoliciesGiven

\* A given resource that was shown is shown as it was.
LEMMA StillShown ==
    ASSUME TypeOK, ExpandOf, NEW i \in DOMAIN heap, i \in Range(Hot), ~ heap[i].hidden
    PROVE  i \in Shown' /\ heap'[i] = heap[i]
BY DEF ExpandOf, Shown

\* A policy that scales is the one that the walk has handled.
LEMMA MetPolicy ==
    ASSUME Regular, TypeOK, NEW t \in Topologies, Listed(t), NEW c \in DOMAIN t
    PROVE  /\ t[c].kind = "ScalingPolicy" => Scaled(t, c)
           /\ t[c].kind = "SenlinPolicy" => Clustered(t, c)
<1>1. Met(t) /\ (t[c].kind \in Scalers => heap[c].handled)
  BY DEF Listed, Scalers, Policies
<1>2. t[c].kind \in Scalers => ~ Plain(t)
  BY <1>1 DEF Plain
<1>3. t[c].kind \in Scalers => \A d \in DOMAIN t : t[d].kind \in Scalers => d = c
  BY ScalerFacts, Zenon
<1>4. \A d \in DOMAIN t : Scaled(t, d) => t[d].kind = "ScalingPolicy" /\ t[d].kind \in Scalers
  BY DEF Scaled, Scalers
<1>5. \A d \in DOMAIN t : Clustered(t, d) => t[d].kind = "SenlinPolicy" /\ t[d].kind \in Scalers
  BY DEF Clustered, Scalers
<1>6. t[c].kind \in Scalers => Scaled(t, c) \/ Clustered(t, c)
  BY <1>1, <1>2, <1>3, <1>4, <1>5, Zenon DEF Met
<1> QED
  BY <1>4, <1>5, <1>6 DEF Scalers

\* Paired holds after the expansion.
LEMMA PairedAfter ==
    ASSUME Regular, TypeOK, NEW t \in Topologies, Listed(t), ExpandOf
    PROVE  Paired(t)'
<1>1. PICK h, S : h = heap' /\ S = Shown'
  OBVIOUS
<1>2. ASSUME NEW c \in DOMAIN t, t[c].kind = "ScalingPolicy", t[c].increment > 0
      PROVE  \E o \in S :
                /\ c \in S
                /\ \A i \in S : h[i].kind = "ScalingPolicy" => i \in {c, o}
                /\ h[c].kind = "ScalingPolicy" /\ h[c].policy = t[c].policy
                /\ h[c].name = Append(t[c].name, "scale_out") /\ h[c].adjustment = t[c].increment
                /\ h[o].kind = "ScalingPolicy" /\ h[o].policy = t[c].policy
                /\ h[o].name = Append(t[c].name, "scale_in") /\ h[o].adjustment = - t[c].increment
  <2>1. PICK inc \in Int : inc = t[c].increment
    BY TopologyFacts DEF ResourceRecord
  <2>2. inc > 0 /\ inc # 0 /\ Suffix(inc) = "scale_out" /\ Suffix(- inc) = "scale_in"
    BY <1>2, <2>1 DEF Suffix
  <2>3. Scaled(t, c)
    BY <1>2, MetPolicy
  <2>4. PICK n \in Nat : n = Len(t) /\ DOMAIN t = 1..n
    BY TopologyFacts
  <2>5. PICK o : o = n + 2
    OBVIOUS
  <2>6. /\ heap[c].adjustment = t[c].increment
        /\ DOMAIN heap = 1 .. n + 2
        /\ Range(Hot) = Outside(t) \cup (DOMAIN heap \ DOMAIN t)
        /\ GroupOf(t[c], heap[n + 1]) /\ OppositeOf(t[c], heap[n + 2])
    BY <2>1, <2>2, <2>3, <2>4 DEF Scaled
  <2>7. c \in Range(Hot) /\ c \in DOMAIN heap /\ o \in Range(Hot) /\ o \in DOMAIN heap
    <3>1. c \in 1..n
      BY <2>4
    <3> QED
      BY <1>2, <2>4, <2>5, <2>6, <3>1 DEF Outside
  <2>8. /\ heap[c].kind = t[c].kind /\ heap[c].policy = t[c].policy /\ heap[c].hidden = t[c].hidden
        /\ heap[c].name = Append(t[c].name, Suffix(t[c].increment))
    BY <1>2, <2>1, <2>2, ListedGiven
  <2>9. /\ heap[o].kind = t[c].kind /\ heap[o].policy = t[c].policy /\ heap[o].hidden = t[c].hidden
        /\ heap[o].name = Append(t[c].name, Suffix(- t[c].increment))
        /\ heap[o].adjustment = - t[c].increment
    BY <2>5, <2>6 DEF OppositeOf, SameFields
  <2>10. ~ t[c].hidden
    BY <1>2, TopologyFacts
  <2>11. c \in S /\ o \in S /\ h[c] = heap[c] /\ h[o] = heap[o]
    BY <1>1, <2>7, <2>8, <2>9, <2>10, StillShown
  <2>12. ASSUME NEW i \in S, h[i].kind = "ScalingPolicy" PROVE i \in {c, o}
    <3>1. i \in DOMAIN h
      BY <1>1 DEF ExpandOf
    <3>2. CASE i \in DOMAIN t
      <4>1. h[i] = heap[i] /\ heap[i].kind = t[i].kind
        BY <1>1, <3>2, ListedGiven DEF ExpandOf
      <4> QED
        BY <1>2, <2>12, <3>2, <4>1, ScalerFacts DEF Scalers
    <3>3. CASE i \notin DOMAIN t
      <4>1. i \in DOMAIN heap /\ h[i] = heap[i]
        BY <1>1, <2>12, <3>1, <3>3, NewKinds DEF Policies
      <4>2. i = n + 1 \/ i = n + 2
        BY <2>4, <2>6, <3>3, <4>1
      <4>3. heap[n + 1].kind = "Group"
        BY <2>6 DEF GroupOf
      <4> QED
        BY <2>5, <2>12, <4>1, <4>2, <4>3
    <3> QED
      BY <3>2, <3>3
  <2> QED
    <3>1. h[c].name = Append(t[c].name, "scale_out") /\ h[o].name = Append(t[c].name, "scale_in")
      BY <2>1, <2>2, <2>8, <2>9, <2>11, Zenon
    <3>2. h[c].adjustment = t[c].increment /\ h[o].adjustment = - t[c].increment
      BY <2>6, <2>9, <2>11, Zenon
    <3>3. /\ h[c].kind = "ScalingPolicy" /\ h[c].policy = t[c].policy
          /\ h[o].kind = "ScalingPolicy" /\ h[o].policy = t[c].policy
      BY <1>2, <2>8, <2>9, <2>11, Zenon
    <3> QED
      BY <2>11, <2>12, <3>1, <3>2, <3>3, Zenon
<1> QED
  BY <1>1, <1>2, Zenon DEF Paired

\* The names of the alarms of a policy by its kind.
LEMMA AlarmNamesBy ==
    ASSUME NEW s \in ResourceRecord
    PROVE  /\ s.kind = "ScalingPolicy" =>
                \A x : x \in AlarmNames(s) <=> (Range(s.triggers) # {} /\ x = <<s.policy, "alarm">>)
           /\ s.kind = "SenlinPolicy" =>
                \A x : x \in AlarmNames(s) <=> \E g \in Range(s.triggers) : x = <<g, "alarm">>
           /\ s.kind \in {"Monitoring", "Reservation"} =>
                /\ FirstAlarm(s) \in AlarmNames(s)
                /\ \A g \in Range(s.triggers) : <<g>> \in AlarmNames(s)
                /\ \A x \in AlarmNames(s) :
                        x = FirstAlarm(s) \/ \E g \in Range(s.triggers) : x = <<g>>
<1>1. CASE s.kind = "ScalingPolicy"
  <2>1. AlarmNames(s) = {<<s.policy, "alarm">> : g \in Range(s.triggers)}
    BY <1>1 DEF AlarmNames
  <2> QED
    BY <1>1, <2>1
<1>2. CASE s.kind = "SenlinPolicy"
  <2>1. AlarmNames(s) = {<<g, "alarm">> : g \in Range(s.triggers)}
    BY <1>2 DEF AlarmNames
  <2> QED
    BY <1>2, <2>1
<1>3. CASE s.kind \in {"Monitoring", "Reservation"}
  <2>1. AlarmNames(s) = IF s.triggers = <<>> THEN {<<s.policy>>}
                        ELSE {<<g>> : g \in Range(s.triggers)}
    BY <1>3 DEF AlarmNames
  <2>2. PICK l : l = s.triggers
    OBVIOUS
  <2>3. l \in Seq(Word)
    BY <2>2, PartsTyped
  <2>4. Len(l) # 0 <=> l # <<>>
    BY <2>3
  <2>5. Triggered(s) <=> s.triggers # <<>>
    BY <2>2, <2>4 DEF Triggered
  <2>6. CASE Triggered(s)
    <3>1. FirstAlarm(s) = <<s.triggers[1]>> /\ s.triggers[1] \in Range(s.triggers)
      BY <2>6, SomeTrigger DEF FirstAlarm
    <3> QED
      BY <1>3, <2>1, <2>5, <2>6, <3>1
  <2>7. CASE ~ Triggered(s)
    <3>1. FirstAlarm(s) = <<s.policy>> /\ Range(s.triggers) = {}
      BY <2>7, SomeTrigger DEF FirstAlarm
    <3> QED
      BY <1>3, <2>1, <2>5, <2>7, <3>1
  <2> QED
    BY <2>6, <2>7
<1> QED
  BY <1>1, <1>2, <1>3

\* An alarm of a policy that is shown has one of the names.
LEMMA AlarmNamed ==
    ASSUME Regular, TypeOK, NEW t \in Topologies, Listed(t), ExpandOf,
           NEW j \in DOMAIN t, t[j].kind \in AlarmPolicies, NEW i \in Shown',
           heap'[i].policy = t[j].policy, heap'[i].kind \in AlarmKinds
    PROVE  heap'[i].name \in AlarmNames(t[j])
<1>1. PICK s, r : s = t[j] /\ r = heap'[i]
  OBVIOUS
<1>2. s.kind \in Policies /\ s \in ResourceRecord
  BY <1>1, TopologyFacts DEF AlarmPolicies
<1>3. s.kind \in {"ScalingPolicy", "SenlinPolicy", "Monitoring", "Reservation"}
  BY <1>1 DEF AlarmPolicies, Policies
<1>4. CASE i \in DOMAIN heap /\ r = heap[i]
  <2>1. CASE i \in DOMAIN t
    <3>1. r.kind = t[i].kind /\ r.policy = t[i].policy
      BY <1>4, <2>1, ListedGiven
    <3>2. t[i].kind \in {"Monitoring", "Reservation"}
      BY <1>1, <2>1, <3>1, TopologyFacts DEF AlarmKinds, Nodes, Policies
    <3>3. i = j
      <4>1. t[i].kind \in Policies /\ t[j].kind \in Policies /\ t[i].policy = t[j].policy
        BY <1>1, <1>2, <3>1, <3>2 DEF Policies
      <4> QED
        BY <2>1, <4>1, PolicyOnce, Zenon
    <3>4. r.name = FirstAlarm(s)
      BY <1>1, <1>4, <3>2, <3>3, ListedGiven
    <3> QED
      BY <1>1, <1>2, <3>2, <3>3, <3>4, AlarmNamesBy
  <2>2. CASE i \notin DOMAIN t
    <3>1. PICK c \in DOMAIN t : MadeFor(t, c, r)
      BY <1>4, <2>2 DEF Listed
    <3>2. r.kind \notin AlarmKinds
      BY <3>1 DEF MadeFor, GroupOf, OppositeOf, SameFields, MadeByCluster, ProfileOf, ClusterOf,
                  TriggerOf, AlarmKinds
    <3> QED
      BY <1>1, <3>2
  <2> QED
    BY <2>1, <2>2
<1>5. CASE \E k \in DOMAIN t : GrownFrom(t[k], r)
  <2>1. PICK k \in DOMAIN t : GrownFrom(t[k], r)
    BY <1>5
  <2>2. t[k].kind # "Net"
    BY <1>1, <2>1 DEF GrownFrom, OfForm, AlarmKinds
  <2>3. t[k].kind \in Policies /\ r.policy = t[k].policy
    BY <2>1, <2>2 DEF GrownFrom, OfForm, Policies
  <2>4. k = j
    <3>1. t[k].policy = t[j].policy /\ t[j].kind \in Policies
      BY <1>1, <1>2, <2>3
    <3> QED
      BY <2>3, <3>1, PolicyOnce, Zenon
  <2>5. GrownFrom(s, r) /\ r.kind # "Receiver"
    BY <1>1, <2>1, <2>4 DEF AlarmKinds
  <2>6. CASE s.kind = "ScalingPolicy"
    <3>1. Triggered(s) /\ r.name = <<s.policy, "alarm">>
      BY <2>5, <2>6 DEF GrownFrom, OfForm
    <3>2. Range(s.triggers) # {}
      BY <1>2, <3>1, SomeTrigger
    <3> QED
      BY <1>1, <1>2, <2>6, <3>1, <3>2, AlarmNamesBy
  <2>7. CASE s.kind = "SenlinPolicy"
    <3>1. \E g \in Range(s.triggers) : r.name = <<g, "alarm">>
      BY <2>5, <2>7 DEF GrownFrom, OfForm
    <3> QED
      BY <1>1, <1>2, <2>7, <3>1, AlarmNamesBy
  <2>8. CASE s.kind \in {"Monitoring", "Reservation"}
    <3>1. \E g \in Range(s.triggers) : r.name = <<g>>
      BY <2>5, <2>8 DEF GrownFrom, OfForm
    <3> QED
      BY <1>1, <1>2, <2>8, <3>1, AlarmNamesBy
  <2> QED
    BY <1>3, <2>6, <2>7, <2>8
<1> QED
  BY <1>1, <1>4, <1>5, ShownEither

\* Every name of an alarm of a policy is shown, with that policy.
LEMMA AlarmThere ==
    ASSUME Regular, TypeOK, NEW t \in Topologies, Listed(t), ExpandOf,
           NEW j \in DOMAIN t, t[j].kind \in AlarmPolicies, NEW x \in AlarmNames(t[j])
    PROVE  \E i \in Shown' : heap'[i].name = x /\ heap'[i].policy = t[j].policy
                                /\ heap'[i].kind \in AlarmKinds
<1>1. PICK s, h, S : s = t[j] /\ h = heap' /\ S = Shown'
  OBVIOUS
<1>2. s \in ResourceRecord
        /\ s.kind \in {"ScalingPolicy", "SenlinPolicy", "Monitoring", "Reservation"}
  BY <1>1, TopologyFacts DEF AlarmPolicies, Policies
<1>3. Grown(s)'
  BY <1>1, GrowsAll
<1>4. /\ s.kind = "ScalingPolicy" /\ Triggered(s) =>
            \E i \in S : OfForm(s, <<s.policy, "alarm">>, "Alarm", {}, h[i])
      /\ s.kind = "SenlinPolicy" =>
            \A g \in Range(s.triggers) :
                \E i \in S : h[i].name = <<g, "alarm">> /\ h[i].policy = s.policy
                                /\ h[i].kind = "Alarm"
      /\ s.kind \in {"Monitoring", "Reservation"} =>
            /\ \E i \in S : h[i].name = FirstAlarm(s) /\ h[i].policy = s.policy
                                /\ h[i].kind \in AlarmKinds
            /\ \A g \in Range(s.triggers) :
                \E i \in S : h[i].name = <<g>> /\ h[i].policy = s.policy
                                /\ h[i].kind \in AlarmKinds
  BY <1>1, <1>3 DEF Grown
<1>5. \A i \in S : h[i].kind = "Alarm" => h[i].kind \in AlarmKinds
  BY DEF AlarmKinds
<1>6. CASE s.kind = "ScalingPolicy"
  <2>1. Triggered(s) /\ x = <<s.policy, "alarm">>
    BY <1>1, <1>2, <1>6, AlarmNamesBy, SomeTrigger
  <2>2. PICK i \in S : OfForm(s, <<s.policy, "alarm">>, "Alarm", {}, h[i])
    BY <1>4, <1>6, <2>1
  <2>3. h[i].name = x /\ h[i].policy = s.policy /\ h[i].kind = "Alarm"
    BY <2>1, <2>2 DEF OfForm
  <2> QED
    BY <1>1, <1>5, <2>3
<1>7. CASE s.kind = "SenlinPolicy"
  <2>1. PICK g \in Range(s.triggers) : x = <<g, "alarm">>
    BY <1>1, <1>2, <1>7, AlarmNamesBy
  <2> QED
    BY <1>1, <1>4, <1>5, <1>7, <2>1
<1>8. CASE s.kind \in {"Monitoring", "Reservation"}
  <2>1. x = FirstAlarm(s) \/ \E g \in Range(s.triggers) : x = <<g>>
    BY <1>1, <1>2, <1>8, AlarmNamesBy
  <2>2. CASE x = FirstAlarm(s)
    BY <1>1, <1>4, <1>8, <2>2
  <2>3. CASE \E g \in Range(s.triggers) : x = <<g>>
    BY <1>1, <1>4, <1>8, <2>3
  <2> QED
    BY <2>1, <2>2, <2>3
<1> QED
  BY <1>2, <1>6, <1>7, <1>8

\* Alarmed holds after the expansion.
LEMMA AlarmedAfter ==
    ASSUME Regular, TypeOK, NEW t \in Topologies, Listed(t), ExpandOf
    PROVE  Alarmed(t)'
<1>1. PICK h, S : h = heap' /\ S = Shown'
  OBVIOUS
<1>2. ASSUME NEW j \in DOMAIN t, t[j].kind \in AlarmPolicies
      PROVE  {h[i].name : i \in {i \in S : h[i].policy = t[j].policy /\ h[i].kind \in AlarmKinds}}
                = AlarmNames(t[j])
  <2>1. \A i \in S : h[i].policy = t[j].policy /\ h[i].kind \in AlarmKinds
                        => h[i].name \in AlarmNames(t[j])
    BY <1>1, <1>2, AlarmNamed
  <2>2. \A x \in AlarmNames(t[j]) :
            \E i \in S : h[i].name = x /\ h[i].policy = t[j].policy /\ h[i].kind \in AlarmKinds
    BY <1>1, <1>2, AlarmThere
  <2> QED
    BY <2>1, <2>2
<1> QED
  BY <1>1, <1>2, Zenon DEF Alarmed

\* What is in the list and not hidden is shown after the expansion, by name.
LEMMA NameStays ==
    ASSUME TypeOK, ExpandOf, NEW i \in DOMAIN heap, i \in Range(Hot), ~ heap[i].hidden
    PROVE  heap[i].name \in ShownNames'
<1>1. PICK h, S : h = heap' /\ S = Shown'
  OBVIOUS
<1>2. i \in S /\ h[i] = heap[i]
  BY <1>1, StillShown
<1>3. ShownNames' = {h[k].name : k \in S}
  BY <1>1 DEF ShownNames
<1> QED
  BY <1>2, <1>3

\* A node or a placement in the list is shown, by its name.
LEMMA GivenShown ==
    ASSUME Regular, TypeOK, NEW t \in Topologies, Listed(t), ExpandOf,
           NEW i \in DOMAIN t, i \in Range(Hot), t[i].kind \in Nodes \cup {"ServerGroup"}, ~ t[i].hidden
    PROVE  t[i].name \in ShownNames'
<1>1. i \in DOMAIN heap /\ heap[i].hidden = t[i].hidden /\ heap[i].name = t[i].name
  BY ListedGiven
<1> QED
  BY <1>1, NameStays

\* The group of a scaling policy is shown.
LEMMA GroupShown ==
    ASSUME Regular, TypeOK, NEW t \in Topologies, Listed(t), ExpandOf,
           NEW c \in DOMAIN t, t[c].kind = "ScalingPolicy"
    PROVE  Append(t[c].name, "group") \in ShownNames'
<1>1. PICK n \in Nat : n = Len(t) /\ DOMAIN t = 1..n
  BY TopologyFacts
<1>2. /\ DOMAIN heap = 1 .. n + IF t[c].increment = 0 THEN 1 ELSE 2
      /\ Range(Hot) = Outside(t) \cup (DOMAIN heap \ DOMAIN t)
      /\ GroupOf(t[c], heap[n + 1])
  BY <1>1, MetPolicy DEF Scaled
<1>3. PICK g : g = n + 1
  OBVIOUS
<1>4. g \in DOMAIN heap /\ g \in Range(Hot)
  BY <1>1, <1>2, <1>3
<1>5. ~ heap[g].hidden /\ heap[g].name = Append(t[c].name, "group")
  BY <1>2, <1>3 DEF GroupOf
<1> QED
  BY <1>4, <1>5, NameStays

\* A cluster leaves the names of its servers and of the nodes that are no
\* ports or networks, and makes those of the clusters.
LEMMA ClusterShown ==
    ASSUME Regular, TypeOK, NEW t \in Topologies, Listed(t), ExpandOf,
           NEW c \in DOMAIN t, t[c].kind = "SenlinPolicy"
    PROVE  /\ LeftNames(t) \subseteq ShownNames' /\ ClusterNames(t[c]) \subseteq ShownNames'
           /\ Range(t[c].targets) \subseteq LeftNames(t)
           /\ \A i \in DOMAIN t : PlacementNames(t, i) \subseteq ShownNames'
<1>1. /\ Range(Hot) = (DOMAIN heap \ DOMAIN t) \cup Remaining(t, c)
      /\ \A j \in Taken(t, c) : \E i \in DOMAIN heap \ DOMAIN t : ProfileOf(t, j, heap[i])
      /\ \A x \in Range(t[c].targets) :
            \E i \in DOMAIN heap \ DOMAIN t : ClusterOf(t[c], x, heap[i])
  BY MetPolicy DEF Clustered
<1>2. \A i \in DOMAIN heap \ DOMAIN t : i \in DOMAIN heap /\ i \in Range(Hot)
  BY <1>1
<1>3. ASSUME NEW j \in DOMAIN t, t[j].kind \in Nodes \ {"Port", "Net"}
      PROVE  t[j].name \in ShownNames'
  <2>1. CASE j \in Taken(t, c)
    <3>1. PICK i \in DOMAIN heap \ DOMAIN t : ProfileOf(t, j, heap[i])
      BY <1>1, <2>1
    <3>2. heap[i].name = t[j].name /\ ~ heap[i].hidden
      BY <3>1 DEF ProfileOf
    <3> QED
      BY <1>2, <3>1, <3>2, NameStays
  <2>2. CASE j \notin Taken(t, c)
    <3>1. j \in Range(Hot)
      BY <1>1, <1>3, <2>2 DEF Remaining
    <3>2. ~ t[j].hidden
      BY <1>3, TopologyFacts
    <3> QED
      BY <1>3, <3>1, <3>2, GivenShown
  <2> QED
    BY <2>1, <2>2
<1>4. LeftNames(t) \subseteq ShownNames'
  BY <1>3 DEF LeftNames, Range
<1>5. ASSUME NEW x \in Range(t[c].targets) PROVE Append(x, "cluster") \in ShownNames'
  <2>1. PICK i \in DOMAIN heap \ DOMAIN t : ClusterOf(t[c], x, heap[i])
    BY <1>1
  <2>2. heap[i].name = Append(x, "cluster") /\ ~ heap[i].hidden
    BY <2>1 DEF ClusterOf
  <2> QED
    BY <1>2, <2>1, <2>2, NameStays
<1>6. ClusterNames(t[c]) \subseteq ShownNames'
  BY <1>5 DEF ClusterNames
<1>7. Range(t[c].targets) \subseteq LeftNames(t)
  <2>1. Range(t[c].targets) \subseteq ServerNames(t)
    BY DEF Regular, ClusterFits
  <2> QED
    BY <2>1 DEF ServerNames, LeftNames, Nodes
<1>8. ASSUME NEW g \in DOMAIN t, t[g].kind = "ServerGroup" PROVE t[g].name \in ShownNames'
  <2>1. g \in Range(Hot)
    BY <1>1, <1>8 DEF Remaining, Taken
  <2>2. ~ t[g].hidden
    BY <1>8, TopologyFacts
  <2> QED
    BY <1>8, <2>1, <2>2, GivenShown
<1>9. \A i \in DOMAIN t : PlacementNames(t, i) \subseteq ShownNames'
  BY <1>8 DEF PlacementNames, Placements
<1> QED
  BY <1>4, <1>6, <1>7, <1>9

\* The nodes that a cluster leaves refer to no port or network.
LEMMA RemainingRefs ==
    ASSUME Regular, NEW t \in Topologies, NEW c \in DOMAIN t, t[c].kind = "SenlinPolicy",
           NEW i \in Remaining(t, c), t[i].kind \in Nodes
    PROVE  t[i].refs \subseteq LeftNames(t)
<1>1. i \in DOMAIN t /\ t[i].kind \notin {"Port", "Net"} /\ i \notin Taken(t, c)
  BY DEF Remaining
<1>2. PICK r : r = t[i] /\ r \in Range(t)
  BY <1>1 DEF Range
<1>3. /\ r.refs \subseteq NodeNames(t)
      /\ Range(t[c].targets) \subseteq ServerNames(t)
      /\ \A q \in Range(t) : q.kind \in {"Port", "Net"} /\ q.name \in r.refs
                                => r.name \in Range(t[c].targets)
  BY <1>1, <1>2 DEF Regular, RefsGiven, ClusterFits
<1>4. r.name \notin Range(t[c].targets)
  <2> SUFFICES ASSUME r.name \in Range(t[c].targets) PROVE FALSE
    OBVIOUS
  <2>1. PICK k \in DOMAIN t : t[k].kind = "Server" /\ t[k].name = r.name
    BY <1>3 DEF ServerNames, Range
  <2>2. k = i
    <3>1. t[k].name \in TakenNames(t[k]) /\ t[i].name \in TakenNames(t[i])
      BY <1>1, NamesFacts
    <3>2. t[k].name \in TakenNames(t[i])
      BY <1>2, <2>1, <3>1
    <3> QED
      BY <1>1, <3>1, <3>2, NamesFacts, Zenon
  <2> QED
    BY <1>1, <1>2, <2>1, <2>2 DEF Taken
<1>5. ASSUME NEW x \in r.refs PROVE x \in LeftNames(t)
  <2>1. PICK q \in Range(t) : q.kind \in Nodes /\ q.name = x
    BY <1>3 DEF NodeNames
  <2>2. q.kind \notin {"Port", "Net"}
    BY <1>3, <1>4, <1>5, <2>1
  <2> QED
    BY <2>1, <2>2 DEF LeftNames
<1> QED
  BY <1>2, <1>5

\* The references of a given resource that is shown are shown.
LEMMA OwnRefs ==
    ASSUME Regular, TypeOK, NEW t \in Topologies, Listed(t), ExpandOf,
           NEW i \in DOMAIN t, i \in Range(Hot)
    PROVE  heap[i].refs \subseteq ShownNames'
<1>1. /\ t[i].kind \in {"Monitoring", "Reservation", "ServerGroup"} => heap[i].refs = {}
      /\ t[i].kind = "ScalingPolicy" => heap[i].refs = {Append(t[i].name, "group")}
      /\ t[i].kind = "SenlinPolicy" => heap[i].refs = ClusterNames(t[i])
  BY ListedGiven
<1>2. CASE t[i].kind \in Nodes
  <2>1. heap[i].refs \subseteq t[i].refs \cup PlacementNames(t, i)
    BY <1>2 DEF Listed, Given, GivenOne
  <2>2. CASE Plain(t)
    <3>1. Range(Hot) = DOMAIN t
      BY <2>2, PlainHot DEF Plain
    <3>2. t[i].refs \subseteq ShownNames'
      <4>1. t[i] \in Range(t)
        BY DEF Range
      <4>2. t[i].refs \subseteq NodeNames(t)
        BY <4>1 DEF Regular, RefsGiven
      <4>3. ASSUME NEW x \in NodeNames(t) PROVE x \in ShownNames'
        <5>1. PICK k \in DOMAIN t : t[k].kind \in Nodes /\ ~ t[k].hidden /\ t[k].name = x
          BY DEF NodeNames, Range
        <5> QED
          BY <3>1, <5>1, GivenShown
      <4> QED
        BY <4>2, <4>3
    <3>3. PlacementNames(t, i) \subseteq ShownNames'
      <4>1. ASSUME NEW g \in DOMAIN t, t[g].kind = "ServerGroup" PROVE t[g].name \in ShownNames'
        <5>1. ~ t[g].hidden
          BY <4>1, TopologyFacts
        <5> QED
          BY <3>1, <4>1, <5>1, GivenShown
      <4> QED
        BY <4>1 DEF PlacementNames, Placements
    <3> QED
      BY <2>1, <3>2, <3>3
  <2>3. CASE \E c \in DOMAIN t : Scaled(t, c)
    BY <1>2, <2>3 DEF Scaled, Outside, Nodes
  <2>4. CASE \E c \in DOMAIN t : Clustered(t, c)
    <3>1. PICK c \in DOMAIN t : t[c].kind = "SenlinPolicy"
            /\ Range(Hot) = (DOMAIN heap \ DOMAIN t) \cup Remaining(t, c)
      BY <2>4 DEF Clustered
    <3>2. i \in Remaining(t, c)
      BY <3>1
    <3>3. t[i].refs \subseteq LeftNames(t)
      BY <1>2, <3>1, <3>2, RemainingRefs
    <3>4. LeftNames(t) \subseteq ShownNames' /\ PlacementNames(t, i) \subseteq ShownNames'
      BY <3>1, ClusterShown
    <3> QED
      BY <2>1, <3>3, <3>4
  <2> QED
    BY <2>2, <2>3, <2>4 DEF Listed, Met
<1>3. CASE t[i].kind = "ScalingPolicy"
  BY <1>1, <1>3, GroupShown
<1>4. CASE t[i].kind = "SenlinPolicy"
  BY <1>1, <1>4, ClusterShown
<1>5. CASE t[i].kind \in {"Monitoring", "Reservation", "ServerGroup"}
  BY <1>1, <1>5
<1> QED
  BY <1>2, <1>3, <1>4, <1>5, TopologyFacts DEF Policies

\* The references of what a policy made are shown.
LEMMA MadeRefs ==
    ASSUME Regular, TypeOK, NEW t \in Topologies, Listed(t), ExpandOf,
           NEW c \in DOMAIN t, NEW r, MadeFor(t, c, r)
    PROVE  r.refs \subseteq ShownNames'
<1>1. CASE t[c].kind = "ScalingPolicy"
  <2>1. r.refs = {} \/ r.refs = {Append(t[c].name, "group")}
    BY <1>1 DEF MadeFor, GroupOf, OppositeOf
  <2>2. PICK x, names : x = Append(t[c].name, "group") /\ names = ShownNames'
    OBVIOUS
  <2>3. x \in names
    BY <1>1, <2>2, GroupShown
  <2>4. r.refs \subseteq names
    BY <2>1, <2>2, <2>3
  <2> QED
    BY <2>2, <2>4
<1>2. CASE t[c].kind = "SenlinPolicy"
  <2>1. MadeByCluster(t, c, r)
    BY <1>2 DEF MadeFor
  <2>2. CASE \E j \in Taken(t, c) : ProfileOf(t, j, r)
    <3>1. PICK j \in Taken(t, c) : r.refs \subseteq LeftNames(t) \cup PlacementNames(t, j)
      BY <2>2 DEF ProfileOf
    <3>2. j \in DOMAIN t
      BY DEF Taken
    <3> QED
      BY <1>2, <3>1, <3>2, ClusterShown
  <2>3. CASE \E x \in Range(t[c].targets) : ClusterOf(t[c], x, r)
    <3>1. r.refs \subseteq Range(t[c].targets)
      BY <2>3 DEF ClusterOf
    <3> QED
      BY <1>2, <3>1, ClusterShown
  <2>4. CASE \E g \in Range(t[c].triggers) : TriggerOf(t[c], g, r)
    <3>1. r.refs = ClusterNames(t[c])
      BY <2>4 DEF TriggerOf
    <3> QED
      BY <1>2, <3>1, ClusterShown
  <2> QED
    BY <2>1, <2>2, <2>3, <2>4 DEF MadeByCluster
<1> QED
  BY <1>1, <1>2 DEF MadeFor

\* The references of what the expansion made are shown.
LEMMA GrownRefs ==
    ASSUME Regular, TypeOK, NEW t \in Topologies, Listed(t), ExpandOf,
           NEW k \in DOMAIN t, NEW r, GrownFrom(t[k], r), r.kind = "Subnet" => k \in Range(Hot)
    PROVE  r.refs \subseteq ShownNames'
<1>1. PICK s : s = t[k]
  OBVIOUS
<1>2. CASE s.kind = "Net" /\ ~ s.hidden
  <2>1. r.refs = {s.name} /\ r.kind = "Subnet"
    BY <1>1, <1>2 DEF GrownFrom, OfForm
  <2>2. s.name \in ShownNames'
    BY <1>1, <1>2, <2>1, GivenShown DEF Nodes
  <2> QED
    BY <2>1, <2>2
<1>3. CASE s.kind \in {"ScalingPolicy", "Monitoring", "Reservation"}
  <2>1. r.refs = {}
    BY <1>1, <1>3 DEF GrownFrom, OfForm
  <2> QED
    BY <2>1
<1>4. CASE s.kind = "SenlinPolicy"
  <2>1. \/ \E tg \in Range(s.targets) : r.refs = {ClusterName(tg)}
        \/ \E g \in Range(s.triggers) : r.refs = {ReceiverName(tg, g) : tg \in Range(s.targets)}
    BY <1>1, <1>4 DEF GrownFrom, OfForm
  <2>2. CASE \E tg \in Range(s.targets) : r.refs = {ClusterName(tg)}
    <3>1. r.refs \subseteq ClusterNames(s)
      BY <2>2 DEF ClusterNames, ClusterName
    <3> QED
      BY <1>1, <1>4, <3>1, ClusterShown
  <2>3. CASE \E g \in Range(s.triggers) : r.refs = {ReceiverName(tg, g) : tg \in Range(s.targets)}
    <3>1. PICK names : names = ShownNames'
      OBVIOUS
    <3>2. Grown(s)'
      BY <1>1, GrowsAll
    <3>3. \A g \in Range(s.triggers) : \A tg \in Range(s.targets) : ReceiverName(tg, g) \in names
      BY <1>4, <3>1, <3>2 DEF Grown
    <3> QED
      BY <2>3, <3>1, <3>3
  <2> QED
    BY <2>1, <2>2, <2>3
<1> QED
  BY <1>1, <1>2, <1>3, <1>4 DEF GrownFrom

\* RefsShown holds after the expansion.
LEMMA RefsAfter ==
    ASSUME Regular, TypeOK, NEW t \in Topologies, Listed(t), ExpandOf
    PROVE  RefsShown'
<1>1. PICK h, S, names : h = heap' /\ S = Shown' /\ names = ShownNames'
  OBVIOUS
<1>2. ASSUME NEW i \in S PROVE h[i].refs \subseteq names
  <2>1. CASE i \in Shown /\ i \in DOMAIN heap /\ h[i] = heap[i]
    <3>1. CASE i \in DOMAIN t
      BY <1>1, <2>1, <3>1, OwnRefs DEF Shown
    <3>2. CASE i \notin DOMAIN t
      <4>1. PICK c \in DOMAIN t : MadeFor(t, c, heap[i])
        BY <2>1, <3>2 DEF Listed
      <4> QED
        BY <1>1, <2>1, <4>1, MadeRefs
    <3> QED
      BY <3>1, <3>2
  <2>2. CASE \E k \in DOMAIN t :
                GrownFrom(t[k], h[i]) /\ (h[i].kind = "Subnet" => k \in Range(Hot))
    BY <1>1, <2>2, GrownRefs
  <2> QED
    BY <1>1, <1>2, <2>1, <2>2, ShownEither
<1> QED
  BY <1>1, <1>2, Zenon DEF RefsShown

\* Grouped holds after the expansion.
LEMMA GroupedAfter ==
    ASSUME Regular, TypeOK, NEW t \in Topologies, Listed(t), ExpandOf
    PROVE  Grouped(t)'
<1>1. PICK h, S : h = heap' /\ S = Shown'
  OBVIOUS
<1>2. PICK nest : nest = Nested' /\ nest = Nested
  BY DEF Nested, ExpandOf
<1>3. ASSUME NEW g \in DOMAIN t, t[g].kind = "ServerGroup", NEW x \in Range(t[g].targets)
      PROVE  \/ \E i \in S : h[i].name = x /\ t[g].name \in h[i].refs /\ h[i].policy = NoPolicy
             \/ \E r \in nest : r.name = x /\ t[g].name \in r.refs
  <2>1. PICK k \in DOMAIN t : t[k].kind = "Server" /\ t[k].name = x
    <3>1. t[g] \in Range(t)
      BY DEF Range
    <3>2. Range(t[g].targets) \subseteq ServerNames(t)
      BY <1>3, <3>1 DEF Regular, ServersPlaced
    <3> QED
      BY <3>2 DEF ServerNames, Range
  <2>2. g \in Placements(t, k) /\ t[g].name \in PlacementNames(t, k)
    BY <1>3, <2>1 DEF PlacementNames, Placements
  <2>3. t[k].policy = NoPolicy /\ ~ t[k].hidden
    BY <2>1, TopologyFacts DEF Nodes
  <2>4. ASSUME k \in Range(Hot)
        PROVE  \E i \in S : h[i].name = x /\ t[g].name \in h[i].refs /\ h[i].policy = NoPolicy
    <3>1. /\ k \in DOMAIN heap /\ heap[k].hidden = t[k].hidden /\ heap[k].policy = t[k].policy
          /\ heap[k].name = t[k].name
      BY <2>1, ListedGiven DEF Nodes
    <3>2. k \in S /\ h[k] = heap[k]
      BY <1>1, <2>3, <2>4, <3>1, StillShown
    <3>3. GivenOne(t, heap, k) /\ heap[g].handled
      BY <1>3 DEF Listed, Given, Policies
    <3>4. t[g].name \in heap[k].refs
      BY <2>1, <2>2, <3>3 DEF GivenOne, Nodes
    <3> QED
      BY <2>1, <2>3, <3>1, <3>2, <3>4
  <2>5. CASE Plain(t)
    <3>1. k \in Range(Hot)
      BY <2>5, PlainHot DEF Plain
    <3> QED
      BY <2>4, <3>1
  <2>6. CASE \E c \in DOMAIN t : Scaled(t, c)
    <3>1. PICK r \in nest : NestedOf(t, k, r)
      BY <1>2, <2>1, <2>6 DEF Scaled, Nested, Movable, Nodes
    <3> QED
      BY <2>1, <2>2, <3>1 DEF NestedOf
  <2>7. CASE \E c \in DOMAIN t : Clustered(t, c)
    <3>1. PICK c \in DOMAIN t : Clustered(t, c)
      BY <2>7
    <3>2. /\ Range(Hot) = (DOMAIN heap \ DOMAIN t) \cup Remaining(t, c)
          /\ \A j \in Taken(t, c) : \E i \in DOMAIN heap \ DOMAIN t : ProfileOf(t, j, heap[i])
      BY <3>1 DEF Clustered
    <3>3. CASE k \in Taken(t, c)
      <4>1. PICK i \in DOMAIN heap \ DOMAIN t : ProfileOf(t, k, heap[i])
        BY <3>2, <3>3
      <4>2. /\ heap[i].policy = NoPolicy /\ ~ heap[i].hidden /\ heap[i].name = t[k].name
            /\ PlacementNames(t, k) \subseteq heap[i].refs
        BY <4>1 DEF ProfileOf
      <4>3. i \in S /\ h[i] = heap[i]
        BY <1>1, <3>2, <4>1, <4>2, StillShown
      <4> QED
        BY <2>1, <2>2, <4>2, <4>3
    <3>4. CASE k \notin Taken(t, c)
      <4>1. k \in Range(Hot)
        BY <2>1, <3>2, <3>4 DEF Remaining
      <4> QED
        BY <2>4, <4>1
    <3> QED
      BY <3>3, <3>4
  <2> QED
    BY <2>5, <2>6, <2>7 DEF Listed, Met
<1> QED
  BY <1>1, <1>2, <1>3, Zenon DEF Grouped

\* The expansion makes one resource x, if one element of the list expands to x
\* and that is a network.
LEMMA SubnetOnce ==
    ASSUME TypeOK, HotOnce, Expand, NEW k \in Range(Hot), heap[k].kind = "Net", ~ heap[k].hidden,
           NEW x, \A j \in Range(Hot) : x \in Expanded(heap[j]) => j = k,
           NEW i \in DOMAIN heap' \ DOMAIN heap, NEW i2 \in DOMAIN heap' \ DOMAIN heap,
           heap'[i] = x, heap'[i2] = x
    PROVE  i = i2
<1>0. PICK m \in Nat : m = Len(heap)
  BY DEF TypeOK
<1>1. PICK l \in Seq(1..m) :
            /\ DOMAIN heap = 1..m /\ l = Hot
            /\ \A j \in 1..m : heap[j] \in ResourceRecord
  BY <1>0, ListsTyped
<1>2. PICK parts : parts = [a \in DOMAIN l |-> Expansion(heap[l[a]])]
  OBVIOUS
<1>3. \A a \in DOMAIN l : heap[l[a]] \in ResourceRecord
  BY <1>1
<1>4. parts \in Seq(Seq(ResourceRecord)) /\ DOMAIN parts = DOMAIN l
  <2>1. parts \in [DOMAIN l -> Seq(ResourceRecord)]
    BY <1>2, <1>3, ExpansionTyped
  <2> QED
    BY <2>1, MappedList
<1>5. \A a \in DOMAIN parts :
            parts[a] = Expansion(heap[l[a]]) /\ ToSet(parts[a]) = Expanded(heap[l[a]])
  BY <1>2, <1>3, <1>4, ExpansionTyped
<1>6. \A a \in DOMAIN parts : x \in ToSet(parts[a]) => l[a] = k
  BY <1>1, <1>4, <1>5 DEF Range
<1>7. \A a, b \in DOMAIN parts : x \in ToSet(parts[a]) /\ x \in ToSet(parts[b]) => a = b
  BY <1>1, <1>4, <1>6 DEF HotOnce, OnceIn
<1>8. ASSUME NEW a \in DOMAIN parts PROVE Once(parts[a], x)
  <2>1. CASE x \in ToSet(parts[a])
    <3>1. parts[a] = Expansion(heap[k])
      BY <1>5, <1>6, <2>1
    <3>2. Expansion(heap[k]) = <<Subnet(heap[k])>>
      BY DEF Expansion, Subnet
    <3>3. DOMAIN parts[a] = {1}
      BY <3>1, <3>2
    <3> QED
      BY <3>3 DEF Once
  <2>2. CASE x \notin ToSet(parts[a])
    BY <2>2 DEF Once, ToSet
  <2> QED
    BY <2>1, <2>2
<1>9. PICK made \in Seq(ResourceRecord) :
            /\ made = FlattenSeq([a \in DOMAIN Hot |-> Expansion(heap[Hot[a]])])
            /\ heap' \in Seq(ResourceRecord) /\ Len(heap') = Len(heap) + Len(made)
            /\ \A b \in 1..Len(made) : heap'[Len(heap) + b] = made[b]
  BY ExpandResult
<1>10. made = FlattenSeq(parts)
  BY <1>1, <1>2, <1>9
<1>11. Once(made, x)
  BY <1>4, <1>7, <1>8, <1>10, FlattenOnce
<1>12. PICK n \in Nat : n = Len(made) /\ DOMAIN made = 1..n
  BY <1>9
<1>13. PICK h : h = heap'
  OBVIOUS
<1>14. DOMAIN h = 1..(m + n) /\ \A b \in 1..n : h[m + b] = made[b]
  <2>1. h \in Seq(ResourceRecord) /\ Len(h) = m + n
    BY <1>0, <1>9, <1>12, <1>13
  <2>2. DOMAIN h = 1..(m + n)
    BY <2>1
  <2> QED
    BY <1>0, <1>9, <1>12, <1>13, <2>2
<1>15. i - m \in 1..n /\ i2 - m \in 1..n /\ i = m + (i - m) /\ i2 = m + (i2 - m)
  BY <1>1, <1>13, <1>14
<1>16. PICK a \in 1..n : a = i - m /\ i = m + a
  BY <1>15
<1>17. PICK b \in 1..n : b = i2 - m /\ i2 = m + b
  BY <1>15
<1>18. made[a] = x /\ made[b] = x
  BY <1>13, <1>14, <1>16, <1>17
<1>19. a = b
  BY <1>11, <1>12, <1>18 DEF Once
<1> QED
  BY <1>16, <1>17, <1>19

\* What the expansion makes without a policy is the subnet of a network.
LEMMA NewNode ==
    ASSUME Regular, TypeOK, NEW t \in Topologies, Listed(t), NEW j \in Range(Hot),
           NEW r \in Expanded(heap[j]), r.policy = NoPolicy
    PROVE  /\ j \in DOMAIN t /\ r.name = Append(t[j].name, "subnet") /\ r = Subnet(heap[j])
           /\ heap[j].kind = "Net" /\ ~ heap[j].hidden
<1>1. PICK k \in DOMAIN t : GrownFrom(t[k], r) /\ (r.kind = "Subnet" => k = j)
  BY Sources
<1>2. r.policy = t[k].policy /\ t[k].kind \notin Policies
  <2>1. r.policy = t[k].policy
    BY <1>1 DEF GrownFrom, OfForm
  <2>2. t[k].kind \in Policies => t[k].policy # NoPolicy
    BY TopologyFacts
  <2> QED
    BY <2>1, <2>2
<1>3. /\ t[k].kind = "Net" /\ ~ t[k].hidden
      /\ OfForm(t[k], Append(t[k].name, "subnet"), "Subnet", {t[k].name}, r)
  BY <1>1, <1>2 DEF GrownFrom, Policies
<1>4. k = j /\ r.name = Append(t[j].name, "subnet")
  BY <1>1, <1>3 DEF OfForm
<1>5. heap[j].kind = t[j].kind /\ heap[j].hidden = t[j].hidden
  BY <1>4, ListedGiven
<1>6. heap[j].kind = "Net" /\ ~ heap[j].hidden
  BY <1>3, <1>4, <1>5
<1>7. ExpandedIs(heap[j])
  BY ExpandedCases
<1>8. Expanded(heap[j]) = {Subnet(heap[j])}
  BY <1>6, <1>7, Zenon DEF ExpandedIs
<1> QED
  BY <1>4, <1>6, <1>8

\* The resource i is the node k, or the profile of the server k.
StandsFor(t, i, k) ==
    /\ heap[i].name = t[k].name
    /\ \/ i = k
       \/ /\ i \notin DOMAIN t /\ heap[i].kind = "Profile"
          /\ \E c \in DOMAIN t : Clustered(t, c) /\ k \in Taken(t, c)

\* What is in the list without a policy is one of these.
LEMMA OldNode ==
    ASSUME Regular, TypeOK, NEW t \in Topologies, Listed(t),
           NEW i \in Shown, heap[i].policy = NoPolicy
    PROVE  \E k \in DOMAIN t : StandsFor(t, i, k)
<1>1. i \in Range(Hot) /\ i \in DOMAIN heap
  BY ListsTyped DEF Shown
<1>2. \A c \in DOMAIN t : t[c].kind \in Policies => t[c].policy # NoPolicy
  BY TopologyFacts
<1>3. CASE i \in DOMAIN t
  <2>1. heap[i].policy = t[i].policy /\ (t[i].kind \in Nodes => heap[i].name = t[i].name)
    BY <1>3, ListedGiven
  <2>2. t[i].kind \in Nodes
    BY <1>2, <1>3, <2>1, TopologyFacts
  <2> QED
    BY <1>3, <2>1, <2>2 DEF StandsFor
<1>4. CASE i \notin DOMAIN t
  <2>1. PICK c \in DOMAIN t : MadeFor(t, c, heap[i])
    BY <1>1, <1>4 DEF Listed
  <2>2. t[c].kind \in {"ScalingPolicy", "SenlinPolicy"} /\ t[c].policy # NoPolicy
    BY <1>2, <2>1 DEF MadeFor, Policies
  <2>3. t[c].kind = "SenlinPolicy" /\ MadeByCluster(t, c, heap[i])
    BY <2>1, <2>2 DEF MadeFor, GroupOf, OppositeOf, SameFields
  <2>4. PICK k \in Taken(t, c) : ProfileOf(t, k, heap[i])
    BY <2>2, <2>3 DEF MadeByCluster, ClusterOf, TriggerOf
  <2>5. k \in DOMAIN t /\ heap[i].name = t[k].name /\ heap[i].kind = "Profile"
    BY <2>4 DEF ProfileOf, Taken
  <2>6. Clustered(t, c)
    BY <2>3, MetPolicy
  <2> QED
    BY <1>4, <2>4, <2>5, <2>6 DEF StandsFor
<1> QED
  BY <1>3, <1>4

\* NodesOnce holds after the expansion.
LEMMA NodesAfter ==
    ASSUME Regular, TypeOK, HotOnce, NEW t \in Topologies, Listed(t), Expand, ExpandOf
    PROVE  NodesOnce'
<1>1. PICK h, S : h = heap' /\ S = Shown'
  OBVIOUS
<1>2. /\ \A k \in DOMAIN heap : h[k] = heap[k]
      /\ S \subseteq DOMAIN h /\ \A k \in DOMAIN heap : k \in S => k \in Shown
      /\ \A k \in DOMAIN h :
            k \in DOMAIN heap \/ \E j \in Range(Hot) : h[k] \in Expanded(heap[j])
  BY <1>1, Zenon DEF ExpandOf
<1>3. \A k, l \in DOMAIN t : t[k].name = t[l].name => k = l
  <2>1. \A k \in DOMAIN t : t[k].name \in TakenNames(t[k])
    BY NamesFacts
  <2>2. \A k, l \in DOMAIN t : \A x : x \in TakenNames(t[k]) /\ x \in TakenNames(t[l]) => k = l
    BY NamesFacts, Zenon
  <2> QED
    BY <2>1, <2>2, Zenon
<1>4. ASSUME NEW i \in S, i \notin DOMAIN heap, h[i].policy = NoPolicy
      PROVE  \E j \in Range(Hot) : /\ j \in DOMAIN t /\ h[i] \in Expanded(heap[j])
                                   /\ h[i].name = Append(t[j].name, "subnet")
                                   /\ heap[j].kind = "Net" /\ ~ heap[j].hidden
  BY <1>2, <1>4, NewNode
<1>5. ASSUME NEW i \in S, NEW i2 \in S, i \in DOMAIN heap, i2 \in DOMAIN heap,
             h[i].policy = NoPolicy, h[i2].policy = NoPolicy, h[i].name = h[i2].name
      PROVE  i = i2
  <2>1. i \in Shown /\ i2 \in Shown /\ h[i] = heap[i] /\ h[i2] = heap[i2]
    BY <1>2, <1>5
  <2>2. PICK k \in DOMAIN t : StandsFor(t, i, k)
    BY <1>5, <2>1, OldNode
  <2>3. PICK l \in DOMAIN t : StandsFor(t, i2, l)
    BY <1>5, <2>1, OldNode
  <2>4. k = l
    BY <1>3, <1>5, <2>1, <2>2, <2>3 DEF StandsFor
  <2>5. ASSUME NEW c \in DOMAIN t, Clustered(t, c)
        PROVE  /\ \A j \in Taken(t, c) : j \in DOMAIN t /\ j \notin Range(Hot)
               /\ \A a, b \in DOMAIN heap \ DOMAIN t :
                    heap[a].kind = "Profile" /\ heap[b].kind = "Profile" /\ heap[a].name = heap[b].name
                        => a = b
    <3>1. Range(Hot) = (DOMAIN heap \ DOMAIN t) \cup Remaining(t, c)
      BY <2>5 DEF Clustered
    <3>2. \A j \in Taken(t, c) : j \in DOMAIN t /\ j \notin Range(Hot)
      BY <3>1 DEF Taken, Remaining
    <3>3. \A a, b \in DOMAIN heap \ DOMAIN t :
                heap[a].kind = "Profile" /\ heap[b].kind = "Profile" /\ heap[a].name = heap[b].name
                    => a = b
      BY <2>5 DEF Clustered
    <3> QED
      BY <3>2, <3>3
  <2>6. i \in Range(Hot) /\ i2 \in Range(Hot)
    BY <2>1 DEF Shown
  <2>7. CASE i = k /\ i2 = l
    BY <2>4, <2>7
  <2>8. CASE i = k /\ i2 # l
    BY <2>3, <2>4, <2>5, <2>6, <2>8 DEF StandsFor
  <2>9. CASE i # k /\ i2 = l
    BY <2>2, <2>4, <2>5, <2>6, <2>9 DEF StandsFor
  <2>10. CASE i # k /\ i2 # l
    <3>1. /\ i \notin DOMAIN t /\ heap[i].kind = "Profile"
          /\ i2 \notin DOMAIN t /\ heap[i2].kind = "Profile"
      BY <2>2, <2>3, <2>10 DEF StandsFor
    <3>2. PICK c \in DOMAIN t : Clustered(t, c)
      BY <2>2, <2>10 DEF StandsFor
    <3>3. heap[i].name = heap[i2].name
      BY <1>5, <2>1
    <3> QED
      BY <1>5, <2>5, <3>1, <3>2, <3>3
  <2> QED
    BY <2>7, <2>8, <2>9, <2>10
<1>6. ASSUME NEW i \in S, NEW i2 \in S, i \in DOMAIN heap, i2 \notin DOMAIN heap,
             h[i].policy = NoPolicy, h[i2].policy = NoPolicy
      PROVE  h[i].name # h[i2].name
  <2>1. i \in Shown /\ h[i] = heap[i]
    BY <1>2, <1>6
  <2>2. PICK k \in DOMAIN t : heap[i].name = t[k].name
    BY <1>6, <2>1, OldNode DEF StandsFor
  <2>3. PICK j \in DOMAIN t : h[i2].name = Append(t[j].name, "subnet")
    BY <1>4, <1>6
  <2>4. Last(t[k].name) \notin MadeOf
    <3>1. t[k].name \in TakenNames(t[k])
      BY NamesFacts
    <3> QED
      BY <3>1, NamesFacts
  <2>5. t[j].name \in Name /\ "subnet" \in Word /\ "subnet" \in MadeOf
    BY TopologyFacts, PartsTyped, MadeWords DEF MadeOf
  <2>6. Last(Append(t[j].name, "subnet")) = "subnet"
    BY <2>5, LastPart
  <2> QED
    BY <2>1, <2>2, <2>3, <2>4, <2>5, <2>6
<1>7. ASSUME NEW i \in S, NEW i2 \in S, i \notin DOMAIN heap, i2 \notin DOMAIN heap,
             h[i].policy = NoPolicy, h[i2].policy = NoPolicy, h[i].name = h[i2].name
      PROVE  i = i2
  <2>1. PICK j \in Range(Hot) : /\ j \in DOMAIN t /\ h[i] \in Expanded(heap[j])
                                /\ h[i].name = Append(t[j].name, "subnet")
                                /\ heap[j].kind = "Net" /\ ~ heap[j].hidden
    BY <1>4, <1>7
  <2>2. PICK j2 \in Range(Hot) : /\ j2 \in DOMAIN t /\ h[i2] \in Expanded(heap[j2])
                                 /\ h[i2].name = Append(t[j2].name, "subnet")
    BY <1>4, <1>7
  <2>3. \A a, b \in DOMAIN t : Append(t[a].name, "subnet") = Append(t[b].name, "subnet") => a = b
    <3> SUFFICES ASSUME NEW a \in DOMAIN t, NEW b \in DOMAIN t,
                        Append(t[a].name, "subnet") = Append(t[b].name, "subnet")
                 PROVE  a = b
      OBVIOUS
    <3>1. t[a].name \in Seq(Word) /\ t[b].name \in Seq(Word) /\ "subnet" \in Word
      BY TopologyFacts, PartsTyped, MadeWords DEF Name
    <3>2. \A x, y \in Seq(Word), v, w \in Word : Append(x, v) = Append(y, w) => x = y
      BY AppendApart
    <3>3. PICK p, q, w : p = t[a].name /\ q = t[b].name /\ w = "subnet"
      OBVIOUS
    <3>4. p \in Seq(Word) /\ q \in Seq(Word) /\ w \in Word /\ Append(p, w) = Append(q, w)
      BY <3>1, <3>3
    <3>5. p = q
      BY <3>2, <3>4, Zenon
    <3> QED
      BY <1>3, <3>3, <3>5
  <2>4. j = j2
    BY <1>7, <2>1, <2>2, <2>3
  <2>5. PICK x : x = h[i]
    OBVIOUS
  <2>6. h[i2] = x
    <3>1. h[i] = Subnet(heap[j])
      BY <1>7, <2>1, NewNode
    <3>2. h[i2] = Subnet(heap[j2])
      BY <1>7, <2>2, NewNode
    <3> QED
      BY <2>4, <2>5, <3>1, <3>2
  <2>7. \A k \in Range(Hot) : x \in Expanded(heap[k]) => k = j
    <3> SUFFICES ASSUME NEW k \in Range(Hot), x \in Expanded(heap[k]) PROVE k = j
      OBVIOUS
    <3>1. x.policy = NoPolicy
      BY <1>7, <2>5
    <3>2. k \in DOMAIN t /\ x.name = Append(t[k].name, "subnet")
      BY <3>1, NewNode
    <3> QED
      BY <2>1, <2>3, <2>5, <3>2
  <2>8. i \in DOMAIN h \ DOMAIN heap /\ i2 \in DOMAIN h \ DOMAIN heap
    BY <1>2, <1>7
  <2> QED
    BY <1>1, <2>1, <2>5, <2>6, <2>7, <2>8, SubnetOnce
<1>8. ASSUME NEW i \in S, NEW i2 \in S, h[i].policy = NoPolicy, h[i2].policy = NoPolicy,
             h[i].name = h[i2].name
      PROVE  i = i2
  <2>1. CASE i \in DOMAIN heap /\ i2 \in DOMAIN heap
    BY <1>5, <1>8, <2>1
  <2>2. CASE i \in DOMAIN heap /\ i2 \notin DOMAIN heap
    BY <1>6, <1>8, <2>2
  <2>3. CASE i \notin DOMAIN heap /\ i2 \in DOMAIN heap
    <3>1. h[i2].name # h[i].name
      BY <1>6, <1>8, <2>3
    <3> QED
      BY <1>8, <3>1
  <2>4. CASE i \notin DOMAIN heap /\ i2 \notin DOMAIN heap
    BY <1>7, <1>8, <2>4
  <2> QED
    BY <2>1, <2>2, <2>3, <2>4
<1> QED
  BY <1>1, <1>8, Zenon DEF NodesOnce
-----------------------------------------------------------------------------
(* The invariant.                                                          *)

\* The expansion of a walk that ended has the properties of the output.
LEMMA ExpandStep ==
    ASSUME Regular, TypeOK, HotOnce, NEW t \in Topologies, Walking(t), Expand
    PROVE  Expansive(t)'
<1>1. stage = "expansion"
  BY DEF Expand
<1>2. Listed(t)
  BY <1>1, WalkEnds
<1>3. ExpandOf
  BY ExpandOut
<1>4. Formed(t)' /\ NodesOnce' /\ RefsShown' /\ NestedClosed'
  BY <1>2, <1>3, FormedAfter, NodesAfter, RefsAfter, NestedAfter
<1>5. PoliciesGiven(t)' /\ Paired(t)' /\ Alarmed(t)' /\ Grouped(t)'
  BY <1>2, <1>3, PoliciesAfter, PairedAfter, AlarmedAfter, GroupedAfter
<1> QED
  BY <1>4, <1>5 DEF Expansive

\* The same resource, but for what was done with it.
SameResource(q, r) ==
    SameFields(q, r) /\ q.name = r.name /\ q.refs = r.refs /\ q.adjustment = r.adjustment

\* The properties of the output are of these fields.
LEMMA ExpansiveKept ==
    ASSUME NEW t, Expansive(t), Shown' = Shown, Shown \subseteq DOMAIN heap, nested' = nested,
           DOMAIN heap' = DOMAIN heap, \A i \in DOMAIN heap : SameResource(heap'[i], heap[i])
    PROVE  Expansive(t)'
<1>1. PICK h : h = heap'
  OBVIOUS
<1>2. \A i \in DOMAIN heap :
            /\ h[i].name = heap[i].name /\ h[i].kind = heap[i].kind /\ h[i].policy = heap[i].policy
            /\ h[i].refs = heap[i].refs /\ h[i].adjustment = heap[i].adjustment
            /\ SameFields(h[i], heap[i])
  BY <1>1 DEF SameResource, SameFields
<1>3. DOMAIN h = DOMAIN heap
  BY <1>1
<1>4. Formed(t)'
  <2>1. \A i \in Shown : OwnForm(t, h[i]) \/ ScalerForm(t, h[i]) \/ SubnetForm(h[i])
    <3> SUFFICES ASSUME NEW i \in Shown
                 PROVE  OwnForm(t, h[i]) \/ ScalerForm(t, h[i]) \/ SubnetForm(h[i])
      OBVIOUS
    <3>1. OwnForm(t, heap[i]) \/ ScalerForm(t, heap[i]) \/ SubnetForm(heap[i])
      BY DEF Expansive, Formed
    <3>2. OwnForm(t, heap[i]) => OwnForm(t, h[i])
      BY <1>2 DEF OwnForm
    <3>3. ScalerForm(t, heap[i]) => ScalerForm(t, h[i])
      BY <1>2 DEF ScalerForm
    <3>4. SubnetForm(heap[i]) => SubnetForm(h[i])
      BY <1>2 DEF SubnetForm
    <3> QED
      BY <3>1, <3>2, <3>3, <3>4
  <2> QED
    BY <1>1, <2>1 DEF Formed
<1>5. NodesOnce'
  <2>1. \A i, j \in Shown : h[i].policy = NoPolicy /\ h[j].policy = NoPolicy
                                /\ h[i].name = h[j].name => i = j
    BY <1>2 DEF Expansive, NodesOnce
  <2> QED
    BY <1>1, <2>1 DEF NodesOnce
<1>6. ShownNames' = ShownNames
  <2>1. {h[i].name : i \in Shown} = {heap[i].name : i \in Shown}
    BY <1>2
  <2> QED
    BY <1>1, <2>1 DEF ShownNames
<1>7. RefsShown'
  <2>1. \A i \in Shown : h[i].refs \subseteq ShownNames
    BY <1>2 DEF Expansive, RefsShown
  <2> QED
    BY <1>1, <1>6, <2>1 DEF RefsShown
<1>8. NestedClosed'
  BY DEF Expansive, NestedClosed, Nested
<1>9. PoliciesGiven(t)'
  <2>1. \A i \in DOMAIN h : h[i].kind \in Policies =>
            \E j \in DOMAIN t :
                /\ SameFields(h[i], t[j])
                /\ t[j].kind = "ServerGroup" => h[i].name = t[j].name
    <3> SUFFICES ASSUME NEW i \in DOMAIN h, h[i].kind \in Policies
                 PROVE  \E j \in DOMAIN t :
                            /\ SameFields(h[i], t[j])
                            /\ t[j].kind = "ServerGroup" => h[i].name = t[j].name
      OBVIOUS
    <3>1. PICK j \in DOMAIN t :
            /\ SameFields(heap[i], t[j])
            /\ t[j].kind = "ServerGroup" => heap[i].name = t[j].name
      BY <1>2, <1>3 DEF Expansive, PoliciesGiven
    <3>2. SameFields(h[i], t[j])
      BY <1>2, <1>3, <3>1 DEF SameFields
    <3> QED
      BY <1>2, <1>3, <3>1, <3>2
  <2> QED
    BY <1>1, <2>1 DEF PoliciesGiven
<1>10. Paired(t)'
  <2>1. ASSUME NEW c \in DOMAIN t, t[c].kind = "ScalingPolicy", t[c].increment > 0
        PROVE  \E o \in Shown :
            /\ c \in Shown
            /\ \A i \in Shown : h[i].kind = "ScalingPolicy" => i \in {c, o}
            /\ h[c].kind = "ScalingPolicy" /\ h[c].policy = t[c].policy
            /\ h[c].name = Append(t[c].name, "scale_out") /\ h[c].adjustment = t[c].increment
            /\ h[o].kind = "ScalingPolicy" /\ h[o].policy = t[c].policy
            /\ h[o].name = Append(t[c].name, "scale_in") /\ h[o].adjustment = - t[c].increment
    <3>1. PICK o \in Shown :
            /\ c \in Shown
            /\ \A i \in Shown : heap[i].kind = "ScalingPolicy" => i \in {c, o}
            /\ heap[c].kind = "ScalingPolicy" /\ heap[c].policy = t[c].policy
            /\ heap[c].name = Append(t[c].name, "scale_out") /\ heap[c].adjustment = t[c].increment
            /\ heap[o].kind = "ScalingPolicy" /\ heap[o].policy = t[c].policy
            /\ heap[o].name = Append(t[c].name, "scale_in") /\ heap[o].adjustment = - t[c].increment
      BY <2>1, Zenon DEF Expansive, Paired
    <3>2. c \in DOMAIN heap /\ o \in DOMAIN heap
      BY <3>1
    <3>3. \A i \in Shown : h[i].kind = "ScalingPolicy" => i \in {c, o}
      BY <1>2, <3>1
    <3>4. /\ h[c].name = heap[c].name /\ h[c].kind = heap[c].kind /\ h[c].policy = heap[c].policy
          /\ h[c].adjustment = heap[c].adjustment
          /\ h[o].name = heap[o].name /\ h[o].kind = heap[o].kind /\ h[o].policy = heap[o].policy
          /\ h[o].adjustment = heap[o].adjustment
      BY <1>2, <3>2, Zenon
    <3> QED
      BY <3>1, <3>3, <3>4, Zenon
  <2> QED
    BY <1>1, <2>1, Zenon DEF Paired
<1>11. Alarmed(t)'
  <2>1. ASSUME NEW j \in DOMAIN t, t[j].kind \in AlarmPolicies
        PROVE  {h[i].name : i \in {i \in Shown : h[i].policy = t[j].policy /\ h[i].kind \in AlarmKinds}}
                    = AlarmNames(t[j])
    <3>1. {heap[i].name : i \in {i \in Shown : heap[i].policy = t[j].policy
                                                /\ heap[i].kind \in AlarmKinds}}
            = AlarmNames(t[j])
      BY <2>1 DEF Expansive, Alarmed
    <3>2. {i \in Shown : h[i].policy = t[j].policy /\ h[i].kind \in AlarmKinds}
            = {i \in Shown : heap[i].policy = t[j].policy /\ heap[i].kind \in AlarmKinds}
      BY <1>2
    <3> QED
      BY <1>2, <3>1, <3>2
  <2> QED
    BY <1>1, <2>1, Zenon DEF Alarmed
<1>12. Grouped(t)'
  <2>1. Nested' = Nested
    BY DEF Nested
  <2>2. ASSUME NEW g \in DOMAIN t, t[g].kind = "ServerGroup", NEW x \in Range(t[g].targets)
        PROVE  \/ \E i \in Shown : h[i].name = x /\ t[g].name \in h[i].refs /\ h[i].policy = NoPolicy
               \/ \E r \in Nested : r.name = x /\ t[g].name \in r.refs
    <3>1. \/ \E i \in Shown : /\ heap[i].name = x /\ t[g].name \in heap[i].refs
                              /\ heap[i].policy = NoPolicy
          \/ \E r \in Nested : r.name = x /\ t[g].name \in r.refs
      BY <2>2 DEF Expansive, Grouped
    <3> QED
      BY <1>2, <3>1
  <2> QED
    BY <1>1, <2>1, <2>2, Zenon DEF Grouped
<1> QED
  BY <1>4, <1>5, <1>7, <1>8, <1>9, <1>10, <1>11, <1>12 DEF Expansive

\* The resolution of functions keeps them.
LEMMA FunctionsStep ==
    ASSUME TypeOK, NEW t \in Topologies, Expansive(t), ResolveFunctions
    PROVE  Expansive(t)'
<1>1. PICK h : h = heap'
  OBVIOUS
<1>2. /\ h = [i \in DOMAIN heap |-> [heap[i] EXCEPT !.resolved = @ \/ i \in Range(Hot)]]
      /\ lists' = lists /\ nested' = nested
  BY <1>1 DEF ResolveFunctions
<1>3. DOMAIN h = DOMAIN heap
  BY <1>2
<1>4. ASSUME NEW i \in DOMAIN heap
      PROVE  SameResource(h[i], heap[i]) /\ h[i].hidden = heap[i].hidden
  <2>1. PICK r, b : r = heap[i] /\ b = (r.resolved \/ i \in Range(Hot))
    OBVIOUS
  <2>2. r \in ResourceRecord
    BY <2>1, ListsTyped
  <2>3. h[i] = [r EXCEPT !.resolved = b]
    BY <1>2, <2>1
  <2> QED
    BY <2>1, <2>2, <2>3 DEF SameResource, SameFields, ResourceRecord
<1>5. Hot' = Hot /\ Range(Hot) \subseteq DOMAIN heap
  BY <1>2, ListsTyped DEF Hot, Last
<1>6. Shown' = Shown /\ Shown \subseteq DOMAIN heap
  <2>1. Shown' = {i \in Range(Hot) : ~ h[i].hidden}
    BY <1>1, <1>5 DEF Shown, Range
  <2> QED
    BY <1>4, <1>5, <2>1 DEF Shown
<1> QED
  BY <1>1, <1>2, <1>3, <1>4, <1>6, ExpansiveKept

\* A step keeps the invariant.
LEMMA InvStep ==
    ASSUME Regular, TypeOK, HotOnce, NEW t \in Topologies, Inv(t), [Next]_vars
    PROVE  Inv(t)'
<1>1. ASSUME stage' \in {"properties", "expansion"} PROVE Walking(t)'
  <2>1. stage \in {"properties", "expansion"}
    BY <1>1 DEF Next, HandleResource, HandlePlacement, HandleScaling, HandleCluster, AtKind, Fail,
       FinishProperties, Expand, ResolveFunctions, vars
  <2>2. Walking(t)
    BY <2>1 DEF Inv
  <2> QED
    BY <1>1, <2>2, WalkStep
<1>2. ASSUME stage' \in {"functions", "written"} PROVE Expansive(t)'
  <2>1. CASE Expand
    <3>1. Walking(t)
      BY <2>1 DEF Expand, Inv
    <3> QED
      BY <2>1, <3>1, ExpandStep
  <2>2. CASE ResolveFunctions
    <3>1. Expansive(t)
      BY <2>2 DEF ResolveFunctions, Inv
    <3> QED
      BY <2>2, <3>1, FunctionsStep
  <2>3. CASE UNCHANGED vars
    <3>1. heap' = heap /\ lists' = lists /\ nested' = nested /\ stage' = stage
      BY <2>3 DEF vars
    <3>2. Expansive(t)
      BY <1>2, <3>1 DEF Inv
    <3>3. Shown' = Shown /\ Shown \subseteq DOMAIN heap
      BY <3>1, ListsTyped DEF Shown, Hot, Last, Range
    <3>4. \A i \in DOMAIN heap : SameResource(heap'[i], heap[i])
      BY <3>1 DEF SameResource, SameFields
    <3> QED
      BY <3>1, <3>2, <3>3, <3>4, ExpansiveKept
  <2>4. CASE HandleResource \/ HandlePlacement \/ HandleScaling \/ HandleCluster \/ Fail
                \/ FinishProperties
    <3>1. stage' \in {"properties", "expansion", "failed"}
      BY <2>4 DEF HandleResource, HandlePlacement, HandleScaling, HandleCluster, AtKind, Fail,
                  FinishProperties
    <3> QED
      BY <1>2, <3>1
  <2> QED
    BY <2>1, <2>2, <2>3, <2>4 DEF Next
<1> QED
  BY <1>1, <1>2, Zenon DEF Inv

\* The topology that was given, and what the invariant says of it.
Holds == TypeOK /\ HotOnce /\ \E t \in Topologies : Inv(t)

\* The invariant holds in every state.
LEMMA InvHolds ==
    Regular /\ Spec => []Holds
<1> SUFFICES ASSUME Regular PROVE Spec => []Holds
  OBVIOUS
<1>1. Init => Holds
  <2> SUFFICES ASSUME Init PROVE Holds
    OBVIOUS
  <2>1. HotOnce /\ \E t \in Topologies : Walking(t)
    BY WalkInit
  <2>2. stage = "properties"
    BY DEF Init
  <2> QED
    BY <2>1, <2>2, TypeInit DEF Holds, Inv
<1>2. Holds /\ [Next]_vars => Holds'
  <2> SUFFICES ASSUME Holds, [Next]_vars PROVE Holds'
    OBVIOUS
  <2>1. TypeOK /\ HotOnce
    BY DEF Holds
  <2>2. PICK t \in Topologies : Inv(t)
    BY DEF Holds
  <2>3. TypeOK' /\ HotOnce' /\ Inv(t)'
    BY <2>1, <2>2, TypeStep, OnceStep, InvStep
  <2> QED
    BY <2>3 DEF Holds
<1> QED
  BY <1>1, <1>2, PTL DEF Spec

\* The invariant has the properties of the output.
LEMMA HoldsShown ==
    ASSUME Regular, Holds
    PROVE  MergesAlike /\ OutputClosed /\ PoliciesKept
<1>1. PICK t \in Topologies : Inv(t)
  BY DEF Holds
<1>2. TypeOK /\ HotOnce
  BY DEF Holds
<1>3. CASE stage = "written"
  <2>1. Expansive(t)
    BY <1>1, <1>3 DEF Inv
  <2> QED
    BY <1>2, <2>1, ShownProperties
<1>4. CASE stage # "written"
  BY <1>4 DEF MergesAlike, OutputClosed, PoliciesKept, ScalingPaired, AlarmPerTrigger,
              PlacementKept, Written
<1> QED
  BY <1>3, <1>4

\* No resource is twice in self.hot_resources, whichever policy replaced or
\* changed it, so that none is written or expanded twice.
THEOREM ListHasNoneTwice == Regular /\ Spec => []HotOnce
<1> SUFFICES ASSUME Regular PROVE Spec => []HotOnce
  OBVIOUS
<1>1. Holds => HotOnce
  BY DEF Holds
<1> QED
  BY <1>1, InvHolds, PTL

\* Resources that the output merges are of one policy: for every topology that
\* is regular, whatever its policies scale or cluster.
THEOREM MergesAreAlike == Regular /\ Spec => []MergesAlike
<1> SUFFICES ASSUME Regular PROVE Spec => []MergesAlike
  OBVIOUS
<1>1. Holds => MergesAlike
  BY HoldsShown
<1> QED
  BY <1>1, InvHolds, PTL

\* What the output or the nested template refers to is in it.
THEOREM PolicyOutputIsClosed == Regular /\ Spec => []OutputClosed
<1> SUFFICES ASSUME Regular PROVE Spec => []OutputClosed
  OBVIOUS
<1>1. Holds => OutputClosed
  BY HoldsShown
<1> QED
  BY <1>1, InvHolds, PTL

\* Every policy is in the output: the two scaling policies, an alarm for each
\* trigger and the group in the hints of each target of a placement.
THEOREM PoliciesAreKept == Regular /\ Spec => []PoliciesKept
<1> SUFFICES ASSUME Regular PROVE Spec => []PoliciesKept
  OBVIOUS
<1>1. Holds => PoliciesKept
  BY HoldsShown
<1> QED
  BY <1>1, InvHolds, PTL
=============================================================================
