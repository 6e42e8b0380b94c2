------------------------ MODULE ServerMatching_proofs ------------------------
(* Proofs of the properties of ServerMatching, for any catalogs and queries, *)
(* and of Catalog, which keeps the catalogs, for any entries.               *)
EXTENDS ServerMatching, Catalog, SequenceLemmas

-----------------------------------------------------------------------------
(* The flavor.                                                              *)

\* The least flavor is one of those that fit, and none of them has less memory.
LEMMA LeastProperty ==
    ASSUME NEW flavors \in Seq(Flavors), NEW some \in SUBSET DOMAIN flavors, some # {}
    PROVE  /\ Least(flavors, some) \in some
           /\ \A g \in some :
                flavors[Least(flavors, some)].mem_size <= flavors[g].mem_size
<1> DEFINE sizes == {flavors[f].mem_size : f \in some}
           small == {f \in some : flavors[f].mem_size = Min(sizes)}
<1>1. /\ some \in SUBSET Nat
      /\ \A f \in some : flavors[f].mem_size \in Nat
  <2>1. \A f \in DOMAIN flavors : flavors[f] \in Flavors /\ f \in Nat
    OBVIOUS
  <2>2. \A f \in DOMAIN flavors : flavors[f].mem_size \in Nat
    BY <2>1 DEF Flavors
  <2> QED
    BY <2>1, <2>2
<1>2. Min(sizes) \in sizes /\ \A m \in sizes : Min(sizes) <= m
  <2>1. sizes \in SUBSET Nat /\ sizes # {}
    BY <1>1
  <2> HIDE DEF sizes
  <2> QED
    BY <2>1, MinProperty
<1>3. PICK m : m = Min(sizes)
  OBVIOUS
<1>4. /\ m \in Nat /\ \E f \in some : flavors[f].mem_size = m
      /\ \A f \in some : m <= flavors[f].mem_size
  BY <1>1, <1>2, <1>3
<1>5. small \in SUBSET Nat /\ small # {}
  BY <1>1, <1>3, <1>4
<1>6. Min(small) \in small /\ \A f \in small : Min(small) <= f
  <2> HIDE DEF small
  <2> QED
    BY <1>5, MinProperty
<1>7. PICK f : f = Min(small)
  OBVIOUS
<1>8. /\ f \in some /\ flavors[f].mem_size = m
      /\ \A g \in some : flavors[g].mem_size = m => f <= g
  BY <1>3, <1>6, <1>7
<1>9. \A g \in some :
        \/ flavors[f].mem_size < flavors[g].mem_size
        \/ flavors[f].mem_size = flavors[g].mem_size /\ f <= g
  BY <1>1, <1>4, <1>8
<1>10. /\ Least(flavors, some) \in some
       /\ \A g \in some :
            \/ flavors[Least(flavors, some)].mem_size < flavors[g].mem_size
            \/ /\ flavors[Least(flavors, some)].mem_size = flavors[g].mem_size
               /\ Least(flavors, some) <= g
  BY <1>8, <1>9 DEF Least
<1> QED
  BY <1>1, <1>10

\* What the conversion leaves of a size is a number.
LEMMA AmountIsNat ==
    ASSUME NEW value \in Value, NEW unit \in {"B", "MB", "GB"}
    PROVE  Amount(value, unit) \in Nat
<1>1. \A u \in Units : UnitSize(u) \in Nat \ {0}
  BY DEF Units, UnitSize
<1>2. UnitSize(unit) \in Nat \ {0}
  BY DEF UnitSize
<1>3. \A a \in Nat : \A b \in Nat \ {0} : a \div b \in Nat
  OBVIOUS
<1>4. \A a, b \in Nat : a * b \in Nat
  OBVIOUS
<1> QED
  BY <1>1, <1>2, <1>3, <1>4 DEF Amount, ToNum, Value

\* Whatever fits the host that asks for more fits the other.
LEMMA FewerFit ==
    ASSUME NEW flavors \in Seq(Flavors), NEW host \in Properties, NEW more \in Properties,
           AsksMore(more, host)
    PROVE  Fits(flavors, more) \subseteq Fits(flavors, host)
<1>1. \A value \in Value : /\ Amount(value, "B") \in Nat
                           /\ Amount(value, "MB") \in Nat /\ Amount(value, "GB") \in Nat
  BY AmountIsNat
<1>2. /\ Plain(host.num_cpus) /\ Plain(more.num_cpus)
      /\ Amount(host.num_cpus, "B") <= Amount(more.num_cpus, "B")
      /\ Amount(host.mem_size, "MB") <= Amount(more.mem_size, "MB")
      /\ Amount(host.disk_size, "GB") <= Amount(more.disk_size, "GB")
  <2>1. DOMAIN host = {"num_cpus", "mem_size", "disk_size"}
    BY DEF Properties
  <2> QED
    BY <2>1 DEF AsksMore
<1>3. ASSUME NEW small \in Nat, NEW large \in Nat, small <= large,
             NEW few, NEW some, few \subseteq some, some \subseteq DOMAIN flavors,
             NEW attr \in {"num_cpus", "mem_size", "disk_size"}
      PROVE  /\ MatchFlavors(flavors, few, attr, large)
                    \subseteq MatchFlavors(flavors, some, attr, small)
             /\ MatchFlavors(flavors, some, attr, small) \subseteq DOMAIN flavors
  <2>1. \A f \in DOMAIN flavors : flavors[f] \in Flavors
    OBVIOUS
  <2>2. \A f \in DOMAIN flavors : /\ flavors[f].num_cpus \in Nat
                                  /\ flavors[f].mem_size \in Nat
                                  /\ flavors[f].disk_size \in Nat
    BY <2>1 DEF Flavors
  <2>3. \A f \in DOMAIN flavors : flavors[f][attr] \in Nat
    BY <2>2
  <2> QED
    BY <1>3, <2>3 DEF MatchFlavors
<1>4. /\ host.num_cpus \in Value /\ more.num_cpus \in Value
      /\ host.mem_size \in Value /\ more.mem_size \in Value
      /\ host.disk_size \in Value /\ more.disk_size \in Value
  BY DEF Properties
<1> DEFINE cpu(h)  == MatchFlavors(flavors, DOMAIN flavors, "num_cpus", Amount(h.num_cpus, "B"))
           mem(h)  == MatchFlavors(flavors, cpu(h), "mem_size", Amount(h.mem_size, "MB"))
           disk(h) == MatchFlavors(flavors, mem(h), "disk_size", Amount(h.disk_size, "GB"))
<1>5. Fits(flavors, more) = disk(more) /\ Fits(flavors, host) = disk(host)
  BY <1>2 DEF Fits, MatchCpus, Plain
<1>6. cpu(more) \subseteq cpu(host) /\ cpu(host) \subseteq DOMAIN flavors
  <2>1. Amount(host.num_cpus, "B") \in Nat /\ Amount(more.num_cpus, "B") \in Nat
    BY <1>1, <1>4
  <2> QED
    BY <1>2, <1>3, <2>1
<1>7. mem(more) \subseteq mem(host) /\ mem(host) \subseteq DOMAIN flavors
  <2>1. Amount(host.mem_size, "MB") \in Nat /\ Amount(more.mem_size, "MB") \in Nat
    BY <1>1, <1>4
  <2> HIDE DEF cpu
  <2> QED
    BY <1>2, <1>3, <1>6, <2>1
<1>8. disk(more) \subseteq disk(host)
  <2>1. Amount(host.disk_size, "GB") \in Nat /\ Amount(more.disk_size, "GB") \in Nat
    BY <1>1, <1>4
  <2> HIDE DEF mem
  <2> QED
    BY <1>2, <1>3, <1>7, <2>1
<1> QED
  BY <1>5, <1>8

-----------------------------------------------------------------------------
(* The invariant: what was chosen so far.                                   *)

Chosen ==
    /\ query \in Queries /\ step \in {"flavor", "image", "done"}
    /\ flavor = IF step # "flavor" /\ Asked(query.host, Absent)
                THEN BestFlavor(query.flavors, query.host) ELSE None
    /\ image  = IF step = "done" /\ Asked(query.os, None)
                THEN BestImage(query.images, query.os) ELSE None

\* The two choices are made once, from the catalogs of the query.
LEMMA ChosenInvariance == Spec => []Chosen
<1>1. Init => Chosen
  BY DEF Init, Chosen
<1>2. Chosen /\ [Next]_vars => Chosen'
  <2> SUFFICES ASSUME Chosen, [Next]_vars PROVE Chosen'
    OBVIOUS
  <2>1. CASE ChooseFlavor
    BY <2>1 DEF ChooseFlavor, Chosen
  <2>2. CASE ChooseImage
    BY <2>2 DEF ChooseImage, Chosen
  <2>3. CASE UNCHANGED vars
    BY <2>3 DEF vars, Chosen
  <2> QED
    BY <2>1, <2>2, <2>3 DEF Next
<1> QED
  BY <1>1, <1>2, PTL DEF Spec

\* A flavor that was chosen fits what the host asks for, and is the least.
LEMMA FlavorChosen ==
    ASSUME Chosen, flavor # None
    PROVE  /\ query.flavors \in Seq(Flavors) /\ query.host \in Properties
           /\ flavor \in Fits(query.flavors, query.host)
<1>1. Asked(query.host, Absent) /\ flavor = BestFlavor(query.flavors, query.host)
  BY DEF Chosen
<1>2. query.flavors \in Seq(Flavors) /\ query.host \in Properties
  BY <1>1, QueriesAssumption DEF Chosen
<1>3. Fits(query.flavors, query.host) \in SUBSET DOMAIN query.flavors
  BY DEF Fits, MatchFlavors, MatchCpus
<1> QED
  BY <1>1, <1>2, <1>3, LeastProperty DEF BestFlavor

\* Whatever the catalog and the two hosts, the host that asks for at least as
\* much of everything never gets a server with less memory, and a host gets one
\* if the other does.
THEOREM MoreGetMore == Spec => []MoreForMore
<1>1. Chosen => MoreForMore
  <2> SUFFICES ASSUME Chosen, step = "image", Asked(query.host, Absent),
                      NEW more \in Hosts, AsksMore(more, query.host),
                      BestFlavor(query.flavors, more) # None
               PROVE  /\ flavor # None
                      /\ query.flavors[flavor].mem_size
                            <= query.flavors[BestFlavor(query.flavors, more)].mem_size
    BY DEF MoreForMore
  <2> DEFINE fits == Fits(query.flavors, query.host)
             few  == Fits(query.flavors, more)
  <2>1. query.flavors \in Seq(Flavors) /\ query.host \in Properties /\ more \in Properties
    BY QueriesAssumption DEF Chosen
  <2>2. few \subseteq fits
    BY <2>1, FewerFit
  <2>3. fits \in SUBSET DOMAIN query.flavors
    BY DEF Fits, MatchFlavors, MatchCpus
  <2>4. few # {} /\ BestFlavor(query.flavors, more) = Least(query.flavors, few)
    BY DEF BestFlavor
  <2>5. flavor = Least(query.flavors, fits)
    BY <2>2, <2>4 DEF Chosen, BestFlavor
  <2> HIDE DEF fits, few
  <2>6. few \in SUBSET DOMAIN query.flavors /\ fits # {}
    BY <2>2, <2>3, <2>4
  <2>7. Least(query.flavors, few) \in few
    BY <2>1, <2>4, <2>6, LeastProperty
  <2>8. /\ Least(query.flavors, fits) \in fits
        /\ \A g \in fits : query.flavors[Least(query.flavors, fits)].mem_size
                                <= query.flavors[g].mem_size
    BY <2>1, <2>3, <2>6, LeastProperty
  <2>9. flavor \in Nat
    BY <2>1, <2>3, <2>5, <2>8
  <2> QED
    BY <2>2, <2>4, <2>5, <2>7, <2>8, <2>9, QueriesAssumption
<1> QED
  BY <1>1, ChosenInvariance, PTL

\* The flavor that was chosen has the memory that is asked for, but for less
\* than one MB: the conversion rounds down.
LEMMA ChosenFits == Chosen => FlavorFits
<1> SUFFICES ASSUME Chosen, flavor # None, query.host.mem_size.is = "size",
                    query.host.mem_size.unit # None, Plain(query.host.mem_size)
             PROVE  (query.flavors[flavor].mem_size + 1) * UnitSize("MB")
                      > query.host.mem_size.num * UnitSize(query.host.mem_size.unit)
  BY DEF FlavorFits
<1>1. /\ query.flavors \in Seq(Flavors) /\ query.host \in Properties
      /\ flavor \in Fits(query.flavors, query.host)
  BY FlavorChosen
<1>2. /\ query.host.mem_size \in Value /\ query.host.mem_size.num \in Nat
      /\ query.host.mem_size.unit \in Units
  <2>1. query.host.mem_size \in Value
    BY <1>1 DEF Properties
  <2> QED
    BY <2>1 DEF Value
<1>3. PICK bytes : bytes = query.host.mem_size.num * UnitSize(query.host.mem_size.unit)
  OBVIOUS
<1>4. bytes \in Nat
  <2>1. UnitSize(query.host.mem_size.unit) \in Nat
    BY <1>2 DEF Units, UnitSize
  <2>2. \A a, b \in Nat : a * b \in Nat
    OBVIOUS
  <2> QED
    BY <1>2, <1>3, <2>1, <2>2
<1>0. UnitSize("MB") = 1000000
  BY DEF UnitSize
<1>5. Amount(query.host.mem_size, "MB") = bytes \div 1000000
  <2>1. Amount(query.host.mem_size, "MB") = bytes \div UnitSize("MB")
    BY <1>3, Zenon DEF Amount, ToNum, Plain
  <2> QED
    BY <1>0, <2>1
<1>6. /\ flavor \in DOMAIN query.flavors
      /\ \/ Amount(query.host.mem_size, "MB") = 0
         \/ query.flavors[flavor].mem_size >= Amount(query.host.mem_size, "MB")
  BY <1>1 DEF Fits, MatchFlavors, MatchCpus
<1>7. PICK m : m = query.flavors[flavor].mem_size
  OBVIOUS
<1>8. m \in Nat
  <2>1. query.flavors[flavor] \in Flavors
    BY <1>1, <1>6
  <2> QED
    BY <1>7, <2>1 DEF Flavors
<1>9. bytes \div 1000000 <= m
  <2>1. bytes \div 1000000 = 0 \/ m >= bytes \div 1000000
    BY <1>5, <1>6, <1>7
  <2> QED
    BY <1>4, <1>8, <2>1
<1>10. (m + 1) * 1000000 > bytes
  BY <1>4, <1>8, <1>9
<1> QED
  BY <1>0, <1>3, <1>7, <1>10

-----------------------------------------------------------------------------
(* The image.                                                               *)

\* Under one of the keys the image says nothing, or what is asked for.
Silent(images, i, keys)     == \E key \in keys : images[i][key] = None
Says(images, i, keys, prop) == \E key \in keys : images[i][key] = prop

\* What the keys make of a list: an image goes to it if it is silent or says what
\* is asked for, and to the front in the second case.
Placed(placed, list, images, i, keys, prop) ==
    /\ ToSet(placed) = IF Silent(images, i, keys) \/ Says(images, i, keys, prop)
                       THEN ToSet(list) \cup {i} ELSE ToSet(list)
    /\ Says(images, i, keys, prop) => placed # <<>> /\ Head(placed) = i
    /\ ~ Says(images, i, keys, prop) /\ list # <<>> =>
            placed # <<>> /\ Head(placed) = Head(list)

\* One turn of the inner loop.
LEMMA PlaceImageFacts ==
    ASSUME NEW images, NEW prop, NEW key, NEW S, NEW i \in S, NEW list \in Seq(S),
           prop # None
    PROVE  /\ PlaceImage(images, prop, list, i, key) \in Seq(S)
           /\ Placed(PlaceImage(images, prop, list, i, key), list, images, i, {key}, prop)
<1> DEFINE placed == PlaceImage(images, prop, list, i, key)
<1>1. CASE images[i][key] = None
  <2>1. placed = Append(list, i)
    BY <1>1 DEF PlaceImage
  <2>2. Append(list, i) \in Seq(S) /\ ToSet(Append(list, i)) = ToSet(list) \cup {i}
    BY AppendElements
  <2>3. Append(list, i) # <<>> /\ (list # <<>> => Head(Append(list, i)) = Head(list))
    <3>1. /\ Len(Append(list, i)) = Len(list) + 1 /\ Len(list) \in Nat
          /\ \A k \in 1..Len(list) : Append(list, i)[k] = list[k]
      BY AppendProperties
    <3>2. list # <<>> => Len(list) >= 1
      BY <3>1, EmptySeq
    <3>3. PICK longer : longer = Append(list, i)
      OBVIOUS
    <3>4. longer \in Seq(S) /\ Len(longer) >= 1 /\ longer # <<>> /\ Head(longer) = longer[1]
      BY <2>2, <3>1, <3>3
    <3>5. list # <<>> => Head(list) = list[1] /\ longer[1] = list[1]
      BY <3>1, <3>2, <3>3
    <3> QED
      BY <3>3, <3>4, <3>5
  <2> QED
    BY <1>1, <2>1, <2>2, <2>3 DEF Placed, Silent, Says
<1>2. CASE images[i][key] # None /\ images[i][key] = prop
  <2>1. placed = <<i>> \o list
    BY <1>2 DEF PlaceImage
  <2>2. <<i>> \in Seq(S) /\ ToSet(<<i>>) = {i}
    BY DEF ToSet
  <2>3. <<i>> \o list \in Seq(S) /\ ToSet(<<i>> \o list) = {i} \cup ToSet(list)
    <3>1. PICK front : front = <<i>>
      OBVIOUS
    <3>2. front \in Seq(S) /\ ToSet(front) = {i}
      BY <2>2, <3>1
    <3>3. front \o list \in Seq(S) /\ ToSet(front \o list) = {i} \cup ToSet(list)
      BY <3>2, ConcatElements
    <3> QED
      BY <3>1, <3>3
  <2>4. <<i>> \o list # <<>> /\ Head(<<i>> \o list) = i
    OBVIOUS
  <2> QED
    BY <1>2, <2>1, <2>3, <2>4 DEF Placed, Silent, Says
<1>3. CASE images[i][key] # None /\ images[i][key] # prop
  <2>1. placed = list
    BY <1>3 DEF PlaceImage
  <2> QED
    BY <1>3, <2>1 DEF Placed, Silent, Says
<1> QED
  BY <1>1, <1>2, <1>3

\* f holds the lists of the inner loop.
IsKeysLoop(f, images, prop, list, i, keys, S) ==
    /\ f \in [0..Len(keys) -> Seq(S)]
    /\ f[0] = list /\ PlaceByKeys(images, prop, list, i, keys) = f[Len(keys)]
    /\ \A k \in 1..Len(keys) : f[k] = PlaceImage(images, prop, f[k - 1], i, keys[k])

\* The lists of the inner loop exist: it is a loop from list to list.
LEMMA KeysLoop ==
    ASSUME NEW images, NEW prop, NEW keys, Len(keys) \in Nat, NEW S, NEW i \in S,
           NEW list \in Seq(S), prop # None
    PROVE  \E f : IsKeysLoop(f, images, prop, list, i, keys, S)
<1> DEFINE turn == [k \in 1..Len(keys) |->
                        [l \in Seq(S) |-> PlaceImage(images, prop, l, i, keys[k])]]
           Body(f, k) == IF k = 0 THEN list ELSE PlaceImage(images, prop, f[k - 1], i, keys[k])
           placed == CHOOSE f : f = [k \in 0..Len(keys) |-> Body(f, k)]
<1>1. PlaceByKeys(images, prop, list, i, keys) = placed[Len(keys)]
  BY DEF PlaceByKeys
<1>2. turn \in [1..Len(keys) -> [Seq(S) -> Seq(S)]]
  BY PlaceImageFacts
<1>3. PICK f : /\ f \in [0..Len(keys) -> Seq(S)] /\ f[0] = list
               /\ \A k \in 1..Len(keys) : f[k] = turn[k][f[k - 1]]
  <2> HIDE DEF turn
  <2>1. \E f : IsLoop(f, Seq(S), Len(keys), list, turn)
    BY <1>2, LoopExists
  <2> QED
    BY <2>1 DEF IsLoop
<1>4. \A k \in 0..Len(keys) : f[k] = Body(f, k)
  <2>1. \A k \in 0..Len(keys) : k # 0 => k \in 1..Len(keys) /\ k - 1 \in 0..Len(keys)
    OBVIOUS
  <2> QED
    BY <1>3, <2>1
<1>5. f = [k \in 0..Len(keys) |-> Body(f, k)]
  <2> HIDE DEF Body, turn
  <2> QED
    BY <1>3, <1>4
<1>6. placed = [k \in 0..Len(keys) |-> Body(placed, k)]
  <2> HIDE DEF Body
  <2> QED
    BY <1>5
<1> HIDE DEF placed
<1>7. /\ placed[0] = list /\ DOMAIN placed = 0..Len(keys)
      /\ \A k \in 1..Len(keys) : placed[k] = PlaceImage(images, prop, placed[k - 1], i, keys[k])
  <2>1. \A k \in 0..Len(keys) : placed[k] = Body(placed, k)
    <3> HIDE DEF Body
    <3> QED
      BY <1>6
  <2>2. 0 \in 0..Len(keys) /\ \A k \in 1..Len(keys) : k \in 0..Len(keys) /\ k # 0
    OBVIOUS
  <2>3. DOMAIN placed = 0..Len(keys)
    <3> HIDE DEF Body
    <3> QED
      BY <1>6
  <2> QED
    BY <2>1, <2>2, <2>3
<1>8. placed \in [0..Len(keys) -> Seq(S)]
  <2> DEFINE fine == {k \in 0..Len(keys) : placed[k] \in Seq(S)}
  <2>1. 0 \in fine
    BY <1>7
  <2>2. ASSUME NEW k \in 0..(Len(keys) - 1), k \in fine PROVE k + 1 \in fine
    <3>1. k + 1 \in 1..Len(keys) /\ k + 1 \in 0..Len(keys) /\ (k + 1) - 1 = k
      OBVIOUS
    <3>2. placed[k + 1] = PlaceImage(images, prop, placed[k], i, keys[k + 1])
      BY <1>7, <3>1
    <3>3. PICK l, key : l = placed[k] /\ key = keys[k + 1]
      OBVIOUS
    <3>4. l \in Seq(S)
      BY <2>2, <3>3
    <3>5. PlaceImage(images, prop, l, i, key) \in Seq(S)
      BY <3>4, PlaceImageFacts
    <3> QED
      BY <3>1, <3>2, <3>3, <3>5
  <2> HIDE DEF fine
  <2>3. \A k \in 0..Len(keys) : k \in fine
    BY <2>1, <2>2, Reaches
  <2>4. placed = [k \in 0..Len(keys) |-> placed[k]]
    <3> HIDE DEF Body
    <3> QED
      BY <1>6
  <2> QED
    BY <2>3, <2>4 DEF fine
<1> QED
  BY <1>1, <1>7, <1>8 DEF IsKeysLoop

\* The keys one after the other.
LEMMA PlacedTwice ==
    ASSUME NEW images, NEW prop, NEW i, NEW few, NEW more, NEW list, NEW first, NEW last,
           Placed(first, list, images, i, few, prop),
           Placed(last, first, images, i, more, prop)
    PROVE  Placed(last, list, images, i, few \cup more, prop)
<1>1. /\ Silent(images, i, few \cup more) <=> Silent(images, i, few) \/ Silent(images, i, more)
      /\ Says(images, i, few \cup more, prop) <=>
            Says(images, i, few, prop) \/ Says(images, i, more, prop)
  BY DEF Silent, Says
<1> QED
  BY <1>1 DEF Placed

\* The inner loop places an image by all keys.
LEMMA PlaceByKeysFacts ==
    ASSUME NEW images, NEW prop, NEW keys, Len(keys) \in Nat,
           DOMAIN keys = 1..Len(keys), NEW S, NEW i \in S,
           NEW list \in Seq(S), prop # None
    PROVE  LET placed == PlaceByKeys(images, prop, list, i, keys) IN
           placed \in Seq(S) /\ Placed(placed, list, images, i, ToSet(keys), prop)
<1>1. PICK f : /\ f \in [0..Len(keys) -> Seq(S)] /\ f[0] = list
               /\ PlaceByKeys(images, prop, list, i, keys) = f[Len(keys)]
               /\ \A k \in 1..Len(keys) :
                        f[k] = PlaceImage(images, prop, f[k - 1], i, keys[k])
  <2>1. \E f : IsKeysLoop(f, images, prop, list, i, keys, S)
    BY KeysLoop
  <2> QED
    BY <2>1 DEF IsKeysLoop
<1> DEFINE seen(n) == {keys[k] : k \in 1..n}
           fine == {n \in 0..Len(keys) : Placed(f[n], list, images, i, seen(n), prop)}
<1>2. 0 \in fine
  <2>1. seen(0) = {}
    OBVIOUS
  <2>2. Placed(list, list, images, i, {}, prop)
    BY DEF Placed, Silent, Says
  <2> HIDE DEF seen
  <2>3. Placed(f[0], list, images, i, seen(0), prop)
    BY <1>1, <2>1, <2>2
  <2> QED
    BY <2>3
<1>3. ASSUME NEW n \in 0..(Len(keys) - 1), n \in fine PROVE n + 1 \in fine
  <2>1. /\ n + 1 \in 1..Len(keys) /\ n + 1 \in 0..Len(keys) /\ (n + 1) - 1 = n
        /\ n \in 0..Len(keys) /\ 1..(n + 1) = 1..n \cup {n + 1}
    OBVIOUS
  <2>2. f[n + 1] = PlaceImage(images, prop, f[n], i, keys[n + 1]) /\ f[n] \in Seq(S)
    BY <1>1, <2>1
  <2>3. PICK l, key : l = f[n] /\ key = keys[n + 1]
    OBVIOUS
  <2>4. Placed(PlaceImage(images, prop, l, i, key), l, images, i, {key}, prop)
    <3>1. l \in Seq(S)
      BY <2>2, <2>3
    <3> QED
      BY <3>1, PlaceImageFacts
  <2>5. seen(n + 1) = seen(n) \cup {key}
    BY <2>1, <2>3
  <2> HIDE DEF seen
  <2>6. Placed(l, list, images, i, seen(n), prop)
    BY <1>3, <2>3
  <2>7. Placed(PlaceImage(images, prop, l, i, key), list, images, i, seen(n) \cup {key}, prop)
    BY <2>4, <2>6, PlacedTwice
  <2> QED
    BY <2>1, <2>2, <2>3, <2>5, <2>7
<1>4. \A n \in 0..Len(keys) : n \in fine
  <2> HIDE DEF fine
  <2> QED
    BY <1>2, <1>3, Reaches
<1>5. Len(keys) \in fine /\ f[Len(keys)] \in Seq(S)
  <2> HIDE DEF fine
  <2> QED
    BY <1>1, <1>4
<1>6. seen(Len(keys)) = ToSet(keys)
  BY DEF ToSet
<1> HIDE DEF seen
<1> QED
  BY <1>1, <1>5, <1>6

\* f holds the lists of the outer loop.
IsImagesLoop(f, images, some, keys, prop, S) ==
    /\ f \in [0..Len(some) -> Seq(S)]
    /\ f[0] = <<>> /\ MatchImages(images, some, keys, prop) = f[Len(some)]
    /\ \A n \in 1..Len(some) : f[n] = PlaceByKeys(images, prop, f[n - 1], some[n], keys)

\* The lists of the outer loop exist.
LEMMA ImagesLoop ==
    ASSUME NEW images, NEW prop, NEW keys, Len(keys) \in Nat,
           DOMAIN keys = 1..Len(keys), NEW S, NEW some \in Seq(S), prop # None
    PROVE  \E f : IsImagesLoop(f, images, some, keys, prop, S)
<1> DEFINE k == Len(some)
           turn == [n \in 1..k |->
                        [l \in Seq(S) |-> PlaceByKeys(images, prop, l, some[n], keys)]]
           Body(f, n) == IF n = 0 THEN <<>>
                         ELSE PlaceByKeys(images, prop, f[n - 1], some[n], keys)
           matching == CHOOSE f : f = [n \in 0..k |-> Body(f, n)]
<1>1. MatchImages(images, some, keys, prop) = matching[k]
  BY DEF MatchImages
<1>2. /\ k \in Nat /\ <<>> \in Seq(S)
      /\ \A n \in 1..k : some[n] \in S
  OBVIOUS
<1>3. \A n \in 1..k : \A l \in Seq(S) : PlaceByKeys(images, prop, l, some[n], keys) \in Seq(S)
  BY <1>2, PlaceByKeysFacts
<1>4. turn \in [1..k -> [Seq(S) -> Seq(S)]]
  BY <1>3
<1>5. PICK f : /\ f \in [0..k -> Seq(S)] /\ f[0] = <<>>
               /\ \A n \in 1..k : f[n] = turn[n][f[n - 1]]
  <2> HIDE DEF turn, k
  <2>1. \E f : IsLoop(f, Seq(S), k, <<>>, turn)
    BY <1>2, <1>4, LoopExists
  <2> QED
    BY <2>1 DEF IsLoop
<1>6. \A n \in 0..k : f[n] = Body(f, n)
  <2>1. \A n \in 0..k : n # 0 => n \in 1..k /\ n - 1 \in 0..k
    BY <1>2
  <2> HIDE DEF k
  <2> QED
    BY <1>5, <2>1
<1>7. f = [n \in 0..k |-> Body(f, n)]
  <2> HIDE DEF Body, turn, k
  <2> QED
    BY <1>5, <1>6
<1>8. matching = [n \in 0..k |-> Body(matching, n)]
  <2> HIDE DEF Body, k
  <2> QED
    BY <1>7
<1> HIDE DEF matching
<1>9. /\ matching[0] = <<>> /\ DOMAIN matching = 0..k
      /\ \A n \in 1..k : matching[n] = PlaceByKeys(images, prop, matching[n - 1], some[n], keys)
  <2>1. DOMAIN matching = 0..k /\ \A n \in 0..k : matching[n] = Body(matching, n)
    <3> HIDE DEF Body, k
    <3> QED
      BY <1>8
  <2>2. 0 \in 0..k /\ \A n \in 1..k : n \in 0..k /\ n # 0
    BY <1>2
  <2> HIDE DEF k
  <2> QED
    BY <2>1, <2>2
<1>10. matching \in [0..k -> Seq(S)]
  <2> DEFINE fine == {n \in 0..k : matching[n] \in Seq(S)}
  <2>1. 0 \in fine
    <3>1. 0 \in 0..k /\ matching[0] \in Seq(S)
      BY <1>2, <1>9
    <3> QED
      BY <3>1
  <2>2. ASSUME NEW n \in 0..(k - 1), n \in fine PROVE n + 1 \in fine
    <3>1. n + 1 \in 1..k /\ n + 1 \in 0..k /\ (n + 1) - 1 = n
      BY <1>2
    <3>2. matching[n + 1] = PlaceByKeys(images, prop, matching[n], some[n + 1], keys)
      BY <1>9, <3>1
    <3> HIDE DEF k
    <3> QED
      BY <1>3, <2>2, <3>1, <3>2
  <2> HIDE DEF fine
  <2>3. \A n \in 0..k : n \in fine
    BY <1>2, <2>1, <2>2, Reaches
  <2>4. matching = [n \in 0..k |-> matching[n]]
    <3> HIDE DEF Body, k
    <3> QED
      BY <1>8
  <2> QED
    BY <2>3, <2>4 DEF fine
<1> QED
  BY <1>1, <1>9, <1>10 DEF IsImagesLoop

\* The images that are silent or say what is asked for; if one of them says it,
\* the first one does.
Matched(matched, some, images, keys, prop) ==
    /\ ToSet(matched) = {i \in ToSet(some) : \/ Silent(images, i, keys)
                                             \/ Says(images, i, keys, prop)}
    /\ (\E i \in ToSet(some) : Says(images, i, keys, prop)) =>
            matched # <<>> /\ Says(images, Head(matched), keys, prop)

\* An attribute that is asked for leaves the images that match.
LEMMA MatchImagesFacts ==
    ASSUME NEW images, NEW prop, NEW keys, Len(keys) \in Nat,
           DOMAIN keys = 1..Len(keys), NEW S, NEW some \in Seq(S), prop # None
    PROVE  LET matched == MatchImages(images, some, keys, prop) IN
           matched \in Seq(S) /\ Matched(matched, some, images, ToSet(keys), prop)
<1>1. PICK f : /\ f \in [0..Len(some) -> Seq(S)]
               /\ f[0] = <<>> /\ MatchImages(images, some, keys, prop) = f[Len(some)]
               /\ \A n \in 1..Len(some) :
                        f[n] = PlaceByKeys(images, prop, f[n - 1], some[n], keys)
  <2>1. \E f : IsImagesLoop(f, images, some, keys, prop, S)
    BY ImagesLoop
  <2> QED
    BY <2>1 DEF IsImagesLoop
<1> DEFINE Fits_(i) == Silent(images, i, ToSet(keys)) \/ Says(images, i, ToSet(keys), prop)
           Says_(i) == Says(images, i, ToSet(keys), prop)
           seen(n)  == {some[j] : j \in 1..n}
           fine == {n \in 0..Len(some) :
                        /\ ToSet(f[n]) = {i \in seen(n) : Fits_(i)}
                        /\ (\E i \in seen(n) : Says_(i)) => f[n] # <<>> /\ Says_(Head(f[n]))}
<1>2. 0 \in fine
  <2>1. seen(0) = {}
    OBVIOUS
  <2>2. ToSet(f[0]) = {}
    BY <1>1 DEF ToSet
  <2> HIDE DEF seen, Fits_, Says_
  <2> QED
    BY <2>1, <2>2
<1>3. ASSUME NEW n \in 0..(Len(some) - 1), n \in fine PROVE n + 1 \in fine
  <2>1. /\ n + 1 \in 1..Len(some) /\ n + 1 \in 0..Len(some) /\ (n + 1) - 1 = n
        /\ n \in 0..Len(some) /\ 1..(n + 1) = 1..n \cup {n + 1}
    OBVIOUS
  <2>2. f[n + 1] = PlaceByKeys(images, prop, f[n], some[n + 1], keys) /\ f[n] \in Seq(S)
    BY <1>1, <2>1
  <2>3. PICK l, i, next : l = f[n] /\ i = some[n + 1] /\ next = f[n + 1]
    OBVIOUS
  <2>4. Placed(next, l, images, i, ToSet(keys), prop)
    <3>1. l \in Seq(S) /\ i \in S
      BY <2>1, <2>2, <2>3
    <3>2. Placed(PlaceByKeys(images, prop, l, i, keys), l, images, i, ToSet(keys), prop)
      BY <3>1, PlaceByKeysFacts
    <3> QED
      BY <2>2, <2>3, <3>2
  <2>5. seen(n + 1) = seen(n) \cup {i}
    BY <2>1, <2>3
  <2> HIDE DEF seen
  <2>6. /\ ToSet(next) = IF Fits_(i) THEN ToSet(l) \cup {i} ELSE ToSet(l)
        /\ Says_(i) => next # <<>> /\ Head(next) = i
        /\ ~ Says_(i) /\ l # <<>> => next # <<>> /\ Head(next) = Head(l)
    BY <2>4 DEF Placed
  <2> HIDE DEF Fits_, Says_
  <2>7. /\ ToSet(l) = {j \in seen(n) : Fits_(j)}
        /\ (\E j \in seen(n) : Says_(j)) => l # <<>> /\ Says_(Head(l))
    BY <1>3, <2>3
  <2>8. ToSet(next) = {j \in seen(n + 1) : Fits_(j)}
    BY <2>5, <2>6, <2>7
  <2>9. (\E j \in seen(n + 1) : Says_(j)) => next # <<>> /\ Says_(Head(next))
    BY <2>5, <2>6, <2>7
  <2> QED
    BY <2>1, <2>3, <2>8, <2>9
<1>4. \A n \in 0..Len(some) : n \in fine
  <2>1. Len(some) \in Nat
    OBVIOUS
  <2> HIDE DEF fine
  <2> QED
    BY <1>2, <1>3, <2>1, Reaches
<1>5. Len(some) \in fine /\ f[Len(some)] \in Seq(S)
  <2>1. Len(some) \in 0..Len(some)
    OBVIOUS
  <2> HIDE DEF fine
  <2> QED
    BY <1>1, <1>4, <2>1
<1>6. seen(Len(some)) = ToSet(some)
  BY DEF ToSet
<1>7. /\ ToSet(f[Len(some)]) = {i \in ToSet(some) : Fits_(i)}
      /\ (\E i \in ToSet(some) : Says_(i)) => /\ f[Len(some)] # <<>>
                                              /\ Says_(Head(f[Len(some)]))
  <2> HIDE DEF seen, Fits_, Says_
  <2> QED
    BY <1>5, <1>6
<1> QED
  BY <1>1, <1>5, <1>7 DEF Matched

\* The lists of images after each of the attributes.
Match(images, os, some, attr) == MatchImages(images, some, Keys(attr), os[attr])

\* What comparing one attribute does, if each image is silent under one key or
\* the attribute is the architecture.
LEMMA MatchFacts ==
    ASSUME NEW images, NEW os, NEW S, NEW some \in Seq(S),
           NEW attr \in {"architecture", "type", "distribution", "version"}
    PROVE  LET matched == Match(images, os, some, attr)
               keys    == ToSet(Keys(attr)) IN
           /\ matched \in Seq(S)
           /\ os[attr] = None => matched = some
           /\ os[attr] # None => Matched(matched, some, images, keys, os[attr])
<1>1. PICK keys, prop : keys = Keys(attr) /\ prop = os[attr]
  OBVIOUS
<1>2. Len(keys) \in Nat /\ DOMAIN keys = 1..Len(keys)
  <2>1. CASE attr = "architecture"
    <3>1. keys = <<"architecture">>
      BY <1>1, <2>1 DEF Keys
    <3> QED
      BY <3>1
  <2>2. CASE attr # "architecture"
    <3>1. \E x, y : keys = <<x, y>>
      BY <1>1, <2>2 DEF Keys
    <3> QED
      BY <3>1
  <2> QED
    BY <2>1, <2>2
<1>3. CASE prop = None
  <2>1. Match(images, os, some, attr) = some
    BY <1>1, <1>3 DEF Match, MatchImages
  <2> QED
    BY <1>1, <1>3, <2>1
<1>4. CASE prop # None
  <2>1. Match(images, os, some, attr) = MatchImages(images, some, keys, prop)
    BY <1>1 DEF Match
  <2>2. PICK matched : matched = MatchImages(images, some, keys, prop)
    OBVIOUS
  <2>3. matched \in Seq(S) /\ Matched(matched, some, images, ToSet(keys), prop)
    BY <1>2, <1>4, <2>2, MatchImagesFacts
  <2> QED
    BY <1>1, <1>4, <2>1, <2>2, <2>3
<1> QED
  BY <1>3, <1>4

\* The keys of an attribute, as a set.
LEMMA KeySets ==
    /\ ToSet(Keys("architecture")) = {"architecture"}
    /\ \A attr \in {"architecture", "type", "distribution", "version"} :
            \A images, i, prop :
                /\ Says(images, i, ToSet(Keys(attr)), prop) <=>
                    \E k \in DOMAIN Keys(attr) : images[i][Keys(attr)[k]] = prop
                /\ Silent(images, i, ToSet(Keys(attr))) <=>
                    \E k \in DOMAIN Keys(attr) : images[i][Keys(attr)[k]] = None
<1>1. ToSet(Keys("architecture")) = {"architecture"}
  BY DEF ToSet, Keys
<1> QED
  BY <1>1 DEF Says, Silent, ToSet

\* The image that is chosen has what was compared last, if one of the right
\* architecture has it.
LEMMA ChosenHas ==
    ASSUME Chosen, OneKey(query.images)
    PROVE  LastAttributeDecides
<1> SUFFICES ASSUME step = "done", image # None
             PROVE  /\ Kept(image)
                    /\ \A a \in AskedAttributes :
                            (\A b \in AskedAttributes : b <= a) =>
                                \/ Has(image, Attributes[a])
                                \/ \A i \in DOMAIN query.images :
                                        Kept(i) => ~ Has(i, Attributes[a])
  BY DEF LastAttributeDecides
<1>1. PICK images, os, S, ids :
        /\ images = query.images /\ os = query.os /\ S = DOMAIN images
        /\ ids = [i \in DOMAIN images |-> i]
  OBVIOUS
<1>2. PICK one, two, three, four :
        /\ one = Match(images, os, ids, "architecture")
        /\ two = Match(images, os, one, "type")
        /\ three = Match(images, os, two, "distribution")
        /\ four = Match(images, os, three, "version")
  OBVIOUS
<1>3. four # <<>> /\ image = Head(four)
  BY <1>1, <1>2 DEF Chosen, BestImage, Match
<1>4. ids \in Seq(S) /\ ToSet(ids) = S
  <2>1. images \in Seq(ToSet(images))
    BY <1>1, QueriesAssumption DEF Chosen
  <2>2. S = 1..Len(images) /\ Len(images) \in Nat
    BY <1>1, <2>1
  <2> QED
    BY <1>1, <2>2 DEF ToSet
<1> DEFINE keys(a)    == ToSet(Keys(a))
           said(i, a) == Says(images, i, keys(a), os[a])
<1>5. /\ one \in Seq(S)
      /\ os["architecture"] = None => one = ids
      /\ os["architecture"] # None =>
            /\ ToSet(one) = {i \in ToSet(ids) : \/ Silent(images, i, keys("architecture"))
                                                \/ said(i, "architecture")}
            /\ (\E i \in ToSet(ids) : said(i, "architecture")) =>
                    one # <<>> /\ said(Head(one), "architecture")
  <2>1. /\ one \in Seq(S)
        /\ os["architecture"] = None => one = ids
        /\ os["architecture"] # None =>
             Matched(one, ids, images, keys("architecture"), os["architecture"])
    BY <1>2, <1>4, MatchFacts
  <2> QED
    BY <2>1 DEF Matched
<1>6. ASSUME NEW attr \in {"type", "distribution", "version"}, NEW some \in Seq(S),
             NEW matched, matched = Match(images, os, some, attr)
      PROVE  /\ matched \in Seq(S) /\ ToSet(matched) = ToSet(some)
             /\ os[attr] = None => matched = some
             /\ os[attr] # None /\ (\E i \in ToSet(some) : said(i, attr)) =>
                    said(Head(matched), attr)
  <2>1. \A i \in S : Silent(images, i, keys(attr))
    BY <1>1, KeySets DEF OneKey
  <2>2. ToSet(some) \subseteq S
    BY <1>6 DEF ToSet
  <2>3. /\ matched \in Seq(S)
        /\ os[attr] = None => matched = some
        /\ os[attr] # None => Matched(matched, some, images, keys(attr), os[attr])
    BY <1>6, MatchFacts
  <2>4. os[attr] # None =>
             /\ ToSet(matched) = {i \in ToSet(some) : \/ Silent(images, i, keys(attr))
                                                      \/ said(i, attr)}
             /\ (\E i \in ToSet(some) : said(i, attr)) =>
                    matched # <<>> /\ said(Head(matched), attr)
    BY <2>3 DEF Matched
  <2> HIDE DEF keys, said
  <2> QED
    BY <2>1, <2>2, <2>3, <2>4
<1> HIDE DEF said
<1>7. /\ two \in Seq(S) /\ ToSet(two) = ToSet(one)
      /\ os["type"] = None => two = one
      /\ os["type"] # None /\ (\E i \in ToSet(one) : said(i, "type")) => said(Head(two), "type")
  BY <1>2, <1>5, <1>6
<1>8. /\ three \in Seq(S) /\ ToSet(three) = ToSet(two)
      /\ os["distribution"] = None => three = two
      /\ os["distribution"] # None /\ (\E i \in ToSet(two) : said(i, "distribution")) =>
            said(Head(three), "distribution")
  BY <1>2, <1>6, <1>7
<1>9. /\ four \in Seq(S) /\ ToSet(four) = ToSet(three)
      /\ os["version"] = None => four = three
      /\ os["version"] # None /\ (\E i \in ToSet(three) : said(i, "version")) =>
            said(Head(four), "version")
  BY <1>2, <1>6, <1>8
<1>10. image \in ToSet(one) /\ ToSet(one) \subseteq S
  <2>1. image \in ToSet(four)
    BY <1>3, <1>9 DEF ToSet
  <2>2. ToSet(one) \subseteq S
    BY <1>5 DEF ToSet
  <2> QED
    BY <1>7, <1>8, <1>9, <2>1, <2>2
<1>11. \A i \in S : Kept(i) <=> i \in ToSet(one)
  <2>1. \A i : /\ Silent(images, i, keys("architecture")) <=> images[i]["architecture"] = None
               /\ said(i, "architecture") <=> images[i]["architecture"] = os["architecture"]
    BY KeySets DEF said, Silent, Says
  <2> QED
    BY <1>1, <1>4, <1>5, <2>1 DEF Kept
<1>12. ASSUME NEW a \in AskedAttributes, \A b \in AskedAttributes : b <= a,
              ~ Has(image, Attributes[a]), NEW i \in S, Kept(i), Has(i, Attributes[a])
       PROVE  FALSE
  <2>1. /\ a \in 1..4 /\ os[Attributes[a]] # None
        /\ \A b \in 1..4 : b > a => os[Attributes[b]] = None
    BY <1>1, <1>12 DEF AskedAttributes, Attributes
  <2>2. /\ Attributes[1] = "architecture" /\ Attributes[2] = "type"
        /\ Attributes[3] = "distribution" /\ Attributes[4] = "version"
    BY DEF Attributes
  <2>3. \A j : Has(j, Attributes[a]) <=> said(j, Attributes[a])
    BY <1>1, <2>1, <2>2, KeySets DEF Has, said
  <2>4. i \in ToSet(one) /\ i \in ToSet(ids)
    BY <1>4, <1>11, <1>12
  <2>5. said(i, Attributes[a]) /\ ~ said(image, Attributes[a])
    BY <1>12, <2>3
  <2>6. CASE a = 4
    BY <1>3, <1>7, <1>8, <1>9, <2>1, <2>2, <2>4, <2>5, <2>6
  <2>7. CASE a = 3
    <3>1. four = three
      BY <1>9, <2>1, <2>2, <2>7
    <3> QED
      BY <1>3, <1>7, <1>8, <2>1, <2>2, <2>4, <2>5, <2>7, <3>1
  <2>8. CASE a = 2
    <3>1. four = three /\ three = two
      BY <1>8, <1>9, <2>1, <2>2, <2>8
    <3> QED
      BY <1>3, <1>7, <2>1, <2>2, <2>4, <2>5, <2>8, <3>1
  <2>9. CASE a = 1
    <3>1. four = three /\ three = two /\ two = one
      BY <1>7, <1>8, <1>9, <2>1, <2>2, <2>9
    <3> QED
      BY <1>3, <1>5, <2>1, <2>2, <2>4, <2>5, <2>9, <3>1
  <2> QED
    BY <2>1, <2>6, <2>7, <2>8, <2>9
<1> QED
  BY <1>1, <1>10, <1>11, <1>12

\* Whatever the catalogs and what is asked for, the flavor has the memory, and
\* among the images of the right architecture the attribute that is compared last
\* decides, if images have one key for each of the other attributes.
THEOREM ChoicesFit ==
    ASSUME \A q \in Queries : OneKey(q.images)
    PROVE  Spec => []ChoiceFits
<1>1. Chosen => ChoiceFits
  BY ChosenFits, ChosenHas DEF ChoiceFits, Chosen
<1> QED
  BY <1>1, ChosenInvariance, PTL

-----------------------------------------------------------------------------
(* The catalogs a server is matched with.                                   *)

\* What a call has filled is what it has read, if no listing broke off before.
FillsWhatItReads ==
    call # NoCall =>
        /\ unread \subseteq listed[call] /\ answer[call] = {}
        /\ call \notin broken =>
                cache[call] = (listed[call] \ unread) \cap Described[call]

\* A catalog that is not being filled and that no exception left is whole.
WholeBetweenCalls ==
    \A c \in Catalogs \ broken :
        c # call /\ cache[c] # {} => Whole(c, cache[c])

\* What was returned is what the module keeps.
AnswersKept == \A c \in Catalogs : answer[c] # {} => answer[c] = cache[c]

CInv == CatalogTypeOK /\ FillsWhatItReads /\ WholeBetweenCalls /\ AnswersKept

LEMMA InitCInv == CatalogInit => CInv
  BY CatalogAssumption
     DEF CatalogInit, CInv, CatalogTypeOK, FillsWhatItReads, WholeBetweenCalls, AnswersKept

LEMMA StutterCInv == CInv /\ UNCHANGED catalogVars => CInv'
  BY DEF CInv, CatalogTypeOK, FillsWhatItReads, WholeBetweenCalls, AnswersKept, Whole,
         catalogVars, outside, listing

LEMMA OutsideCInv ==
    ASSUME CInv, SetSession \/ \E c \in Catalogs : Serve(c)
    PROVE  CInv'
  <1>1. CASE SetSession
    BY <1>1 DEF SetSession, CInv, CatalogTypeOK, FillsWhatItReads, WholeBetweenCalls,
                AnswersKept, Whole, listing
  <1>2. CASE \E c \in Catalogs : Serve(c)
    BY <1>2 DEF Serve, CInv, CatalogTypeOK, FillsWhatItReads, WholeBetweenCalls,
                AnswersKept, Whole, listing
  <1> QED BY <1>1, <1>2

LEMMA CachedCInv ==
    ASSUME CInv, NEW c \in Catalogs, AnswerCached(c)
    PROVE  CInv'
  BY DEF AnswerCached, Cached, Answer, CInv, CatalogTypeOK, FillsWhatItReads,
         WholeBetweenCalls, AnswersKept, Whole, outside, listing

LEMMA FallBackCInv ==
    ASSUME CInv, NEW c \in Catalogs, FallBack(c)
    PROVE  CInv'
  BY DEF FallBack, Cached, Filled, Answer, CInv, CatalogTypeOK, FillsWhatItReads,
         WholeBetweenCalls, AnswersKept, Whole, outside, listing

LEMMA ConstructorCInv ==
    ASSUME CInv, NEW c \in Catalogs, ConstructorRaises(c)
    PROVE  CInv'
  BY StutterCInv
     DEF ConstructorRaises, Cached, Filled, Answer, CInv, CatalogTypeOK, FillsWhatItReads,
         WholeBetweenCalls, AnswersKept, Whole, catalogVars, outside, listing

LEMMA ConnectCInv ==
    ASSUME CInv, NEW c \in Catalogs, Connect(c)
    PROVE  CInv'
  <1> USE CatalogAssumption
          DEF Connect, Cached, CInv, CatalogTypeOK, outside
  <1>1. CatalogTypeOK'
    OBVIOUS
  <1>2. answer[c] = {} /\ cache[c] = {}
    BY DEF AnswersKept
  <1>3. FillsWhatItReads'
    BY <1>2 DEF FillsWhatItReads
  <1>4. WholeBetweenCalls'
    BY <1>2 DEF WholeBetweenCalls, Whole
  <1>5. AnswersKept'
    BY DEF AnswersKept
  <1> QED BY <1>1, <1>3, <1>4, <1>5

LEMMA ReadEntryCInv ==
    ASSUME CInv, ReadEntry
    PROVE  CInv'
  <1> USE CatalogAssumption DEF CInv, CatalogTypeOK, outside
  <1>1. PICK entry \in unread :
            /\ unread' = unread \ {entry}
            /\ cache' = [cache EXCEPT ![call] = @ \cup ({entry} \cap Described[call])]
    BY DEF ReadEntry, Rest
  <1>2. /\ call \in Catalogs
        /\ UNCHANGED <<client, session, served, call, listed, broken, answer>>
    BY DEF ReadEntry
  <1>3. entry \in listed[call] /\ Described[call] \subseteq Entry
    BY <1>1, <1>2 DEF FillsWhatItReads
  <1>4. CatalogTypeOK'
    BY <1>1, <1>2, <1>3
  <1>5. FillsWhatItReads'
    <2>1. call \notin broken =>
            cache'[call] = (listed[call] \ unread') \cap Described[call]
      BY <1>1, <1>2, <1>3 DEF FillsWhatItReads
    <2> QED BY <2>1, <1>1, <1>2 DEF FillsWhatItReads
  <1>6. WholeBetweenCalls'
    BY <1>1, <1>2 DEF WholeBetweenCalls, Whole
  <1>7. AnswersKept'
    BY <1>1, <1>2 DEF AnswersKept, FillsWhatItReads
  <1> QED BY <1>4, <1>5, <1>6, <1>7

LEMMA EndOfCallCInv ==
    ASSUME CInv, Break \/ EndListing
    PROVE  CInv'
  <1> USE CatalogAssumption DEF CInv, CatalogTypeOK, outside
  <1>1. CASE Break
    BY <1>1 DEF Break, FillsWhatItReads, WholeBetweenCalls, AnswersKept, Whole
  <1>2. CASE EndListing
    <2>1. /\ call \in Catalogs /\ call' = NoCall /\ unread = {}
          /\ Answer(call, Filled(cache[call]))
          /\ UNCHANGED <<client, session, served, unread, listed, broken>>
      BY <1>2 DEF EndListing
    <2>2. call \notin broken => Whole(call, Filled(cache[call]))
      BY <2>1 DEF FillsWhatItReads, Whole, Filled
    <2>3. CatalogTypeOK'
      BY <2>1 DEF Answer, Filled
    <2>4. WholeBetweenCalls'
      BY <2>1, <2>2 DEF Answer, WholeBetweenCalls, Whole
    <2>5. AnswersKept' /\ FillsWhatItReads'
      BY <2>1 DEF Answer, AnswersKept, FillsWhatItReads
    <2> QED BY <2>3, <2>4, <2>5
  <1> QED BY <1>1, <1>2

LEMMA StepCInv == CInv /\ [CatalogNext]_catalogVars => CInv'
  BY StutterCInv, OutsideCInv, CachedCInv, FallBackCInv, ConstructorCInv,
     ConnectCInv, ReadEntryCInv, EndOfCallCInv
     DEF CatalogNext

\* The variables of the catalogs keep their types.
THEOREM CatalogTypeCorrect == CatalogSpec => []CatalogTypeOK
  <1>1. CInv => CatalogTypeOK
    BY DEF CInv
  <1> QED BY <1>1, InitCInv, StepCInv, PTL DEF CatalogSpec

\* No server is matched with a part of a listing or with entries of both
\* sources, for any entries OpenStack may list, unless a listing broke off.
THEOREM CatalogsWhole == CatalogSpec => []WholeUnlessBroken
  <1>1. CInv => WholeUnlessBroken
    BY CatalogAssumption
       DEF CInv, CatalogTypeOK, WholeUnlessBroken, WholeBetweenCalls, AnswersKept,
           FillsWhatItReads, Whole
  <1> QED BY <1>1, InitCInv, StepCInv, PTL DEF CatalogSpec

\* What was once answered is answered for ever.
THEOREM CatalogAnswersStable == CatalogSpec => AnswersStable
  <1>1. CInv /\ [CatalogNext]_catalogVars =>
            [\A c \in Catalogs : answer[c] # {} => answer'[c] = answer[c]]_catalogVars
    <2> SUFFICES ASSUME CInv, CatalogNext, NEW c \in Catalogs, answer[c] # {}
                 PROVE  answer'[c] = answer[c]
      BY DEF catalogVars
    <2>1. cache[c] = answer[c] /\ c # call
      BY CatalogAssumption DEF CInv, CatalogTypeOK, AnswersKept, FillsWhatItReads
    <2> QED
      BY <2>1 DEF CatalogNext, SetSession, Serve, AnswerCached, FallBack, ConstructorRaises,
                  Connect, ReadEntry, Break, EndListing, Cached, Answer, CInv, CatalogTypeOK
  <1> QED BY <1>1, InitCInv, StepCInv, PTL DEF CatalogSpec, AnswersStable

=============================================================================
