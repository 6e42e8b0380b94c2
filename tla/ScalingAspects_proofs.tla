------------------------ MODULE ScalingAspects_proofs ------------------------
(***************************************************************************)
(* Proofs about ScalingAspects.  The kind of a resource and the last part  *)
(* of its name tell where it came from: one the network function brought,  *)
(* or a flavor, a group, a policy, a part of a network (Forms).  From that *)
(* follow the sizes of the groups, that a resource has one place (Places), *)
(* and that a template has what it refers to (Closure).                    *)
(***************************************************************************)
EXTENDS ScalingAspects, SequenceLemmas, FiniteSetTheorems

-----------------------------------------------------------------------------
(* Names.                                                                   *)

\* A part that is added can be taken off again.
LEMMA PartedApart ==
    ASSUME NEW x \in Name, NEW y \in Name, NEW s \in Word, NEW t \in Word
    PROVE  /\ Parted(x, s) \in Name /\ Parted(x, s) # <<>> /\ Last(Parted(x, s)) = s
           /\ Parted(x, s) = Parted(y, t) => x = y /\ s = t
BY AppendApart DEF Parted, Name

\* A made name is a name, and ends with the part that was added.
LEMMA PartedName ==
    ASSUME NEW x \in Name, NEW s \in Word
    PROVE  /\ Parted(x, s) \in Name /\ Parted(x, s) # <<>> /\ Last(Parted(x, s)) = s
           /\ Append(x, s) \in Name
BY PartedApart DEF Parted

\* The names that are made from a name.
LEMMA MadeNames ==
    ASSUME NEW x \in Name
    PROVE  /\ \A s \in Word : Parted(x, s) \in Name /\ Parted(x, s) # <<>> /\ Last(Parted(x, s)) = s
           /\ FlavorName(x) \in Name /\ FlavorName(x) # <<>> /\ Last(FlavorName(x)) = "flavor"
           /\ Parameter(x) \in Name /\ FlavorParam(x) \in Name
<1>1. \A s \in Word :
        Parted(x, s) \in Name /\ Parted(x, s) # <<>> /\ Last(Parted(x, s)) = s /\ Append(x, s) \in Name
  BY PartedName
<1>2. "flavor" \in Word /\ "id" \in Word
  BY WordAssumption DEF MadeOf
<1>3. FlavorName(x) \in Name /\ FlavorName(x) # <<>> /\ Last(FlavorName(x)) = "flavor"
  BY <1>1, <1>2, Zenon DEF FlavorName
<1>4. \A y \in Name : Parameter(y) \in Name
  <2> SUFFICES ASSUME NEW y \in Name PROVE Parameter(y) \in Name
    OBVIOUS
  <2>1. Lowered(y) \in Name
    BY WordAssumption DEF Lowered, Name
  <2> QED
    BY <1>2, <2>1, PartedName, Zenon DEF Parameter
<1> QED
  BY <1>1, <1>3, <1>4, Zenon DEF FlavorParam

\* The resources that are there, and those of the network function.
Present == Range(resources)
Given   == Range(vnf.resources)

\* The last of the resources with a name has it.
LEMMA MainNames ==
    ASSUME resources \in Seq(ResourceRecord)
    PROVE  Main \subseteq Present /\ Names(Main) = Names(Present)
<1>1. Main \subseteq Present
  BY DEF Main, Present, Range
<1>2. ASSUME NEW j \in DOMAIN resources
      PROVE  \E r \in Main : r.name = resources[j].name
  <2> DEFINE I == {k \in DOMAIN resources : resources[k].name = resources[j].name}
  <2>1. DOMAIN resources = 1..Len(resources) /\ Len(resources) \in Nat
    OBVIOUS
  <2>2. I \in SUBSET (1..Len(resources)) /\ I # {}
    BY <1>2, <2>1
  <2>3. PICK k \in I : \A n \in I : n <= k
    <3> HIDE DEF I
    <3> QED
      BY <2>1, <2>2, GreatestElement
  <2>6. \A n \in k + 1 .. Len(resources) : resources[n].name # resources[k].name
    BY <2>1, <2>3
  <2>7. resources[k] \in Main
    BY <2>6 DEF Main
  <2> QED
    BY <2>7
<1> QED
  BY <1>1, <1>2 DEF Names, Present, Range

-----------------------------------------------------------------------------
(* The invariant.                                                           *)

\* A resource of the network function, that may have got a server group or lost
\* its type.
Same(r, o) ==
    /\ r.name = o.name /\ r.parts = o.parts /\ r.link = o.link /\ r.binding = o.binding
    /\ r.leaf = o.leaf /\ r.params = o.params
    /\ r.kind = o.kind \/ (o.kind = "ServerGroup" /\ r.kind = "Typeless")

\* One of the resources of the network function.
OfGiven(r) == \E o \in Given : Same(r, o)

\* The flavor that a VDU leaves behind.
OfFlavor(r) ==
    /\ r.kind = "Flavor" /\ r.refs = {}
    /\ \E o \in Given : o.kind = "Server" /\ r.name = FlavorName(o.name)

\* The steps of the aspect lead from the minimum to the maximum.
Levelled(g) ==
    \A i \in DOMAIN vnf.policies : vnf.policies[i].kind = "Aspects" =>
        \A k \in DOMAIN vnf.policies[i].aspects :
            vnf.policies[i].aspects[k].name = g.aspect /\ g.max # None =>
                /\ g.min \in Int /\ adjusted[g.aspect] \in Int /\ adjusted[g.aspect] # None
                /\ g.max = g.min + vnf.policies[i].aspects[k].level * adjusted[g.aspect]

\* The group of an aspect that was handled.
OfGroup(r) ==
    r.kind = "Group" /\ r.name = r.aspect /\ r.aspect \in DOMAIN adjusted /\ Levelled(r)

\* A scaling policy: it steps out or in by what its aspect adjusts.
OfPolicy(r) ==
    /\ r.kind = "ScalingPolicy" /\ r.aspect \in DOMAIN adjusted /\ r.refs = {r.aspect}
    /\ \/ r.name = Parted(r.aspect, "scale_out") /\ r.adjustment = adjusted[r.aspect]
       \/ r.name = Parted(r.aspect, "scale_in") /\ r.adjustment = ScaleIn(r.aspect)

\* What the networks expand to.
OfNet(r) ==
    /\ stage = "written"
    /\ \E o \in Given : o.kind = "Net" /\
        \/ r.kind = "Subnet" /\ r.name = Parted(o.name, "subnet") /\ r.refs = {o.name}
        \/ r.kind = "QoS" /\ r.name = Parted(o.name, "qospolicy") /\ r.refs = {}
        \/ /\ r.kind = "Bandwidth" /\ o.leaf
           /\ r.name = Parted(o.name, "bandwidth") /\ r.refs = {Parted(o.name, "qospolicy")}

\* Every resource that is there has one of these forms.
Forms == \A r \in Present : OfGiven(r) \/ OfFlavor(r) \/ OfGroup(r) \/ OfPolicy(r) \/ OfNet(r)

\* An aspect of the i-th policy was handled.
Behind(i, k) == i < policy \/ (i = policy /\ k < aspect)

\* The walk over the policies and their aspects has passed this aspect.
WasHandled(a) ==
    \E i \in DOMAIN vnf.policies : vnf.policies[i].kind = "Aspects" /\
        \E k \in DOMAIN vnf.policies[i].aspects :
            Behind(i, k) /\ vnf.policies[i].aspects[k].name = a

\* Exactly the aspects that the walk has passed are known.
AspectsBehind ==
    /\ DOMAIN adjusted = DOMAIN nested
    /\ \A a \in DOMAIN nested : WasHandled(a)
    /\ \A i \in DOMAIN vnf.policies : vnf.policies[i].kind = "Aspects" =>
            \A k \in DOMAIN vnf.policies[i].aspects :
                Behind(i, k) => vnf.policies[i].aspects[k].name \in DOMAIN nested
    /\ \A i \in DOMAIN vnf.policies : vnf.policies[i].kind = "Aspects" /\ i > policy => aspect = 1

\* The types of the variables.
SType ==
    /\ vnf \in Vnfs /\ resources \in Seq(ResourceRecord)
    /\ policy \in Nat \ {0} /\ aspect \in Nat \ {0}
    /\ \A a \in DOMAIN adjusted : a \in Name /\ adjusted[a] \in {None} \cup Int
    /\ stage \in {"properties", "expansion", "written", "failed"}
    /\ stage \in {"expansion", "written"} => policy > Len(vnf.policies)

\* What LevelsAreReached and ResourcesAreOnce rest on.
SInv == SType /\ AspectsBehind /\ Forms

\* The names of no network function are confused.
AllApart == \A v \in Vnfs : NamesApart(v)

-----------------------------------------------------------------------------
(* What the operators of the model return.                                  *)

\* An empty resource is a resource.
LEMMA ResourceTyped ==
    ASSUME NEW name \in Name, NEW kind \in Kinds
    PROVE  Resource(name, kind) \in ResourceRecord
BY DEF Resource, ResourceRecord

\* The resources of a network function are resources.
LEMMA GivenTyped ==
    ASSUME vnf \in Vnfs
    PROVE  Given \subseteq ResourceRecord
BY VnfsAssumption DEF Given, Range

\* The elements of the list are resources.
LEMMA PresentTyped ==
    ASSUME resources \in Seq(ResourceRecord)
    PROVE  Present \subseteq ResourceRecord
BY DEF Present, Range

\* The policy that the walk is at.
LEMMA PolicyTyped ==
    ASSUME SType, NEW kind, At(kind)
    PROVE  /\ policy \in DOMAIN vnf.policies /\ Policy \in Range(vnf.policies)
           /\ Policy.kind = kind /\ Policy.name \in Name
<1>1. vnf.policies \in Seq(ToSet(vnf.policies)) /\ vnf \in Vnfs
  BY VnfsAssumption DEF SType
<1>2. policy \in 1..Len(vnf.policies)
  BY <1>1 DEF At, SType
<1>3. policy \in DOMAIN vnf.policies
  BY <1>1, <1>2
<1>4. Policy \in ToSet(vnf.policies) /\ ToSet(vnf.policies) = Range(vnf.policies)
  BY <1>3 DEF Policy, ToSet, Range
<1> QED
  BY <1>1, <1>3, <1>4, VnfsAssumption DEF At, Policy

\* The aspect that the walk is at.
LEMMA AspectTyped ==
    ASSUME SType, AtAspect
    PROVE  /\ policy \in DOMAIN vnf.policies /\ Policy.kind = "Aspects"
           /\ aspect \in DOMAIN Policy.aspects
           /\ Aspect.name \in Name /\ Aspect.level \in Int
<1>1. /\ policy \in DOMAIN vnf.policies /\ Policy \in Range(vnf.policies)
      /\ Policy.kind = "Aspects"
  BY PolicyTyped DEF AtAspect
<1>2. Policy.aspects \in Seq([name : Name, level : Int, delta : STRING])
  BY <1>1, VnfsAssumption DEF SType, Range, ToSet
<1>3. aspect \in DOMAIN Policy.aspects
  BY <1>2 DEF SType, AtAspect
<1>4. Aspect \in [name : Name, level : Int, delta : STRING]
  <2>1. PICK S : S = [name : Name, level : Int, delta : STRING]
    OBVIOUS
  <2>2. PICK l : l = Policy.aspects
    OBVIOUS
  <2>3. l \in Seq(S) /\ aspect \in 1..Len(l)
    BY <1>2, <1>3, <2>1, <2>2
  <2>4. l[aspect] \in S
    BY <2>3
  <2> QED
    BY <2>1, <2>2, <2>4 DEF Aspect
<1> QED
  BY <1>1, <1>3, <1>4

\* The deltas that are found are those of the aspect, and adjust by a number.
LEMMA DeltasTyped ==
    ASSUME SType, AtAspect
    PROVE  /\ Deltas # <<>> => Deltas[1] \in Range(vnf.deltas) /\ Deltas[1].aspect = Aspect.name
           /\ Deltas # <<>> => Adjustment \in {None} \cup Int
<1> DEFINE T == {d \in ToSet(vnf.deltas) : d.aspect = Aspect.name}
<1>1. vnf.deltas \in Seq(ToSet(vnf.deltas))
  BY VnfsAssumption DEF SType
<1>2. /\ Filter(vnf.deltas, T) \in Seq(ToSet(vnf.deltas))
      /\ ToSet(Filter(vnf.deltas, T)) = ToSet(vnf.deltas) \cap T
  <2> HIDE DEF T
  <2> QED
    BY <1>1, FilterElements
<1>3. ASSUME Deltas # <<>> PROVE Deltas[1] \in ToSet(vnf.deltas) \cap T
  <2>1. PICK d : d = Deltas
    OBVIOUS
  <2>2. d \in Seq(ToSet(vnf.deltas)) /\ d # <<>> /\ ToSet(d) = ToSet(vnf.deltas) \cap T
    BY <1>2, <1>3, <2>1 DEF Deltas
  <2>3. d[1] \in ToSet(d)
    BY <2>2 DEF ToSet
  <2> QED
    BY <2>1, <2>2, <2>3
<1>4. ASSUME Deltas # <<>> PROVE Adjustment \in {None} \cup Int
  <2>1. PICK d : d = Deltas[1]
    OBVIOUS
  <2>2. \A delta \in DOMAIN d.deltas : d.deltas[delta] \in Int
    BY <1>3, <1>4, <2>1, VnfsAssumption DEF SType
  <2> QED
    BY <2>1, <2>2 DEF Adjustment
<1> QED
  BY <1>3, <1>4 DEF ToSet, Range

\* The initial size of a VDU is a number, if it is known.
LEMMA MinSizeTyped ==
    ASSUME SType, NEW vdu
    PROVE  MinSize(vdu) \in {None} \cup Int
<1> DEFINE T == {i \in ToSet(vnf.initial) : vdu \in i.targets}
<1>1. vnf.initial \in Seq(ToSet(vnf.initial))
  BY VnfsAssumption DEF SType
<1>2. PICK d : d = Filter(vnf.initial, T)
  OBVIOUS
<1>3. d \in Seq(ToSet(vnf.initial)) /\ ToSet(d) = ToSet(vnf.initial) \cap T
  <2> HIDE DEF T
  <2> QED
    BY <1>1, <1>2, FilterElements
<1>4. ASSUME d # <<>> PROVE d[1].num \in Int
  <2>1. d[1] \in ToSet(vnf.initial)
    BY <1>3, <1>4
  <2> QED
    BY <2>1, VnfsAssumption DEF SType
<1> QED
  BY <1>2, <1>4 DEF MinSize

\* What a group passes to its nested template are names.
LEMMA PassedTyped ==
    ASSUME resources \in Seq(ResourceRecord)
    PROVE  /\ Names(Vdus) \subseteq Name /\ Links \subseteq Name
           /\ Passed \subseteq [param : Name, value : Name]
<1>1. /\ \A v \in Vdus : v \in ResourceRecord
      /\ \A l \in Links : l \in Name
  BY PresentTyped DEF Vdus, Links, Present, ResourceRecord
<1>2. \A v \in Vdus : v.name \in Name /\ FlavorName(v.name) \in Name /\ FlavorParam(v.name) \in Name
  <2> SUFFICES ASSUME NEW v \in Vdus
               PROVE  v.name \in Name /\ FlavorName(v.name) \in Name /\ FlavorParam(v.name) \in Name
    OBVIOUS
  <2>1. v.name \in Name
    BY <1>1 DEF ResourceRecord
  <2> QED
    BY <2>1, MadeNames, Zenon
<1>3. \A l \in Links : Parameter(l) \in Name
  BY <1>1, MadeNames, Zenon
<1> QED
  BY <1>1, <1>2, <1>3 DEF Names, Passed

\* The group of an aspect, and the sizes it is given.
LEMMA GroupTyped ==
    ASSUME SType, AtAspect, Deltas # <<>>, NEW vdu
    PROVE  /\ Group(vdu) \in ResourceRecord
           /\ Group(vdu).name = Aspect.name /\ Group(vdu).kind = "Group"
           /\ Group(vdu).aspect = Aspect.name /\ Group(vdu).passes = Passed
           /\ Group(vdu).refs = {p.value : p \in Passed}
           /\ Group(vdu).max # None =>
                /\ Group(vdu).min \in Int /\ Adjustment \in Int /\ Adjustment # None
                /\ Group(vdu).max = Group(vdu).min + Aspect.level * Adjustment
<1>1. Aspect.name \in Name /\ Aspect.level \in Int
  BY AspectTyped
<1>2. MinSize(vdu) \in {None} \cup Int /\ Adjustment \in {None} \cup Int
  BY MinSizeTyped, DeltasTyped
<1>3. Passed \subseteq [param : Name, value : Name]
  BY PassedTyped DEF SType
<1> DEFINE least == IF Sized(vdu) THEN MinSize(vdu) ELSE None
           most  == IF Sized(vdu) THEN MaxSize(vdu) ELSE None
<1>4. least \in {None} \cup Int /\ most \in {None} \cup Int
  BY <1>1, <1>2 DEF Sized, MaxSize
<1>5. most # None => /\ least \in Int /\ Adjustment \in Int /\ Adjustment # None
                     /\ most = least + Aspect.level * Adjustment
  BY <1>2 DEF Sized, MaxSize
<1>6. {p.value : p \in Passed} \subseteq Name
  BY <1>3
<1> HIDE DEF least, most
<1>7. Group(vdu) = [Resource(Aspect.name, "Group") EXCEPT
        !.min = least, !.max = most, !.passes = Passed,
        !.refs = {p.value : p \in Passed}, !.aspect = Aspect.name]
  BY DEF Group, least, most
<1>8. Group(vdu) = [name |-> Aspect.name, kind |-> "Group",
        refs |-> {p.value : p \in Passed}, params |-> {}, parts |-> {}, link |-> None,
        binding |-> None, leaf |-> FALSE, min |-> least, max |-> most, passes |-> Passed,
        adjustment |-> None, aspect |-> Aspect.name]
  BY <1>7 DEF Resource
<1>9. Group(vdu) \in ResourceRecord
  <2>1. PICK passes, refs : passes = Passed /\ refs = {p.value : p \in Passed}
    OBVIOUS
  <2>2. passes \in SUBSET [param : Name, value : Name] /\ refs \in SUBSET Name
    BY <1>3, <1>6, <2>1
  <2>3. Group(vdu) = [name |-> Aspect.name, kind |-> "Group",
            refs |-> refs, params |-> {}, parts |-> {}, link |-> None,
            binding |-> None, leaf |-> FALSE, min |-> least, max |-> most, passes |-> passes,
            adjustment |-> None, aspect |-> Aspect.name]
    BY <1>8, <2>1
  <2>4. "Group" \in Kinds
    BY DEF Kinds
  <2> QED
    BY <1>1, <1>4, <2>2, <2>3, <2>4 DEF ResourceRecord
<1> QED
  BY <1>5, <1>8, <1>9

\* The flavor of a VDU.
LEMMA FlavorTyped ==
    ASSUME NEW vdu \in Name
    PROVE  /\ Flavor(vdu) \in ResourceRecord
           /\ Flavor(vdu).name = FlavorName(vdu) /\ Flavor(vdu).kind = "Flavor"
           /\ Flavor(vdu).refs = {}
<1>1. FlavorName(vdu) \in Name
  BY MadeNames, Zenon
<1>2. Flavor(vdu) \in ResourceRecord
  <2>1. "Flavor" \in Kinds
    BY DEF Kinds
  <2> QED
    BY <1>1, <2>1, ResourceTyped, Zenon DEF Flavor
<1> QED
  BY <1>2 DEF Flavor, Resource

-----------------------------------------------------------------------------
(* What each action leaves present.                                         *)

\* What an affinity rule makes of a resource.
Hinted(r) ==
    LET group == Parted(Policy.name, "group")
    IN  IF AffinityOf(r) THEN [r EXCEPT !.refs = @ \cup {group}]
        ELSE IF r.name = group /\ ~ (\E q \in Range(resources) : AffinityOf(q))
        THEN [r EXCEPT !.kind = "Typeless"]
        ELSE r

\* A resource that an affinity rule changes is still a resource.
LEMMA HintedTyped ==
    ASSUME SType, At("Affinity"), NEW r \in ResourceRecord
    PROVE  Hinted(r) \in ResourceRecord
<1> DEFINE group == Parted(Policy.name, "group")
<1>1. Policy.name \in Name
  BY PolicyTyped
<1>2. group \in Name
  <2>1. "group" \in Word
    BY WordAssumption DEF MadeOf
  <2> QED
    BY <1>1, <2>1, MadeNames, Zenon
<1>3. [r EXCEPT !.refs = @ \cup {group}] \in ResourceRecord
  <2> HIDE DEF group
  <2> QED
    BY <1>2 DEF ResourceRecord
<1>4. [r EXCEPT !.kind = "Typeless"] \in ResourceRecord
  <2>1. "Typeless" \in Kinds
    BY DEF Kinds
  <2> QED
    BY <2>1 DEF ResourceRecord
<1> QED
  BY <1>3, <1>4 DEF Hinted

\* An affinity rule changes resources where they are.
LEMMA AffinityPresent ==
    ASSUME SType, HandleAffinity
    PROVE  resources' \in Seq(ResourceRecord) /\ Present' = {Hinted(r) : r \in Present}
<1>1. resources' = [k \in DOMAIN resources |-> Hinted(resources[k])]
  BY DEF HandleAffinity, Hinted
<1>2. resources \in Seq(ResourceRecord) /\ At("Affinity")
  BY DEF SType, HandleAffinity
<1>3. \A k \in DOMAIN resources : Hinted(resources[k]) \in ResourceRecord
  BY <1>2, HintedTyped
<1>4. Present' = {resources'[k] : k \in DOMAIN resources'}
  BY DEF Present, Range
<1> QED
  BY <1>1, <1>2, <1>3, <1>4 DEF Present, Range

\* The VDUs that an aspect moves.
Moved == {r \in Present : r.name \in Related /\ r.kind = "Server"}

\* What a place of the list becomes.
Place(r) ==
    IF r.name \notin Related THEN <<r>>
    ELSE IF r.kind = "Server" THEN <<Group(r.name)>> ELSE <<>>

\* What is left when the VDUs have become groups.
LEMMA PlacesPresent ==
    ASSUME SType, AtAspect, Deltas # <<>>
    PROVE  LET places == [k \in DOMAIN resources |-> Place(resources[k])]
           IN  /\ FlattenSeq(places) \in Seq(ResourceRecord)
               /\ ToSet(FlattenSeq(places)) =
                    {r \in Present : r.name \notin Related} \cup {Group(v.name) : v \in Moved}
<1> DEFINE places == [k \in DOMAIN resources |-> Place(resources[k])]
<1>1. resources \in Seq(ResourceRecord)
  BY DEF SType
<1>2. \A vdu : Group(vdu) \in ResourceRecord
  BY GroupTyped
<1>3. \A k \in DOMAIN resources :
        Place(resources[k]) \in Seq(ResourceRecord) /\
        ToSet(Place(resources[k])) =
            IF resources[k].name \notin Related THEN {resources[k]}
            ELSE IF resources[k].kind = "Server" THEN {Group(resources[k].name)} ELSE {}
  <2> SUFFICES ASSUME NEW k \in DOMAIN resources
               PROVE  Place(resources[k]) \in Seq(ResourceRecord) /\
                      ToSet(Place(resources[k])) =
                        IF resources[k].name \notin Related THEN {resources[k]}
                        ELSE IF resources[k].kind = "Server" THEN {Group(resources[k].name)} ELSE {}
    OBVIOUS
  <2>1. PICK r, g : r = resources[k] /\ g = Group(resources[k].name)
    OBVIOUS
  <2>2. r \in ResourceRecord /\ g \in ResourceRecord
    BY <1>1, <1>2, <2>1
  <2>3. <<r>> \in Seq(ResourceRecord) /\ <<g>> \in Seq(ResourceRecord) /\ <<>> \in Seq(ResourceRecord)
    BY <2>2
  <2>4. ToSet(<<r>>) = {r} /\ ToSet(<<g>>) = {g} /\ ToSet(<<>>) = {}
    BY SingleElement
  <2> QED
    BY <2>1, <2>3, <2>4, Zenon DEF Place
<1>4. places \in Seq(Seq(ResourceRecord)) /\ DOMAIN places = DOMAIN resources
  BY <1>1, <1>3
<1>5. /\ FlattenSeq(places) \in Seq(ResourceRecord)
      /\ ToSet(FlattenSeq(places)) = UNION {ToSet(places[k]) : k \in DOMAIN places}
  <2> HIDE DEF places
  <2> QED
    BY <1>4, FlattenElements
<1>6. UNION {ToSet(places[k]) : k \in DOMAIN places} =
        UNION {ToSet(Place(resources[k])) : k \in DOMAIN resources}
  BY <1>4
<1>7. Present = {resources[k] : k \in DOMAIN resources}
  BY DEF Present, Range
<1>8. UNION {ToSet(Place(resources[k])) : k \in DOMAIN resources} =
        {r \in Present : r.name \notin Related} \cup {Group(v.name) : v \in Moved}
  BY <1>3, <1>7 DEF Moved
<1> QED
  BY <1>5, <1>6, <1>8

\* Handling an aspect leaves what is not related to it, and a flavor and a
\* group for each VDU that it moves.
LEMMA StayingPresent ==
    ASSUME SType, AtAspect, Deltas # <<>>
    PROVE  /\ Staying \in Seq(ResourceRecord)
           /\ Range(Staying) = {r \in Present : r.name \notin Related}
                \cup {Flavor(v.name) : v \in Moved} \cup {Group(v.name) : v \in Moved}
<1> DEFINE places == [k \in DOMAIN resources |-> Place(resources[k])]
           T == {r \in Range(resources) : r.name \in Related /\ r.kind = "Server"}
<1>1. resources \in Seq(ResourceRecord) /\ Present \subseteq ResourceRecord
  BY PresentTyped DEF SType
<1>2. PICK vdus : vdus = Filter(resources, T)
  OBVIOUS
<1>3. vdus \in Seq(ResourceRecord) /\ ToSet(vdus) = Moved
  <2>1. T = Moved /\ ToSet(resources) = Present
    BY DEF Moved, Present, Range, ToSet
  <2>2. vdus \in Seq(ResourceRecord) /\ ToSet(vdus) = ToSet(resources) \cap T
    <3> HIDE DEF T
    <3> QED
      BY <1>1, <1>2, FilterElements
  <2> QED
    BY <2>1, <2>2 DEF Moved
<1>4. PICK flavors : flavors = [k \in DOMAIN vdus |-> Flavor(vdus[k].name)]
  OBVIOUS
<1>5. flavors \in Seq(ResourceRecord) /\ ToSet(flavors) = {Flavor(v.name) : v \in Moved}
  <2>1. \A r \in ResourceRecord : r.name \in Name
    BY DEF ResourceRecord
  <2>2. \A r \in ResourceRecord : Flavor(r.name) \in ResourceRecord
    BY <2>1, FlavorTyped
  <2>3. \A k \in DOMAIN vdus : Flavor(vdus[k].name) \in ResourceRecord
    BY <1>3, <2>2
  <2>4. flavors \in Seq(ResourceRecord) /\ DOMAIN flavors = DOMAIN vdus
    BY <1>3, <1>4, <2>3
  <2> QED
    BY <1>3, <1>4, <2>4 DEF ToSet
<1>6. PICK flat : flat = FlattenSeq(places)
  OBVIOUS
<1>7. flat \in Seq(ResourceRecord) /\
      ToSet(flat) = {r \in Present : r.name \notin Related} \cup {Group(v.name) : v \in Moved}
  BY <1>6, PlacesPresent
<1>8. Staying = flavors \o flat
  BY <1>2, <1>4, <1>6 DEF Staying, Place
<1>9. flavors \o flat \in Seq(ResourceRecord) /\ ToSet(flavors \o flat) = ToSet(flavors) \cup ToSet(flat)
  BY <1>5, <1>7, ConcatElements
<1>10. Range(Staying) = ToSet(flavors \o flat)
  BY <1>8 DEF Range, ToSet
<1> QED
  BY <1>5, <1>7, <1>8, <1>9, <1>10

\* A policy that scales the group of an aspect.
Toward(a, suffix, n) ==
    [Resource(Parted(a, suffix), "ScalingPolicy") EXCEPT
        !.adjustment = n, !.refs = {a}, !.aspect = a]

\* A scaling policy is a resource, with what it is made of.
LEMMA TowardTyped ==
    ASSUME NEW a \in Name, NEW suffix \in Word, NEW n \in {None} \cup Int
    PROVE  /\ Toward(a, suffix, n) \in ResourceRecord
           /\ Toward(a, suffix, n).name = Parted(a, suffix)
           /\ Toward(a, suffix, n).kind = "ScalingPolicy"
           /\ Toward(a, suffix, n).refs = {a} /\ Toward(a, suffix, n).aspect = a
           /\ Toward(a, suffix, n).adjustment = n
<1>1. Parted(a, suffix) \in Name
  BY MadeNames
<1>2. "ScalingPolicy" \in Kinds
  BY DEF Kinds
<1>3. PICK r : r = Resource(Parted(a, suffix), "ScalingPolicy")
  OBVIOUS
<1>4. r \in ResourceRecord
  BY <1>1, <1>2, <1>3, ResourceTyped, Zenon
<1>5. r.name = Parted(a, suffix) /\ r.kind = "ScalingPolicy"
  BY <1>3 DEF Resource
<1>6. Toward(a, suffix, n) = [r EXCEPT !.adjustment = n, !.refs = {a}, !.aspect = a]
  BY <1>3 DEF Toward
<1>7. PICK r1, r2 : r1 = [r EXCEPT !.adjustment = n] /\ r2 = [r1 EXCEPT !.refs = {a}]
  OBVIOUS
<1>8. r1 \in ResourceRecord /\ r1.name = r.name /\ r1.kind = r.kind /\ r1.adjustment = n
  BY <1>4, <1>7 DEF ResourceRecord
<1>9. /\ r2 \in ResourceRecord /\ r2.name = r1.name /\ r2.kind = r1.kind
      /\ r2.adjustment = r1.adjustment /\ r2.refs = {a}
  BY <1>7, <1>8 DEF ResourceRecord
<1>10. Toward(a, suffix, n) = [r2 EXCEPT !.aspect = a]
  BY <1>6, <1>7
<1>11. [r2 EXCEPT !.aspect = a] \in ResourceRecord
  BY <1>9 DEF ResourceRecord
<1>12. /\ Toward(a, suffix, n).name = r2.name /\ Toward(a, suffix, n).kind = r2.kind
       /\ Toward(a, suffix, n).refs = r2.refs /\ Toward(a, suffix, n).aspect = a
       /\ Toward(a, suffix, n).adjustment = r2.adjustment
  BY <1>9, <1>10 DEF ResourceRecord
<1> QED
  BY <1>5, <1>8, <1>9, <1>10, <1>11, <1>12

\* The scaling policies of an aspect.
PoliciesOf(a) == {Toward(a, "scale_out", adjusted[a]), Toward(a, "scale_in", ScaleIn(a))}

\* An aspect has the two policies, out and in.
LEMMA ScalingPoliciesTyped ==
    ASSUME SType, NEW a \in DOMAIN adjusted
    PROVE  /\ ScalingPolicies(a) \in Seq(ResourceRecord)
           /\ ToSet(ScalingPolicies(a)) = PoliciesOf(a)
<1>1. PICK out, in : out = Toward(a, "scale_out", adjusted[a]) /\ in = Toward(a, "scale_in", ScaleIn(a))
  OBVIOUS
<1>2. a \in Name /\ adjusted[a] \in {None} \cup Int /\ ScaleIn(a) \in {None} \cup Int
  BY DEF SType, ScaleIn
<1>3. "scale_out" \in Word /\ "scale_in" \in Word
  BY WordAssumption DEF MadeOf
<1>4. out \in ResourceRecord /\ in \in ResourceRecord
  BY <1>1, <1>2, <1>3, TowardTyped, Zenon
<1>5. ScalingPolicies(a) = <<out, in>>
  BY <1>1 DEF ScalingPolicies, Toward
<1>6. <<out, in>> \in Seq(ResourceRecord)
  BY <1>4
<1>7. ToSet(<<out, in>>) = {out, in}
  BY PairElements
<1> QED
  BY <1>1, <1>5, <1>6, <1>7 DEF PoliciesOf

\* CreatePolicies takes the scaling aspects off the list and adds their policies.
LEMMA PoliciesPresent ==
    ASSUME SType, CreatePolicies,
           \A k \in DOMAIN Policy.aspects : Policy.aspects[k].name \in DOMAIN adjusted
    PROVE  /\ resources' \in Seq(ResourceRecord)
           /\ Present' = {r \in Present : r.kind # "Aspects"}
                \cup UNION {PoliciesOf(Policy.aspects[k].name) : k \in DOMAIN Policy.aspects}
<1> DEFINE T == {r \in Range(resources) : r.kind # "Aspects"}
           places == [k \in DOMAIN Policy.aspects |-> ScalingPolicies(Policy.aspects[k].name)]
<1>1. resources \in Seq(ResourceRecord) /\ ToSet(resources) = Present
  BY DEF SType, Present, Range, ToSet
<1>2. PICK kept : kept = Filter(resources, T)
  OBVIOUS
<1>3. kept \in Seq(ResourceRecord) /\ ToSet(kept) = {r \in Present : r.kind # "Aspects"}
  <2>1. kept \in Seq(ResourceRecord) /\ ToSet(kept) = ToSet(resources) \cap T
    <3> HIDE DEF T
    <3> QED
      BY <1>1, <1>2, FilterElements
  <2> QED
    BY <1>1, <2>1 DEF Present
<1>4. places \in Seq(Seq(ResourceRecord)) /\ DOMAIN places = DOMAIN Policy.aspects
  <2>1. Policy \in Range(vnf.policies) /\ Policy.kind = "Aspects"
    BY PolicyTyped DEF CreatePolicies
  <2>2. PICK S, l : S = [name : Name, level : Int, delta : STRING] /\ l = Policy.aspects
    OBVIOUS
  <2>3. l \in Seq(S)
    BY <2>1, <2>2, VnfsAssumption DEF SType, Range, ToSet
  <2>4. \A k \in DOMAIN l : ScalingPolicies(l[k].name) \in Seq(ResourceRecord)
    BY <2>2, ScalingPoliciesTyped
  <2>5. DOMAIN l = 1..Len(l) /\ Len(l) \in Nat
    BY <2>3
  <2>6. [k \in DOMAIN l |-> ScalingPolicies(l[k].name)] \in Seq(Seq(ResourceRecord))
    BY <2>4, <2>5
  <2> QED
    BY <2>2, <2>6
<1>5. PICK flat : flat = FlattenSeq(places)
  OBVIOUS
<1>6. flat \in Seq(ResourceRecord) /\ ToSet(flat) = UNION {ToSet(places[k]) : k \in DOMAIN places}
  <2> HIDE DEF places
  <2> QED
    BY <1>4, <1>5, FlattenElements
<1>7. \A k \in DOMAIN Policy.aspects : ToSet(places[k]) = PoliciesOf(Policy.aspects[k].name)
  BY ScalingPoliciesTyped
<1>8. ToSet(flat) = UNION {PoliciesOf(Policy.aspects[k].name) : k \in DOMAIN Policy.aspects}
  <2> HIDE DEF places
  <2>1. {ToSet(places[k]) : k \in DOMAIN places} =
            {PoliciesOf(Policy.aspects[k].name) : k \in DOMAIN Policy.aspects}
    BY <1>4, <1>7
  <2> QED
    BY <1>6, <2>1
<1>9. resources' = kept \o flat
  BY <1>2, <1>5 DEF CreatePolicies
<1>10. kept \o flat \in Seq(ResourceRecord) /\ ToSet(kept \o flat) = ToSet(kept) \cup ToSet(flat)
  BY <1>3, <1>6, ConcatElements
<1>11. Present' = ToSet(kept \o flat)
  BY <1>9 DEF Present, Range, ToSet
<1> QED
  BY <1>3, <1>8, <1>9, <1>10, <1>11

\* What a network expands to.
Subnet(name)    == [Resource(Parted(name, "subnet"), "Subnet") EXCEPT !.refs = {name}]
QoS(name)       == Resource(Parted(name, "qospolicy"), "QoS")
Bandwidth(name) ==
    [Resource(Parted(name, "bandwidth"), "Bandwidth") EXCEPT !.refs = {Parted(name, "qospolicy")}]

\* What a network expands to.
LEMMA NetTyped ==
    ASSUME NEW a \in Name
    PROVE  /\ Subnet(a) \in ResourceRecord /\ QoS(a) \in ResourceRecord /\ Bandwidth(a) \in ResourceRecord
           /\ Subnet(a).name = Parted(a, "subnet") /\ Subnet(a).kind = "Subnet" /\ Subnet(a).refs = {a}
           /\ QoS(a).name = Parted(a, "qospolicy") /\ QoS(a).kind = "QoS" /\ QoS(a).refs = {}
           /\ Bandwidth(a).name = Parted(a, "bandwidth") /\ Bandwidth(a).kind = "Bandwidth"
           /\ Bandwidth(a).refs = {Parted(a, "qospolicy")}
<1>1. "subnet" \in Word /\ "qospolicy" \in Word /\ "bandwidth" \in Word
  BY WordAssumption DEF MadeOf
<1>2. Parted(a, "subnet") \in Name /\ Parted(a, "qospolicy") \in Name /\ Parted(a, "bandwidth") \in Name
  BY <1>1, MadeNames, Zenon
<1>3. "Subnet" \in Kinds /\ "QoS" \in Kinds /\ "Bandwidth" \in Kinds
  BY DEF Kinds
<1>4. PICK r, q, b : /\ r = Resource(Parted(a, "subnet"), "Subnet") /\ q = QoS(a)
                     /\ b = Resource(Parted(a, "bandwidth"), "Bandwidth")
  OBVIOUS
<1>5. r \in ResourceRecord /\ q \in ResourceRecord /\ b \in ResourceRecord
  BY <1>2, <1>3, <1>4, ResourceTyped, Zenon DEF QoS
<1>6. /\ r.name = Parted(a, "subnet") /\ r.kind = "Subnet"
      /\ q.name = Parted(a, "qospolicy") /\ q.kind = "QoS" /\ q.refs = {}
      /\ b.name = Parted(a, "bandwidth") /\ b.kind = "Bandwidth"
  BY <1>4 DEF Resource, QoS
<1>7. /\ Subnet(a) = [r EXCEPT !.refs = {a}]
      /\ Bandwidth(a) = [b EXCEPT !.refs = {Parted(a, "qospolicy")}]
  BY <1>4 DEF Subnet, Bandwidth
<1>8. Subnet(a) \in ResourceRecord /\ Bandwidth(a) \in ResourceRecord
  BY <1>2, <1>5, <1>7 DEF ResourceRecord
<1>9. /\ Subnet(a).name = r.name /\ Subnet(a).kind = r.kind /\ Subnet(a).refs = {a}
      /\ Bandwidth(a).name = b.name /\ Bandwidth(a).kind = b.kind
      /\ Bandwidth(a).refs = {Parted(a, "qospolicy")}
  BY <1>5, <1>7 DEF ResourceRecord
<1> QED
  BY <1>4, <1>5, <1>6, <1>8, <1>9

\* What a resource expands to, as a set.
Expanded(r) ==
    CASE r.kind = "Server" -> {Flavor(r.name)}
      [] r.kind = "Net"    -> {Subnet(r.name)} \cup IF r.leaf THEN {QoS(r.name), Bandwidth(r.name)} ELSE {}
      [] OTHER             -> {}

\* Expansion has the elements of Expanded.
LEMMA ExpansionTyped ==
    ASSUME NEW r \in ResourceRecord
    PROVE  Expansion(r) \in Seq(ResourceRecord) /\ ToSet(Expansion(r)) = Expanded(r)
<1>1. r.name \in Name
  BY DEF ResourceRecord
<1>2. PICK f, n, q, b :
        f = Flavor(r.name) /\ n = Subnet(r.name) /\ q = QoS(r.name) /\ b = Bandwidth(r.name)
  OBVIOUS
<1>3. f \in ResourceRecord /\ n \in ResourceRecord /\ q \in ResourceRecord /\ b \in ResourceRecord
  BY <1>1, <1>2, FlavorTyped, NetTyped
<1>4. CASE r.kind = "Server"
  <2>1. Expansion(r) = <<f>> /\ Expanded(r) = {f}
    BY <1>2, <1>4 DEF Expansion, Expanded
  <2> QED
    BY <1>3, <2>1, SingleElement
<1>5. CASE r.kind = "Net" /\ r.leaf
  <2>1. PICK one, two : one = <<n>> /\ two = <<q, b>>
    OBVIOUS
  <2>2. /\ one \in Seq(ResourceRecord) /\ ToSet(one) = {n}
        /\ two \in Seq(ResourceRecord) /\ ToSet(two) = {q, b}
    BY <1>3, <2>1, SingleElement, PairElements
  <2>3. one \o two \in Seq(ResourceRecord) /\ ToSet(one \o two) = ToSet(one) \cup ToSet(two)
    BY <2>2, ConcatElements
  <2>4. Expansion(r) = one \o two /\ Expanded(r) = {n, q, b}
    BY <1>2, <1>5, <2>1 DEF Expansion, Expanded, Subnet, QoS, Bandwidth
  <2> QED
    BY <2>2, <2>3, <2>4
<1>6. CASE r.kind = "Net" /\ ~ r.leaf
  <2>1. Expansion(r) = <<n>> \o <<>> /\ Expanded(r) = {n}
    BY <1>2, <1>6 DEF Expansion, Expanded, Subnet
  <2>2. <<n>> \o <<>> = <<n>>
    OBVIOUS
  <2> QED
    BY <1>3, <2>1, <2>2, SingleElement
<1>7. CASE r.kind # "Server" /\ r.kind # "Net"
  <2>1. Expansion(r) = <<>> /\ Expanded(r) = {}
    BY <1>7 DEF Expansion, Expanded
  <2>2. <<>> \in Seq(ResourceRecord)
    OBVIOUS
  <2>3. ToSet(<<>>) = {}
    BY DEF ToSet
  <2> QED
    BY <2>1, <2>2, <2>3
<1> QED
  BY <1>4, <1>5, <1>6, <1>7

\* The list that is written: what was there and its expansion, with a type.
LEMMA ExpandPresent ==
    ASSUME SType, Expand
    PROVE  /\ resources' \in Seq(ResourceRecord)
           /\ Present' = {r \in Present \cup UNION {Expanded(q) : q \in Present} : r.kind # "Typeless"}
<1> DEFINE places == [k \in DOMAIN resources |-> Expansion(resources[k])]
<1>1. resources \in Seq(ResourceRecord) /\ ToSet(resources) = Present
  BY DEF SType, Present, Range, ToSet
<1>2. \A k \in DOMAIN resources :
        /\ Expansion(resources[k]) \in Seq(ResourceRecord)
        /\ ToSet(Expansion(resources[k])) = Expanded(resources[k])
  <2>1. \A k \in DOMAIN resources : resources[k] \in ResourceRecord
    BY <1>1
  <2> QED
    BY <2>1, ExpansionTyped
<1>3. places \in Seq(Seq(ResourceRecord)) /\ DOMAIN places = DOMAIN resources
  BY <1>1, <1>2
<1>4. PICK flat : flat = FlattenSeq(places)
  OBVIOUS
<1>5. flat \in Seq(ResourceRecord) /\ ToSet(flat) = UNION {ToSet(places[k]) : k \in DOMAIN places}
  <2> HIDE DEF places
  <2> QED
    BY <1>3, <1>4, FlattenElements
<1>6. ToSet(flat) = UNION {Expanded(q) : q \in Present}
  <2>1. \A k \in DOMAIN resources : ToSet(places[k]) = Expanded(resources[k])
    BY <1>2
  <2>2. Present = {resources[k] : k \in DOMAIN resources}
    BY DEF Present, Range
  <2>3. {ToSet(places[k]) : k \in DOMAIN places} = {Expanded(q) : q \in Present}
    <3> HIDE DEF places
    <3> QED
      BY <1>3, <2>1, <2>2
  <2> QED
    BY <1>5, <2>3
<1>7. PICK all : all = resources \o flat
  OBVIOUS
<1>8. all \in Seq(ResourceRecord) /\ ToSet(all) = Present \cup UNION {Expanded(q) : q \in Present}
  BY <1>1, <1>5, <1>6, <1>7, ConcatElements
<1> DEFINE T == {r \in Range(all) : r.kind # "Typeless"}
<1>9. resources' = Filter(all, T)
  BY <1>4, <1>7 DEF Expand
<1>10. Filter(all, T) \in Seq(ResourceRecord) /\ ToSet(Filter(all, T)) = ToSet(all) \cap T
  <2> HIDE DEF T
  <2> QED
    BY <1>8, FilterElements
<1>11. Present' = ToSet(Filter(all, T))
  BY <1>9 DEF Present, Range, ToSet
<1>12. Range(all) = ToSet(all)
  BY DEF Range, ToSet
<1> QED
  BY <1>8, <1>9, <1>10, <1>11, <1>12

-----------------------------------------------------------------------------
(* Types and aspects.                                                       *)

\* When the policies of the aspects are made, every aspect was handled.
LEMMA AspectsDone ==
    ASSUME SType, AspectsBehind, At("Aspects"), aspect > Len(Policy.aspects)
    PROVE  \A k \in DOMAIN Policy.aspects : Policy.aspects[k].name \in DOMAIN adjusted
<1>1. policy \in DOMAIN vnf.policies /\ Policy \in Range(vnf.policies) /\ Policy.kind = "Aspects"
  BY PolicyTyped
<1>2. PICK l : l = Policy.aspects
  OBVIOUS
<1>3. l \in Seq([name : Name, level : Int, delta : STRING])
  BY <1>1, <1>2, VnfsAssumption DEF SType, Range, ToSet
<1>4. \A k \in DOMAIN l : Behind(policy, k)
  BY <1>2, <1>3 DEF Behind, SType
<1> QED
  BY <1>1, <1>2, <1>4 DEF AspectsBehind, Policy

\* The aspect that is handled was not handled before.
LEMMA AspectIsNew ==
    ASSUME AllApart, SType, AspectsBehind, AtAspect
    PROVE  /\ Aspect.name \notin DOMAIN adjusted
           /\ \A i \in DOMAIN vnf.policies : vnf.policies[i].kind = "Aspects" =>
                i = policy /\ \A k \in DOMAIN vnf.policies[i].aspects :
                    vnf.policies[i].aspects[k].name = Aspect.name => k = aspect
<1>1. policy \in DOMAIN vnf.policies /\ Policy.kind = "Aspects" /\ aspect \in DOMAIN Policy.aspects
  BY AspectTyped
<1>2. \A i \in DOMAIN vnf.policies : vnf.policies[i].kind = "Aspects" => i = policy
  BY <1>1 DEF AllApart, NamesApart, SType, Policy
<1>3. \A j, k \in DOMAIN Policy.aspects : Policy.aspects[j].name = Policy.aspects[k].name => j = k
  BY <1>1 DEF AllApart, NamesApart, SType, Policy, Range
<1>4. \A k \in DOMAIN Policy.aspects : Policy.aspects[k].name = Aspect.name => k = aspect
  BY <1>1, <1>3 DEF Aspect
<1>5. ASSUME Aspect.name \in DOMAIN adjusted PROVE FALSE
  <2>1. WasHandled(Aspect.name)
    BY <1>5 DEF AspectsBehind
  <2>2. PICK k \in DOMAIN Policy.aspects : Behind(policy, k) /\ Policy.aspects[k].name = Aspect.name
    BY <2>1, <1>2 DEF WasHandled, Policy
  <2>3. k = aspect /\ policy \in Nat /\ aspect \in Nat
    BY <1>4, <2>2 DEF SType
  <2> QED
    BY <2>2, <2>3 DEF Behind
<1> QED
  BY <1>2, <1>4, <1>5 DEF Policy

\* What is recorded of an aspect stays.
LEMMA Recorded ==
    ASSUME HandleAspect
    PROVE  /\ DOMAIN adjusted' = DOMAIN adjusted \cup {Aspect.name}
           /\ DOMAIN nested' = DOMAIN nested \cup {Aspect.name}
           /\ \A a \in DOMAIN adjusted : a # Aspect.name => adjusted'[a] = adjusted[a]
           /\ \A a \in DOMAIN nested : a # Aspect.name => nested'[a] = nested[a]
           /\ adjusted'[Aspect.name] = Adjustment /\ nested'[Aspect.name] = NestedTemplate
<1>1. PICK a, n, t : a = Aspect.name /\ n = Adjustment /\ t = NestedTemplate
  OBVIOUS
<1>2. /\ adjusted' = [x \in DOMAIN adjusted \cup {a} |-> IF x = a THEN n ELSE adjusted[x]]
      /\ nested' = [x \in DOMAIN nested \cup {a} |-> IF x = a THEN t ELSE nested[x]]
  BY <1>1 DEF HandleAspect, OfAspect
<1> QED
  BY <1>1, <1>2

\* SInv holds when the translator starts on a network function.
LEMMA SInvInit ==
    ASSUME Init
    PROVE  SInv
<1>1. resources = vnf.resources /\ vnf \in Vnfs
  BY DEF Init
<1>2. SType
  BY <1>1, VnfsAssumption DEF Init, SType
<1>3. AspectsBehind
  <2>1. ASSUME NEW i \in DOMAIN vnf.policies, vnf.policies[i].kind = "Aspects",
               NEW k \in DOMAIN vnf.policies[i].aspects
        PROVE  ~ Behind(i, k)
    <3>1. vnf.policies \in Seq(ToSet(vnf.policies)) /\ vnf.policies[i] \in ToSet(vnf.policies)
      BY <1>1, VnfsAssumption DEF ToSet
    <3>2. PICK l : l = vnf.policies[i].aspects
      OBVIOUS
    <3>3. l \in Seq([name : Name, level : Int, delta : STRING])
      BY <1>1, <2>1, <3>1, <3>2, VnfsAssumption
    <3>4. i \in Nat /\ i >= 1 /\ k \in Nat /\ k >= 1
      BY <2>1, <3>1, <3>2, <3>3
    <3> QED
      BY <3>4 DEF Behind, Init
  <2> QED
    BY <2>1 DEF Init, AspectsBehind
<1>4. Forms
  BY <1>1 DEF Forms, OfGiven, Same, Present, Given
<1> QED
  BY <1>2, <1>3, <1>4 DEF SInv

\* A step keeps the types.
LEMMA TypeStep ==
    ASSUME SType, AspectsBehind, Next
    PROVE  SType'
<1>1. CASE HandleAffinity
  BY <1>1, AffinityPresent DEF SType, HandleAffinity, At
<1>2. CASE HandleAspect
  <2>1. AtAspect /\ Deltas # <<>>
    BY <1>2 DEF HandleAspect, Scalable
  <2>2. resources' \in Seq(ResourceRecord)
    BY <1>2, <2>1, StayingPresent DEF HandleAspect
  <2>3. Aspect.name \in Name /\ Adjustment \in {None} \cup Int
    BY <2>1, AspectTyped, DeltasTyped
  <2>4. \A a \in DOMAIN adjusted' : a \in Name /\ adjusted'[a] \in {None} \cup Int
    BY <1>2, <2>3, Recorded DEF SType
  <2> QED
    BY <1>2, <2>1, <2>2, <2>4 DEF SType, HandleAspect, AtAspect, At
<1>3. CASE Fail
  BY <1>3 DEF SType, Fail
<1>4. CASE CreatePolicies
  <2>1. resources' \in Seq(ResourceRecord)
    BY <1>4, AspectsDone, PoliciesPresent DEF CreatePolicies
  <2> QED
    BY <1>4, <2>1 DEF SType, CreatePolicies, At
<1>5. CASE FinishProperties
  BY <1>5 DEF SType, FinishProperties
<1>6. CASE Expand
  BY <1>6, ExpandPresent DEF SType, Expand
<1> QED
  BY <1>1, <1>2, <1>3, <1>4, <1>5, <1>6 DEF Next

\* A step keeps AspectsBehind: an aspect that is handled is then known.
LEMMA BehindStep ==
    ASSUME AllApart, SType, AspectsBehind, Next
    PROVE  AspectsBehind'
<1>1. vnf' = vnf
  BY DEF Next, HandleAffinity, HandleAspect, Fail, CreatePolicies, FinishProperties, Expand
<1>2. policy \in Nat /\ aspect \in Nat
  BY DEF SType
<1>3. \A i \in DOMAIN vnf.policies : i \in Nat
  <2>1. vnf.policies \in Seq(ToSet(vnf.policies))
    BY VnfsAssumption DEF SType
  <2> QED
    BY <2>1
<1>4. ASSUME NEW i \in DOMAIN vnf.policies, vnf.policies[i].kind = "Aspects",
             NEW k \in DOMAIN vnf.policies[i].aspects
      PROVE  k \in Nat /\ k >= 1 /\ k <= Len(vnf.policies[i].aspects)
             /\ Len(vnf.policies[i].aspects) \in Nat
  <2>1. PICK l : l = vnf.policies[i].aspects
    OBVIOUS
  <2>2. l \in Seq([name : Name, level : Int, delta : STRING])
    BY <1>4, <2>1, VnfsAssumption DEF SType, ToSet
  <2> QED
    BY <1>4, <2>1, <2>2
<1>5. CASE HandleAffinity
  <2>1. /\ policy' = policy + 1 /\ UNCHANGED <<aspect, adjusted, nested>>
        /\ policy \in DOMAIN vnf.policies /\ vnf.policies[policy].kind = "Affinity"
    BY <1>5, PolicyTyped DEF HandleAffinity, Policy
  <2>2. \A i \in DOMAIN vnf.policies : vnf.policies[i].kind = "Aspects" =>
            \A k \in DOMAIN vnf.policies[i].aspects :
                (i < policy + 1 \/ (i = policy + 1 /\ k < aspect)) <=> Behind(i, k)
    <3> SUFFICES ASSUME NEW i \in DOMAIN vnf.policies, vnf.policies[i].kind = "Aspects",
                        NEW k \in DOMAIN vnf.policies[i].aspects
                 PROVE  (i < policy + 1 \/ (i = policy + 1 /\ k < aspect)) <=> Behind(i, k)
      OBVIOUS
    <3>1. i # policy /\ i \in Nat
      BY <1>3, <2>1
    <3>2. i > policy => aspect = 1
      BY DEF AspectsBehind
    <3>3. k \in Nat /\ k >= 1
      BY <1>4
    <3> QED
      BY <1>2, <3>1, <3>2, <3>3 DEF Behind
  <2> QED
    BY <1>1, <1>2, <1>3, <2>1, <2>2 DEF AspectsBehind, Behind, WasHandled
<1>6. CASE HandleAspect
  <2>1. AtAspect /\ policy' = policy /\ aspect' = aspect + 1
    BY <1>6 DEF HandleAspect
  <2>2. /\ policy \in DOMAIN vnf.policies /\ vnf.policies[policy].kind = "Aspects"
        /\ aspect \in DOMAIN vnf.policies[policy].aspects
        /\ vnf.policies[policy].aspects[aspect].name = Aspect.name
    BY <2>1, AspectTyped DEF Policy, Aspect
  <2>3. \A i \in DOMAIN vnf.policies : vnf.policies[i].kind = "Aspects" => i = policy
    BY <2>1, AspectIsNew
  <2>4. \A k \in DOMAIN vnf.policies[policy].aspects : k < aspect + 1 <=> k < aspect \/ k = aspect
    BY <1>2, <1>4, <2>2
  <2>5. /\ DOMAIN adjusted' = DOMAIN adjusted \cup {Aspect.name}
        /\ DOMAIN nested' = DOMAIN nested \cup {Aspect.name}
    BY <1>6, Recorded
  <2>6. DOMAIN adjusted' = DOMAIN nested'
    BY <2>5 DEF AspectsBehind
  <2>7. ASSUME NEW a \in DOMAIN nested' PROVE WasHandled(a)'
    <3>1. CASE a = Aspect.name
      BY <1>1, <2>1, <2>2, <2>4, <3>1 DEF WasHandled, Behind
    <3>2. CASE a \in DOMAIN nested
      <4>1. PICK k \in DOMAIN vnf.policies[policy].aspects :
                Behind(policy, k) /\ vnf.policies[policy].aspects[k].name = a
        BY <2>3, <3>2 DEF AspectsBehind, WasHandled
      <4>2. k < aspect + 1
        BY <1>2, <2>4, <4>1 DEF Behind
      <4> QED
        BY <1>1, <2>1, <2>2, <4>1, <4>2 DEF WasHandled, Behind
    <3> QED
      BY <2>5, <3>1, <3>2
  <2>8. ASSUME NEW k \in DOMAIN vnf.policies[policy].aspects, Behind(policy, k)'
        PROVE  vnf.policies[policy].aspects[k].name \in DOMAIN nested'
    <3>1. k < aspect \/ k = aspect
      BY <1>2, <2>1, <2>4, <2>8 DEF Behind
    <3>2. CASE k < aspect
      BY <2>2, <2>5, <3>2 DEF AspectsBehind, Behind
    <3>3. CASE k = aspect
      BY <2>2, <2>5, <3>3
    <3> QED
      BY <3>1, <3>2, <3>3
  <2>9. \A i \in DOMAIN vnf.policies : vnf.policies[i].kind = "Aspects" => ~ (i > policy)
    BY <1>2, <2>3
  <2> QED
    BY <1>1, <2>1, <2>3, <2>6, <2>7, <2>8, <2>9 DEF AspectsBehind
<1>7. CASE CreatePolicies
  <2>1. /\ policy' = policy + 1 /\ UNCHANGED <<aspect, adjusted, nested>>
        /\ policy \in DOMAIN vnf.policies /\ vnf.policies[policy].kind = "Aspects"
        /\ aspect > Len(vnf.policies[policy].aspects)
    BY <1>7, PolicyTyped DEF CreatePolicies, Policy
  <2>2. \A i \in DOMAIN vnf.policies : vnf.policies[i].kind = "Aspects" => i = policy
    BY <2>1 DEF AllApart, NamesApart, SType
  <2>3. \A k \in DOMAIN vnf.policies[policy].aspects :
            (policy < policy + 1 \/ (policy = policy + 1 /\ k < aspect)) /\ Behind(policy, k)
    BY <1>2, <1>4, <2>1 DEF Behind
  <2> QED
    BY <1>1, <1>2, <2>1, <2>2, <2>3 DEF AspectsBehind, Behind, WasHandled
<1>8. CASE Fail \/ FinishProperties \/ Expand
  <2>1. UNCHANGED <<policy, aspect, adjusted, nested>>
    BY <1>8 DEF Fail, FinishProperties, Expand
  <2> QED
    BY <1>1, <2>1 DEF AspectsBehind, Behind, WasHandled
<1> QED
  BY <1>5, <1>6, <1>7, <1>8 DEF Next

-----------------------------------------------------------------------------
(* Forms.                                                                   *)

\* The kind of a resource tells its form and how its name ends.
LEMMA KindsTell ==
    ASSUME AllApart, SType, AspectsBehind, Forms, NEW r \in Present
    PROVE  /\ r.kind \in {"Server", "Port", "Volume", "Net", "Aspects", "ServerGroup", "Typeless"} =>
                OfGiven(r)
           /\ r.kind \in {"Server", "Port", "Volume", "Net", "Aspects"} => OwnName(r.name)
           /\ r.kind \in {"ServerGroup", "Typeless"} => Last(r.name) = "group"
           /\ r.kind = "Flavor" => OfFlavor(r) /\ Last(r.name) = "flavor"
           /\ r.kind = "Group" => OfGroup(r) /\ OwnName(r.name)
           /\ r.kind = "ScalingPolicy" => OfPolicy(r) /\ Last(r.name) \in {"scale_out", "scale_in"}
           /\ r.kind \in {"Subnet", "QoS", "Bandwidth"} =>
                OfNet(r) /\ Last(r.name) \in {"subnet", "qospolicy", "bandwidth"}
<1>1. vnf \in Vnfs /\ NamesApart(vnf) /\ Given \subseteq ResourceRecord
  BY GivenTyped DEF AllApart, SType
<1>2. \A o \in Given :
        /\ o.kind \in {"Server", "Port", "Volume", "Net", "ServerGroup", "Aspects"}
        /\ o.name \in Name
        /\ o.kind # "ServerGroup" => OwnName(o.name)
        /\ o.kind = "ServerGroup" => Last(o.name) = "group"
  BY <1>1 DEF NamesApart, Given, ResourceRecord
<1>3. CASE OfGiven(r)
  BY <1>2, <1>3 DEF OfGiven, Same
<1>4. CASE OfFlavor(r)
  <2>1. PICK o \in Given : r.name = FlavorName(o.name)
    BY <1>4 DEF OfFlavor
  <2>2. Last(r.name) = "flavor"
    BY <1>2, <2>1, MadeNames
  <2> QED
    BY <1>4, <2>2 DEF OfFlavor
<1>5. CASE OfGroup(r)
  <2>1. WasHandled(r.name)
    BY <1>5 DEF OfGroup, AspectsBehind
  <2>2. PICK i \in DOMAIN vnf.policies : vnf.policies[i].kind = "Aspects" /\
            \E k \in DOMAIN vnf.policies[i].aspects : vnf.policies[i].aspects[k].name = r.name
    BY <2>1 DEF WasHandled
  <2>3. PICK k \in DOMAIN vnf.policies[i].aspects : vnf.policies[i].aspects[k].name = r.name
    BY <2>2
  <2>4. vnf.policies[i] \in Range(vnf.policies) /\
        vnf.policies[i].aspects[k] \in Range(vnf.policies[i].aspects)
    BY <2>2, <2>3 DEF Range
  <2>5. OwnName(r.name)
    BY <1>1, <2>2, <2>3, <2>4 DEF NamesApart
  <2> QED
    BY <1>5, <2>5 DEF OfGroup
<1>6. CASE OfPolicy(r)
  <2>1. r.aspect \in Name
    BY <1>6 DEF OfPolicy, SType
  <2>2. "scale_out" \in Word /\ "scale_in" \in Word
    BY WordAssumption DEF MadeOf
  <2>3. Last(Parted(r.aspect, "scale_out")) = "scale_out" /\ Last(Parted(r.aspect, "scale_in")) = "scale_in"
    BY <2>1, <2>2, MadeNames, Zenon
  <2>4. Last(r.name) \in {"scale_out", "scale_in"}
    BY <1>6, <2>3 DEF OfPolicy
  <2> QED
    BY <1>6, <2>4 DEF OfPolicy
<1>7. CASE OfNet(r)
  <2>1. "subnet" \in Word /\ "qospolicy" \in Word /\ "bandwidth" \in Word
    BY WordAssumption DEF MadeOf
  <2>2. \A o \in Given : /\ Last(Parted(o.name, "subnet")) = "subnet"
                         /\ Last(Parted(o.name, "qospolicy")) = "qospolicy"
                         /\ Last(Parted(o.name, "bandwidth")) = "bandwidth"
    BY <1>2, <2>1, MadeNames, Zenon
  <2>3. r.kind \in {"Subnet", "QoS", "Bandwidth"} /\ Last(r.name) \in {"subnet", "qospolicy", "bandwidth"}
    BY <1>7, <2>2 DEF OfNet
  <2> QED
    BY <1>7, <2>3
<1> QED
  BY <1>3, <1>4, <1>5, <1>6, <1>7 DEF Forms

\* A step keeps Forms: what it adds has one of the forms.
LEMMA FormsStep ==
    ASSUME AllApart, SType, AspectsBehind, Forms, Next
    PROVE  Forms'
<1>1. vnf' = vnf /\ Given' = Given
  BY DEF Next, HandleAffinity, HandleAspect, Fail, CreatePolicies, FinishProperties, Expand, Given
<1>2. Present \subseteq ResourceRecord /\ Given \subseteq ResourceRecord
  BY PresentTyped, GivenTyped DEF SType
<1>3. CASE HandleAffinity
  <2>1. Present' = {Hinted(r) : r \in Present} /\ At("Affinity") /\ Policy.name \in Name
    BY <1>3, AffinityPresent, PolicyTyped DEF HandleAffinity
  <2>2. Last(Parted(Policy.name, "group")) = "group"
    <3>1. "group" \in Word
      BY WordAssumption DEF MadeOf
    <3> QED
      BY <2>1, <3>1, MadeNames, Zenon
  <2>3. ASSUME NEW r \in Present
        PROVE  LET h == Hinted(r)
               IN  OfGiven(h) \/ OfFlavor(h) \/ OfGroup(h) \/ OfPolicy(h) \/ OfNet(h)
    <3>1. CASE AffinityOf(r)
      <4>1. r.kind = "Server" /\ OfGiven(r)
        BY <3>1, KindsTell DEF AffinityOf
      <4>2. PICK o \in Given : Same(r, o)
        BY <4>1 DEF OfGiven
      <4>3. Same(Hinted(r), o)
        BY <1>2, <3>1, <4>2 DEF Same, Hinted, ResourceRecord
      <4> QED
        BY <4>2, <4>3 DEF OfGiven
    <3>2. CASE ~ AffinityOf(r) /\ Hinted(r) # r
      <4>1. r.name = Parted(Policy.name, "group") /\ Hinted(r) = [r EXCEPT !.kind = "Typeless"]
        BY <3>2 DEF Hinted
      <4>2. r.kind \in {"ServerGroup", "Typeless"}
        BY <1>2, <2>2, <4>1, KindsTell DEF OwnName, MadeOf, ResourceRecord, Kinds
      <4>3. PICK o \in Given : Same(r, o)
        BY <4>2, KindsTell DEF OfGiven
      <4>4. o.kind = "ServerGroup"
        BY <1>1, <4>2, <4>3 DEF Same, AllApart, NamesApart, SType, Given
      <4>5. Same(Hinted(r), o)
        BY <1>2, <4>1, <4>3, <4>4 DEF Same, ResourceRecord
      <4> QED
        BY <4>3, <4>5 DEF OfGiven
    <3>3. CASE Hinted(r) = r
      BY <3>3 DEF Forms
    <3> QED
      BY <3>1, <3>2, <3>3
  <2>4. UNCHANGED <<adjusted, stage>>
    BY <1>3 DEF HandleAffinity
  <2> QED
    BY <1>1, <2>1, <2>3, <2>4 DEF Forms, OfGiven, OfFlavor, OfGroup, OfPolicy, OfNet, Levelled, ScaleIn
<1>4. CASE HandleAspect
  <2>1. AtAspect /\ Deltas # <<>> /\ stage' = stage /\ resources' = Staying
    BY <1>4 DEF HandleAspect, Scalable
  <2>2. Present' = {r \in Present : r.name \notin Related}
                \cup {Flavor(v.name) : v \in Moved} \cup {Group(v.name) : v \in Moved}
    BY <2>1, StayingPresent DEF Present
  <2>3. Aspect.name \notin DOMAIN adjusted
    BY <2>1, AspectIsNew
  <2>4. /\ DOMAIN adjusted' = DOMAIN adjusted \cup {Aspect.name}
        /\ \A a \in DOMAIN adjusted : adjusted'[a] = adjusted[a]
        /\ adjusted'[Aspect.name] = Adjustment
    BY <1>4, <2>3, Recorded
  <2>5. ASSUME NEW r \in Present
        PROVE  OfGiven(r)' \/ OfFlavor(r)' \/ OfGroup(r)' \/ OfPolicy(r)' \/ OfNet(r)'
    <3>1. OfGiven(r) => OfGiven(r)'
      BY <1>1 DEF OfGiven
    <3>2. OfFlavor(r) => OfFlavor(r)'
      BY <1>1 DEF OfFlavor
    <3>3. OfGroup(r) => OfGroup(r)'
      BY <1>1, <2>4 DEF OfGroup, Levelled
    <3>4. OfPolicy(r) => OfPolicy(r)'
      BY <2>4 DEF OfPolicy, ScaleIn
    <3>5. OfNet(r) => OfNet(r)'
      BY <1>1, <2>1 DEF OfNet
    <3> QED
      BY <3>1, <3>2, <3>3, <3>4, <3>5 DEF Forms
  <2>6. ASSUME NEW v \in Moved, NEW f, f = Flavor(v.name)
        PROVE  OfFlavor(f)'
    <3>1. v \in Present /\ v.kind = "Server" /\ v.name \in Name
      BY <1>2 DEF Moved, ResourceRecord
    <3>2. PICK o \in Given : Same(v, o)
      BY <3>1, KindsTell DEF OfGiven
    <3>3. o.kind = "Server" /\ o.name = v.name
      BY <3>1, <3>2 DEF Same
    <3>4. f.kind = "Flavor" /\ f.refs = {} /\ f.name = FlavorName(v.name)
      BY <2>6, <3>1, FlavorTyped
    <3> QED
      BY <1>1, <3>2, <3>3, <3>4 DEF OfFlavor
  <2>7. ASSUME NEW v \in Moved, NEW g, g = Group(v.name)
        PROVE  OfGroup(g)'
    <3>1. /\ g.kind = "Group" /\ g.name = Aspect.name /\ g.aspect = Aspect.name
          /\ g.max # None => /\ g.min \in Int /\ Adjustment \in Int /\ Adjustment # None
                             /\ g.max = g.min + Aspect.level * Adjustment
      BY <2>1, <2>7, GroupTyped
    <3>2. \A i \in DOMAIN vnf.policies : vnf.policies[i].kind = "Aspects" =>
            \A k \in DOMAIN vnf.policies[i].aspects :
                vnf.policies[i].aspects[k].name = Aspect.name =>
                    vnf.policies[i].aspects[k].level = Aspect.level
      BY <2>1, AspectIsNew DEF Aspect, Policy
    <3>3. Levelled(g)'
      BY <1>1, <2>4, <3>1, <3>2 DEF Levelled
    <3> QED
      BY <2>4, <3>1, <3>3 DEF OfGroup
  <2>8. ASSUME NEW r \in Present'
        PROVE  OfGiven(r)' \/ OfFlavor(r)' \/ OfGroup(r)' \/ OfPolicy(r)' \/ OfNet(r)'
    <3>1. r \in Present \/ (\E v \in Moved : r = Flavor(v.name)) \/ (\E v \in Moved : r = Group(v.name))
      BY <2>2
    <3> QED
      BY <2>5, <2>6, <2>7, <3>1
  <2> QED
    BY <2>8 DEF Forms
<1>5. CASE CreatePolicies
  <2>1. \A k \in DOMAIN Policy.aspects : Policy.aspects[k].name \in DOMAIN adjusted
    BY <1>5, AspectsDone DEF CreatePolicies
  <2>2. Present' = {r \in Present : r.kind # "Aspects"}
                \cup UNION {PoliciesOf(Policy.aspects[k].name) : k \in DOMAIN Policy.aspects}
    BY <1>5, <2>1, PoliciesPresent
  <2>3. ASSUME NEW a \in DOMAIN adjusted, NEW r \in PoliciesOf(a) PROVE OfPolicy(r)
    <3>1. a \in Name /\ adjusted[a] \in {None} \cup Int /\ ScaleIn(a) \in {None} \cup Int
      BY DEF SType, ScaleIn
    <3>2. "scale_out" \in Word /\ "scale_in" \in Word
      BY WordAssumption DEF MadeOf
    <3>3. CASE r = Toward(a, "scale_out", adjusted[a])
      <4>1. /\ r.name = Parted(a, "scale_out") /\ r.kind = "ScalingPolicy" /\ r.refs = {a}
            /\ r.aspect = a /\ r.adjustment = adjusted[a]
        BY <3>1, <3>2, <3>3, TowardTyped
      <4> QED
        BY <4>1 DEF OfPolicy
    <3>4. CASE r = Toward(a, "scale_in", ScaleIn(a))
      <4>1. /\ r.name = Parted(a, "scale_in") /\ r.kind = "ScalingPolicy" /\ r.refs = {a}
            /\ r.aspect = a /\ r.adjustment = ScaleIn(a)
        BY <3>1, <3>2, <3>4, TowardTyped
      <4> QED
        BY <4>1 DEF OfPolicy
    <3> QED
      BY <3>3, <3>4 DEF PoliciesOf
  <2>4. UNCHANGED <<adjusted, stage>>
    BY <1>5 DEF CreatePolicies
  <2>5. \A r \in Present' : OfGiven(r) \/ OfFlavor(r) \/ OfGroup(r) \/ OfPolicy(r) \/ OfNet(r)
    BY <2>1, <2>2, <2>3 DEF Forms
  <2> QED
    BY <1>1, <2>4, <2>5 DEF Forms, OfGiven, OfFlavor, OfGroup, OfPolicy, OfNet, Levelled, ScaleIn
<1>6. CASE Expand
  <2>1. Present' \subseteq Present \cup UNION {Expanded(q) : q \in Present}
    BY <1>6, ExpandPresent
  <2>2. stage = "expansion" /\ stage' = "written" /\ adjusted' = adjusted
    BY <1>6 DEF Expand
  <2>3. ASSUME NEW r \in Present
        PROVE  OfGiven(r)' \/ OfFlavor(r)' \/ OfGroup(r)' \/ OfPolicy(r)' \/ OfNet(r)'
    BY <1>1, <2>2 DEF Forms, OfGiven, OfFlavor, OfGroup, OfPolicy, OfNet, Levelled, ScaleIn
  <2>4. ASSUME NEW q \in Present, NEW r \in Expanded(q)
        PROVE  OfFlavor(r)' \/ OfNet(r)'
    <3>1. q.name \in Name
      BY <1>2 DEF ResourceRecord
    <3>2. q.kind = "Server" \/ q.kind = "Net"
      BY DEF Expanded
    <3>3. PICK o \in Given : Same(q, o)
      BY <3>2, KindsTell DEF OfGiven
    <3>4. o.kind = q.kind /\ o.name = q.name /\ o.leaf = q.leaf
      BY <3>2, <3>3 DEF Same
    <3>5. CASE q.kind = "Server"
      <4>1. r = Flavor(q.name)
        BY <3>5 DEF Expanded
      <4>2. r.kind = "Flavor" /\ r.refs = {} /\ r.name = FlavorName(q.name)
        BY <3>1, <4>1, FlavorTyped
      <4> QED
        BY <1>1, <3>3, <3>4, <3>5, <4>2 DEF OfFlavor
    <3>6. CASE q.kind = "Net"
      <4>1. r = Subnet(q.name) \/ (q.leaf /\ (r = QoS(q.name) \/ r = Bandwidth(q.name)))
        BY <3>6 DEF Expanded
      <4>2. \/ r.kind = "Subnet" /\ r.name = Parted(q.name, "subnet") /\ r.refs = {q.name}
            \/ r.kind = "QoS" /\ r.name = Parted(q.name, "qospolicy") /\ r.refs = {}
            \/ /\ r.kind = "Bandwidth" /\ q.leaf
               /\ r.name = Parted(q.name, "bandwidth") /\ r.refs = {Parted(q.name, "qospolicy")}
        BY <3>1, <4>1, NetTyped
      <4> QED
        BY <1>1, <2>2, <3>3, <3>4, <3>6, <4>2 DEF OfNet
    <3> QED
      BY <3>2, <3>5, <3>6
  <2> QED
    BY <2>1, <2>3, <2>4 DEF Forms
<1>7. CASE Fail \/ FinishProperties
  <2>1. UNCHANGED <<resources, adjusted>> /\ Present' = Present
    BY <1>7 DEF Fail, FinishProperties, Present
  <2>2. stage # "written"
    BY <1>7 DEF Fail, FinishProperties, AtAspect, At
  <2> QED
    BY <1>1, <2>1, <2>2 DEF Forms, OfGiven, OfFlavor, OfGroup, OfPolicy, OfNet, Levelled, ScaleIn
<1> QED
  BY <1>3, <1>4, <1>5, <1>6, <1>7 DEF Next

\* SInv is inductive.
LEMMA SInvStep ==
    ASSUME AllApart, SInv, [Next]_vars
    PROVE  SInv'
<1>1. CASE Next
  BY <1>1, TypeStep, BehindStep, FormsStep DEF SInv
<1>2. CASE UNCHANGED vars
  BY <1>2 DEF vars, SInv, SType, AspectsBehind, Behind, WasHandled, Forms, Present, Given,
              OfGiven, OfFlavor, OfGroup, OfPolicy, OfNet, Levelled, ScaleIn
<1> QED
  BY <1>1, <1>2

\* A group goes from its minimum to its maximum in the steps of its aspect, and back.
THEOREM LevelsAreReached == AllApart /\ Spec => []LevelsReachSizes
<1> SUFFICES ASSUME AllApart PROVE Spec => []LevelsReachSizes
  OBVIOUS
<1>1. SInv => LevelsReachSizes
  <2> SUFFICES ASSUME SInv, Written, NEW g \in Groups, NEW p \in Range(vnf.policies),
                      p.kind = "Aspects", g.max # None, NEW a \in Range(p.aspects),
                      NEW out \in Main, NEW in \in Main, g.aspect = a.name,
                      out.name = Parted(a.name, "scale_out"), in.name = Parted(a.name, "scale_in")
               PROVE  /\ g.min + a.level * out.adjustment = g.max
                      /\ g.max + a.level * in.adjustment = g.min
    BY DEF LevelsReachSizes
  <2>1. g \in Present /\ out \in Present /\ in \in Present /\ g.kind = "Group"
    BY MainNames DEF SInv, SType, Groups
  <2>2. Present \subseteq ResourceRecord /\ vnf \in Vnfs
    BY PresentTyped DEF SInv, SType
  <2>3. PICK i \in DOMAIN vnf.policies : p = vnf.policies[i]
    BY DEF Range
  <2>4. PICK k \in DOMAIN p.aspects : a = p.aspects[k]
    BY DEF Range
  <2>5. a.name \in Name /\ a.level \in Int
    <3>1. PICK S, l : S = [name : Name, level : Int, delta : STRING] /\ l = p.aspects
      OBVIOUS
    <3>2. l \in Seq(S)
      BY <2>2, <3>1, VnfsAssumption DEF Range, ToSet
    <3>3. l[k] \in S
      <4>1. k \in DOMAIN l
        BY <2>4, <3>1
      <4>2. k \in 1..Len(l)
        BY <3>2, <4>1
      <4> QED
        BY <3>2, <4>2
    <3> QED
      BY <2>4, <3>1, <3>3
  <2>6. OfGroup(g)
    BY <2>1, KindsTell DEF SInv
  <2>7. /\ g.min \in Int /\ adjusted[a.name] \in Int /\ adjusted[a.name] # None
        /\ g.max = g.min + a.level * adjusted[a.name]
    BY <2>3, <2>4, <2>6 DEF OfGroup, Levelled
  <2>8. "scale_out" \in Word /\ "scale_in" \in Word
    BY WordAssumption DEF MadeOf
  <2>9. Last(out.name) = "scale_out" /\ Last(in.name) = "scale_in"
    BY <2>5, <2>8, MadeNames, Zenon
  <2>10. out.kind = "ScalingPolicy" /\ in.kind = "ScalingPolicy"
    BY <2>1, <2>2, <2>9, KindsTell DEF SInv, OwnName, MadeOf, ResourceRecord, Kinds
  <2>11. OfPolicy(out) /\ OfPolicy(in)
    BY <2>1, <2>10, KindsTell DEF SInv
  <2>12. out.aspect \in Name /\ in.aspect \in Name
    BY <2>11 DEF OfPolicy, SInv, SType
  <2>13. \A x, y \in Name : \A s, t \in {"scale_out", "scale_in"} :
            Parted(x, s) = Parted(y, t) => x = y /\ s = t
    BY <2>8, PartedApart
  <2>14. out.adjustment = adjusted[a.name] /\ in.adjustment = ScaleIn(a.name)
    BY <2>5, <2>11, <2>12, <2>13 DEF OfPolicy
  <2>15. ScaleIn(a.name) = - adjusted[a.name]
    BY <2>7 DEF ScaleIn
  <2>16. PICK n, m, l : n = adjusted[a.name] /\ m = g.min /\ l = a.level
    OBVIOUS
  <2>17. n \in Int /\ m \in Int /\ l \in Int /\ g.max = m + l * n
    BY <2>5, <2>7, <2>16
  <2>18. (m + l * n) + l * (- n) = m
    BY <2>17
  <2> QED
    BY <2>14, <2>15, <2>16, <2>17, <2>18
<1> QED
  BY <1>1, SInvInit, SInvStep, PTL DEF Spec

-----------------------------------------------------------------------------
(* Every resource is in one place.                                          *)

\* The kinds that the network function brings and that are never dropped.
PlacedKinds == {"Server", "Port", "Volume", "Net"}

\* The resources of these kinds.
Placed == {o \in Given : o.kind \in PlacedKinds}

\* There is a resource of this name in the main template, or in that of an aspect.
InMain(name) == name \in Names(Present)
InNested(name, a) == name \in Names(nested[a].resources)

\* In the main template, or in just one nested template.
OnePlace(o) ==
    \/ InMain(o.name) /\ \A a \in DOMAIN nested : ~ InNested(o.name, a)
    \/ ~ InMain(o.name) /\ \E a \in DOMAIN nested :
            InNested(o.name, a) /\ \A b \in DOMAIN nested : InNested(o.name, b) => b = a

\* A VDU that was moved left its flavor.
FlavorKept(o) ==
    o.kind = "Server" => InMain(FlavorName(o.name)) \/ (stage # "written" /\ InMain(o.name))

\* Every such resource has one place, and every VDU its flavor.
Places == \A o \in Placed : OnePlace(o) /\ FlavorKept(o)

\* The parts of the VDUs of every network function exist.
AllGiven == \A v \in Vnfs : PartsGiven(v)

\* A name the translator does not make is none of those that it makes.
LEMMA NotMade ==
    ASSUME NEW x \in Name, NEW n, OwnName(n)
    PROVE  /\ \A s \in MadeOf : Parted(x, s) # n
           /\ FlavorName(x) # n
<1>1. MadeOf \subseteq Word /\ "flavor" \in MadeOf
  BY WordAssumption DEF MadeOf
<1>2. \A s \in MadeOf : Last(Parted(x, s)) = s
  BY <1>1, MadeNames
<1>3. \A s \in MadeOf : Parted(x, s) # n
  BY <1>2 DEF OwnName
<1> QED
  BY <1>1, <1>3 DEF FlavorName

\* The resources of a network function have names of their own.
LEMMA GivenApart ==
    ASSUME AllApart, SType
    PROVE  /\ \A o, p \in Given : o.name = p.name => o = p
           /\ \A o \in Given : /\ o \in ResourceRecord /\ o.name \in Name
                               /\ o.kind \in PlacedKinds \cup {"ServerGroup", "Aspects"}
                               /\ o.kind # "ServerGroup" => OwnName(o.name)
                               /\ o.kind = "ServerGroup" => Last(o.name) = "group"
<1>1. vnf \in Vnfs /\ NamesApart(vnf) /\ Given \subseteq ResourceRecord
  BY GivenTyped DEF AllApart, SType
<1>2. \A o, p \in Given : o.name = p.name => o = p
  BY <1>1 DEF NamesApart, Given, Range
<1>3. \A o \in Given : /\ o.kind \in PlacedKinds \cup {"ServerGroup", "Aspects"}
                       /\ o.kind # "ServerGroup" => OwnName(o.name)
                       /\ o.kind = "ServerGroup" => Last(o.name) = "group"
  BY <1>1 DEF NamesApart, Given, PlacedKinds
<1> QED
  BY <1>1, <1>2, <1>3 DEF ResourceRecord

\* The name of an aspect is not that of a resource.
LEMMA AspectsApart ==
    ASSUME AllApart, SType, NEW i \in DOMAIN vnf.policies, vnf.policies[i].kind = "Aspects",
           NEW k \in DOMAIN vnf.policies[i].aspects
    PROVE  /\ OwnName(vnf.policies[i].aspects[k].name)
           /\ vnf.policies[i].aspects[k].name \notin Names(Given)
<1>1. vnf.policies[i] \in Range(vnf.policies) /\
      vnf.policies[i].aspects[k] \in Range(vnf.policies[i].aspects)
  BY DEF Range
<1>2. vnf \in Vnfs /\ NamesApart(vnf)
  BY DEF AllApart, SType
<1> QED
  BY <1>1, <1>2 DEF NamesApart, Given

\* What has the name of a resource of the network function is that resource.
LEMMA NamesBack ==
    ASSUME AllApart, SInv, NEW o \in Placed, NEW r \in Present, r.name = o.name
    PROVE  Same(r, o) /\ r.kind = o.kind
<1>1. o \in Given /\ o.name \in Name /\ OwnName(o.name) /\ o.kind # "ServerGroup"
  BY GivenApart DEF Placed, PlacedKinds, SInv
<1>2. r.kind \notin {"ServerGroup", "Typeless", "Flavor", "ScalingPolicy", "Subnet", "QoS", "Bandwidth"}
  BY <1>1, KindsTell DEF OwnName, MadeOf, SInv
<1>3. r.kind # "Group"
  <2> SUFFICES ASSUME r.kind = "Group" PROVE FALSE
    OBVIOUS
  <2>1. WasHandled(r.name)
    BY KindsTell DEF SInv, OfGroup, AspectsBehind
  <2>2. r.name \notin Names(Given)
    BY <2>1, AspectsApart DEF WasHandled, SInv
  <2> QED
    BY <1>1, <2>2 DEF Names
<1>4. r.kind \in Kinds
  BY PresentTyped DEF SInv, SType, ResourceRecord
<1>5. OfGiven(r)
  BY <1>2, <1>3, <1>4, KindsTell DEF Kinds, SInv
<1>6. PICK p \in Given : Same(r, p)
  BY <1>5 DEF OfGiven
<1>7. p = o
  BY <1>1, <1>6, GivenApart DEF Same, SInv
<1> QED
  BY <1>1, <1>6, <1>7 DEF Same

\* A nested template has what is related to its VDUs, under the same names.
LEMMA NestedNames ==
    ASSUME SType
    PROVE  Names(NestedTemplate.resources) = Names(Present) \cap Related
<1>1. \A r \in ResourceRecord : Scaled(r).name = r.name
  BY DEF Scaled, ResourceRecord
<1>2. NestedTemplate.resources = {Scaled(r) : r \in {q \in Present : q.name \in Related}}
  BY DEF NestedTemplate, Present
<1>3. Present \subseteq ResourceRecord
  BY PresentTyped DEF SType
<1>4. \A n : n \in Names(NestedTemplate.resources) <=> n \in Names(Present) /\ n \in Related
  BY <1>1, <1>2, <1>3 DEF Names
<1> QED
  BY <1>4

\* The names of flavors are not related to VDUs.
LEMMA FlavorsUnrelated ==
    ASSUME AllApart, AllGiven, SInv, NEW x \in Name
    PROVE  FlavorName(x) \notin Related
<1> SUFFICES ASSUME FlavorName(x) \in Related PROVE FALSE
  OBVIOUS
<1>1. Last(FlavorName(x)) = "flavor"
  BY MadeNames
<1>2. PICK v \in Vdus : FlavorName(x) = v.name \/ FlavorName(x) \in v.parts
  BY DEF Related, Names
<1>3. v \in Present /\ v.kind = "Server"
  BY DEF Vdus, Present
<1>4. PICK o \in Given : Same(v, o)
  BY <1>3, KindsTell DEF OfGiven, SInv
<1>5. o.kind = "Server" /\ o.name = v.name /\ o.parts = v.parts
  BY <1>3, <1>4 DEF Same
<1>6. v.parts \subseteq Names(Given)
  BY <1>5 DEF AllGiven, PartsGiven, SInv, SType, Given
<1>7. FlavorName(x) \in Names(Given)
  BY <1>2, <1>5, <1>6 DEF Names
<1>8. PICK p \in Given : p.name = FlavorName(x)
  BY <1>7 DEF Names
<1> QED
  BY <1>1, <1>8, GivenApart DEF OwnName, MadeOf, SInv

\* What a step that handles no aspect leaves of the names.
LEMMA NamesStay ==
    ASSUME AllApart, SInv, HandleAffinity \/ CreatePolicies \/ Expand, NEW o \in Placed
    PROVE  /\ InMain(o.name)' <=> InMain(o.name)
           /\ o.kind = "Server" /\ InMain(FlavorName(o.name)) => InMain(FlavorName(o.name))'
<1>1. o \in Given /\ o.name \in Name /\ OwnName(o.name)
  BY GivenApart DEF Placed, PlacedKinds, SInv
<1>2. Present \subseteq ResourceRecord
  BY PresentTyped DEF SInv, SType
<1>3. Last(FlavorName(o.name)) = "flavor"
  BY <1>1, MadeNames
<1>4. CASE HandleAffinity
  <2>1. Present' = {Hinted(r) : r \in Present}
    BY <1>4, AffinityPresent DEF SInv
  <2>2. \A r \in Present : Hinted(r).name = r.name
    BY <1>2 DEF Hinted, ResourceRecord
  <2> QED
    BY <2>1, <2>2 DEF InMain, Names
<1>5. CASE CreatePolicies
  <2>1. \A k \in DOMAIN Policy.aspects : Policy.aspects[k].name \in DOMAIN adjusted
    BY <1>5, AspectsDone DEF CreatePolicies, SInv
  <2>2. Present' = {r \in Present : r.kind # "Aspects"}
                \cup UNION {PoliciesOf(Policy.aspects[k].name) : k \in DOMAIN Policy.aspects}
    BY <1>5, <2>1, PoliciesPresent DEF SInv
  <2>3. ASSUME NEW a \in DOMAIN adjusted, NEW r \in PoliciesOf(a) PROVE r.name # o.name
    <3>1. a \in Name /\ adjusted[a] \in {None} \cup Int /\ ScaleIn(a) \in {None} \cup Int
      BY DEF SInv, SType, ScaleIn
    <3>2. "scale_out" \in Word /\ "scale_in" \in Word /\ "scale_out" \in MadeOf /\ "scale_in" \in MadeOf
      BY WordAssumption DEF MadeOf
    <3>3. r.name = Parted(a, "scale_out") \/ r.name = Parted(a, "scale_in")
      BY <3>1, <3>2, TowardTyped DEF PoliciesOf
    <3> QED
      BY <1>1, <3>1, <3>2, <3>3, NotMade
  <2>4. \A r \in Present : r.name = o.name \/ r.name = FlavorName(o.name) => r.kind # "Aspects"
    <3>1. \A r \in Present : r.name = o.name => r.kind # "Aspects"
      BY NamesBack DEF Placed, PlacedKinds
    <3>2. \A r \in Present : r.name = FlavorName(o.name) => r.kind # "Aspects"
      BY <1>3, KindsTell DEF OwnName, MadeOf, SInv
    <3> QED
      BY <3>1, <3>2
  <2>5. InMain(o.name)' => InMain(o.name)
    BY <2>1, <2>2, <2>3 DEF InMain, Names
  <2>6. \A n : n = o.name \/ n = FlavorName(o.name) => (n \in Names(Present) => n \in Names(Present'))
    BY <2>2, <2>4 DEF Names
  <2> QED
    BY <2>5, <2>6 DEF InMain
<1>6. CASE Expand
  <2>1. Present' = {r \in Present \cup UNION {Expanded(q) : q \in Present} : r.kind # "Typeless"}
    BY <1>6, ExpandPresent DEF SInv
  <2>2. ASSUME NEW q \in Present, NEW r \in Expanded(q) PROVE r.name # o.name
    <3>1. q.name \in Name
      BY <1>2 DEF ResourceRecord
    <3>2. \/ r = Flavor(q.name) \/ r = Subnet(q.name) \/ r = QoS(q.name) \/ r = Bandwidth(q.name)
      BY DEF Expanded
    <3>3. \/ r.name = FlavorName(q.name) \/ r.name = Parted(q.name, "subnet")
          \/ r.name = Parted(q.name, "qospolicy") \/ r.name = Parted(q.name, "bandwidth")
      BY <3>1, <3>2, FlavorTyped, NetTyped
    <3>4. "subnet" \in MadeOf /\ "qospolicy" \in MadeOf /\ "bandwidth" \in MadeOf
      BY DEF MadeOf
    <3> QED
      BY <1>1, <3>1, <3>3, <3>4, NotMade
  <2>3. \A r \in Present : r.name = o.name \/ r.name = FlavorName(o.name) => r.kind # "Typeless"
    <3>1. \A r \in Present : r.name = o.name => r.kind # "Typeless"
      BY NamesBack DEF Placed, PlacedKinds
    <3>2. \A r \in Present : r.name = FlavorName(o.name) => r.kind # "Typeless"
      BY <1>3, KindsTell DEF SInv
    <3> QED
      BY <3>1, <3>2
  <2>4. InMain(o.name)' => InMain(o.name)
    BY <2>1, <2>2 DEF InMain, Names
  <2>5. \A n : n = o.name \/ n = FlavorName(o.name) => (n \in Names(Present) => n \in Names(Present'))
    BY <2>1, <2>3 DEF Names
  <2> QED
    BY <2>4, <2>5 DEF InMain
<1> QED
  BY <1>4, <1>5, <1>6

\* An aspect takes the related resources away.
LEMMA AspectNames ==
    ASSUME AllApart, SInv, HandleAspect, NEW o \in Placed
    PROVE  InMain(o.name)' <=> InMain(o.name) /\ o.name \notin Related
<1>1. o \in Given /\ o.name \in Name /\ OwnName(o.name)
  BY GivenApart DEF Placed, PlacedKinds, SInv
<1>2. AtAspect /\ Deltas # <<>> /\ resources' = Staying
  BY DEF HandleAspect, Scalable
<1>3. Present' = {r \in Present : r.name \notin Related}
                \cup {Flavor(v.name) : v \in Moved} \cup {Group(v.name) : v \in Moved}
  BY <1>2, StayingPresent DEF Present, SInv
<1>4. \A v \in Moved : v.name \in Name
  BY PresentTyped DEF SInv, SType, Moved, ResourceRecord
<1>5. \A v \in Moved : Flavor(v.name).name # o.name
  <2> SUFFICES ASSUME NEW v \in Moved PROVE Flavor(v.name).name # o.name
    OBVIOUS
  <2>1. Flavor(v.name).name = FlavorName(v.name)
    BY <1>4, FlavorTyped
  <2> QED
    BY <1>1, <1>4, <2>1, NotMade
<1>6. \A v \in Moved : Group(v.name).name # o.name
  <2>1. Aspect.name # o.name
    BY <1>1, <1>2, AspectTyped, AspectsApart DEF SInv, Aspect, Policy, Names
  <2> QED
    BY <1>2, <2>1, GroupTyped DEF SInv
<1> QED
  BY <1>3, <1>5, <1>6 DEF InMain, Names

\* A step keeps Places: it moves a resource from the main template to one other.
LEMMA PlacesStep ==
    ASSUME AllApart, AllGiven, SInv, Places, Next
    PROVE  Places'
<1>1. vnf' = vnf /\ Placed' = Placed
  BY DEF Next, HandleAffinity, HandleAspect, Fail, CreatePolicies, FinishProperties, Expand, Given, Placed
<1> SUFFICES ASSUME NEW o \in Placed PROVE OnePlace(o)' /\ FlavorKept(o)'
  BY <1>1 DEF Places
<1>2. o \in Given /\ o.name \in Name /\ OwnName(o.name)
  BY GivenApart DEF Placed, PlacedKinds, SInv
<1>3. CASE HandleAspect
  <2>1. AtAspect /\ Deltas # <<>> /\ resources' = Staying /\ stage' = stage
    BY <1>3 DEF HandleAspect, Scalable
  <2>2. Present' = {r \in Present : r.name \notin Related}
                \cup {Flavor(v.name) : v \in Moved} \cup {Group(v.name) : v \in Moved}
    BY <2>1, StayingPresent DEF Present, SInv
  <2>3. Aspect.name \notin DOMAIN nested
    BY <2>1, AspectIsNew DEF SInv, AspectsBehind
  <2> PICK n : n = Aspect.name
    OBVIOUS
  <2>4. /\ DOMAIN nested' = DOMAIN nested \cup {n} /\ n \notin DOMAIN nested
        /\ \A a \in DOMAIN nested : nested'[a] = nested[a]
        /\ nested'[n] = NestedTemplate
    BY <1>3, <2>3, Recorded
  <2>8. InMain(o.name)' <=> InMain(o.name) /\ o.name \notin Related
    BY <1>3, AspectNames
  <2>9. InNested(o.name, n)' <=> InMain(o.name) /\ o.name \in Related
    BY <2>4, NestedNames DEF InNested, InMain, SInv
  <2>10. \A a \in DOMAIN nested : InNested(o.name, a)' <=> InNested(o.name, a)
    BY <2>4 DEF InNested
  <2>11. OnePlace(o)
    BY DEF Places
  <2>12. OnePlace(o)'
    <3>1. CASE InMain(o.name) /\ o.name \in Related
      <4>1. \A a \in DOMAIN nested : ~ InNested(o.name, a)
        BY <2>11, <3>1 DEF OnePlace
      <4> QED
        BY <2>4, <2>8, <2>9, <2>10, <3>1, <4>1, Zenon DEF OnePlace
    <3>2. CASE InMain(o.name) /\ o.name \notin Related
      <4>1. \A a \in DOMAIN nested : ~ InNested(o.name, a)
        BY <2>11, <3>2 DEF OnePlace
      <4> QED
        BY <2>4, <2>8, <2>9, <2>10, <3>2, <4>1 DEF OnePlace
    <3>3. CASE ~ InMain(o.name)
      <4>1. PICK a \in DOMAIN nested :
                InNested(o.name, a) /\ \A b \in DOMAIN nested : InNested(o.name, b) => b = a
        BY <2>11, <3>3 DEF OnePlace
      <4> QED
        BY <2>4, <2>8, <2>9, <2>10, <3>3, <4>1 DEF OnePlace
    <3> QED
      BY <3>1, <3>2, <3>3
  <2>13. FlavorKept(o)'
    <3> SUFFICES ASSUME o.kind = "Server"
                 PROVE  InMain(FlavorName(o.name))' \/ (stage' # "written" /\ InMain(o.name)')
      BY DEF FlavorKept
    <3>1. stage' # "written"
      BY <2>1 DEF AtAspect, At
    <3>2. CASE InMain(FlavorName(o.name))
      <4>1. FlavorName(o.name) \notin Related
        BY <1>2, FlavorsUnrelated
      <4> QED
        BY <2>2, <3>2, <4>1 DEF InMain, Names
    <3>3. CASE InMain(o.name) /\ o.name \in Related
      <4>1. PICK r \in Present : r.name = o.name
        BY <3>3 DEF InMain, Names
      <4>2. r.kind = "Server"
        BY <4>1, NamesBack
      <4>3. r \in Moved
        BY <3>3, <4>1, <4>2 DEF Moved
      <4>4. Flavor(r.name) \in Present'
        BY <2>2, <4>3
      <4>5. Flavor(r.name).name = FlavorName(o.name)
        BY <1>2, <4>1, FlavorTyped
      <4> QED
        BY <4>4, <4>5 DEF InMain, Names
    <3>4. CASE InMain(o.name) /\ o.name \notin Related
      BY <2>8, <3>1, <3>4
    <3>5. InMain(FlavorName(o.name)) \/ InMain(o.name)
      BY DEF Places, FlavorKept
    <3> QED
      BY <3>2, <3>3, <3>4, <3>5
  <2> QED
    BY <2>12, <2>13
<1>4. CASE HandleAffinity \/ CreatePolicies \/ Expand
  <2>1. nested' = nested
    BY <1>4 DEF HandleAffinity, CreatePolicies, Expand
  <2>2. InMain(o.name)' <=> InMain(o.name)
    BY <1>4, NamesStay
  <2>3. OnePlace(o)'
    BY <2>1, <2>2 DEF Places, OnePlace, InNested
  <2>4. o.kind = "Server" /\ InMain(FlavorName(o.name)) => InMain(FlavorName(o.name))'
    BY <1>4, NamesStay
  <2>5. CASE ~ Expand
    <3>1. stage' = stage
      BY <1>4, <2>5 DEF HandleAffinity, CreatePolicies
    <3> QED
      BY <2>2, <2>3, <2>4, <3>1 DEF Places, FlavorKept
  <2>6. CASE Expand
    <3>1. ASSUME o.kind = "Server", InMain(o.name) PROVE InMain(FlavorName(o.name))'
      <4>1. PICK r \in Present : r.name = o.name
        BY <3>1 DEF InMain, Names
      <4>2. r.kind = "Server"
        BY <3>1, <4>1, NamesBack
      <4>3. Flavor(o.name) \in Expanded(r)
        BY <4>1, <4>2 DEF Expanded
      <4>4. Flavor(o.name).name = FlavorName(o.name) /\ Flavor(o.name).kind = "Flavor"
        BY <1>2, FlavorTyped
      <4>5. Flavor(o.name) \in Present'
        BY <2>6, <4>1, <4>3, <4>4, ExpandPresent DEF SInv
      <4> QED
        BY <4>4, <4>5 DEF InMain, Names
    <3> QED
      BY <2>3, <2>4, <3>1 DEF Places, FlavorKept
  <2> QED
    BY <2>5, <2>6
<1>5. CASE Fail \/ FinishProperties
  <2>1. UNCHANGED <<resources, nested>> /\ stage' # "written" /\ stage # "written"
    BY <1>5 DEF Fail, FinishProperties, AtAspect, At
  <2> QED
    BY <2>1 DEF Places, OnePlace, FlavorKept, InMain, InNested, Present
<1> QED
  BY <1>3, <1>4, <1>5 DEF Next

\* Every resource of a network function is in exactly one of the templates, and
\* the flavors of its VDUs are in the main one.
THEOREM ResourcesAreOnce == AllApart /\ AllGiven /\ Spec => []EachOnce
<1> SUFFICES ASSUME AllApart, AllGiven PROVE Spec => []EachOnce
  OBVIOUS
<1>1. Init => SInv /\ Places
  <2> SUFFICES ASSUME Init PROVE SInv /\ Places
    OBVIOUS
  <2>1. nested = << >> /\ resources = vnf.resources /\ stage = "properties"
    BY DEF Init
  <2>2. \A o \in Placed : InMain(o.name)
    BY <2>1 DEF Placed, Given, InMain, Names, Present
  <2> QED
    BY <2>1, <2>2, SInvInit DEF Places, OnePlace, FlavorKept
<1>2. SInv /\ Places /\ [Next]_vars => (SInv /\ Places)'
  <2> SUFFICES ASSUME SInv, Places, [Next]_vars PROVE (SInv /\ Places)'
    OBVIOUS
  <2>1. SInv'
    BY SInvStep
  <2>2. CASE Next
    BY <2>1, <2>2, PlacesStep
  <2>3. CASE UNCHANGED vars
    BY <2>1, <2>3 DEF vars, Places, Placed, Given, OnePlace, FlavorKept, InMain, InNested, Present
  <2> QED
    BY <2>2, <2>3
<1>3. SInv /\ Places => EachOnce
  <2> SUFFICES ASSUME SInv, Places, Written, NEW o \in Given, o.kind \in PlacedKinds
               PROVE  /\ Cardinality({t \in Templates : o.name \in Names(t)}) = 1
                      /\ o.kind = "Server" => FlavorName(o.name) \in Names(Main)
    BY DEF EachOnce, Given, PlacedKinds
  <2>1. o \in Placed /\ OnePlace(o) /\ FlavorKept(o)
    BY DEF Placed, Places
  <2>2. Names(Main) = Names(Present)
    BY MainNames DEF SInv, SType
  <2>3. \E t : {u \in Templates : o.name \in Names(u)} = {t}
    <3>1. CASE InMain(o.name) /\ \A a \in DOMAIN nested : ~ InNested(o.name, a)
      <4>1. {u \in Templates : o.name \in Names(u)} = {Main}
        BY <2>2, <3>1 DEF Templates, InMain, InNested
      <4> QED
        BY <4>1
    <3>2. CASE ~ InMain(o.name) /\ \E a \in DOMAIN nested :
                InNested(o.name, a) /\ \A b \in DOMAIN nested : InNested(o.name, b) => b = a
      <4>1. PICK a \in DOMAIN nested :
                InNested(o.name, a) /\ \A b \in DOMAIN nested : InNested(o.name, b) => b = a
        BY <3>2
      <4>2. {u \in Templates : o.name \in Names(u)} = {nested[a].resources}
        BY <2>2, <3>2, <4>1 DEF Templates, InMain, InNested
      <4> QED
        BY <4>2
    <3> QED
      BY <2>1, <3>1, <3>2 DEF OnePlace
  <2>4. Cardinality({t \in Templates : o.name \in Names(t)}) = 1
    BY <2>3, FS_Singleton
  <2> QED
    BY <2>1, <2>2, <2>4 DEF FlavorKept, InMain, Written
<1> QED
  BY <1>1, <1>2, <1>3, PTL DEF Spec

-----------------------------------------------------------------------------
(* The templates are closed.                                                *)

\* References and AffinityApart hold of every network function.
AllReferring == \A v \in Vnfs : References(v)
AllAffine    == \A v \in Vnfs : AffinityApart(v)

\* The network functions that TemplatesAreClosed and RulesAreApplied are about.
Regular == AllApart /\ AllReferring /\ AllAffine

\* An affinity rule of the scope that is supported, and its server group.
Rule(i) == vnf.policies[i].kind = "Affinity" /\ vnf.policies[i].scope = "nfvi_node"

RuleGroup(i) == Parted(vnf.policies[i].name, "group")

\* The server groups that the rules put a VDU in.
RuleGroups(name) ==
    {RuleGroup(i) : i \in {j \in DOMAIN vnf.policies : Rule(j) /\ name \in vnf.policies[j].targets}}

\* What belongs to a VDU of the main template is there too, and so are the networks.
PartsStay == \A o \in Given : o.kind = "Server" /\ InMain(o.name) => \A n \in o.parts : InMain(n)
NetsStay  == \A o \in Given : o.kind = "Net" => InMain(o.name)

\* A resource has the references it was given, and a VDU those to its groups.
RefsKnown ==
    \A r \in Present, o \in Given : Same(r, o) =>
        r.refs \subseteq o.refs \cup IF o.kind = "Server" THEN RuleGroups(o.name) ELSE {}

\* The VDUs of a rule stay, and so does its group if there are any.
RulesHold ==
    \A i \in DOMAIN vnf.policies, o \in Given :
        Rule(i) /\ o.kind = "Server" /\ o.name \in vnf.policies[i].targets =>
            InMain(o.name) /\ \E r \in Present : r.name = RuleGroup(i) /\ r.kind = "ServerGroup"

\* A group refers to networks, and to the flavors of the VDUs that were moved.
GroupRefs ==
    \A g \in Present : g.kind = "Group" => \A n \in g.refs :
        \E o \in Given : \/ o.kind = "Net" /\ n = o.name
                         \/ o.kind = "Server" /\ n = FlavorName(o.name) /\ InMain(n)

\* An aspect that moved something has a group.
GroupsThere ==
    \A a \in DOMAIN nested :
        nested[a].resources # {} => \E g \in Present : g.kind = "Group" /\ g.name = a

\* A nested template refers to its own resources only, and its group passes its parameters.
NestedAlone ==
    \A a \in DOMAIN nested :
        /\ \A r \in nested[a].resources : r.refs \subseteq Names(nested[a].resources)
        /\ \A g \in Present : g.kind = "Group" /\ g.aspect = a =>
                {p.param : p \in g.passes} = nested[a].parameters

\* The network that refers to a policy has it in the output.
NetsExpanded ==
    stage = "written" =>
        \A o \in Given : o.kind = "Net" /\ o.leaf => InMain(Parted(o.name, "qospolicy"))

\* What TemplatesAreClosed and RulesAreApplied rest on besides SInv and Places.
Closure == PartsStay /\ NetsStay /\ RefsKnown /\ RulesHold /\ GroupRefs /\ GroupsThere
           /\ NestedAlone /\ NetsExpanded

\* What References says of the resources of the network function.
LEMMA GivenReferences ==
    ASSUME Regular, SInv
    PROVE  /\ \A o \in Given : o.params = {} /\
                (o.kind \notin {"Server", "Port", "Net"} => o.refs = {})
           /\ \A o \in Given : o.kind = "Server" =>
                /\ o.refs \subseteq o.parts \cup {FlavorName(o.name)}
                /\ \A n \in o.parts : \E p \in Given : p.kind \in {"Port", "Volume"} /\ p.name = n
                /\ \A p \in Given : p.kind = "Port" => (p.name \in o.parts <=> p.binding = o.name)
                /\ \A q \in Given : q.kind = "Server" /\ o.parts \cap q.parts # {} => o = q
           /\ \A o \in Given : o.kind = "Port" =>
                /\ o.refs \subseteq {o.link} \ {None}
                /\ o.link # None => \E p \in Given : p.kind = "Net" /\ p.name = o.link
           /\ \A o \in Given : o.kind = "Net" =>
                o.refs \subseteq IF o.leaf THEN {Parted(o.name, "qospolicy")} ELSE {}
<1>1. References(vnf)
  BY DEF Regular, AllReferring, SInv, SType
<1> DEFINE Kind(kinds) == {r \in Given : r.kind \in kinds}
<1>2. \A r \in Given :
        /\ r.params = {}
        /\ r.refs \subseteq
                CASE r.kind = "Server" -> r.parts \cup {FlavorName(r.name)}
                  [] r.kind = "Port"   -> {r.link} \ {None}
                  [] r.kind = "Net"    -> IF r.leaf THEN {Parted(r.name, "qospolicy")} ELSE {}
                  [] OTHER             -> {}
  BY <1>1 DEF References, Given
<1>3. \A vdu \in Kind({"Server"}) :
        /\ vdu.parts \subseteq Names(Kind({"Port", "Volume"}))
        /\ \A p \in Kind({"Port"}) : p.name \in vdu.parts <=> p.binding = vdu.name
        /\ \A other \in Kind({"Server"}) : vdu.parts \cap other.parts # {} => vdu = other
  BY <1>1 DEF References, Given
<1>4. \A p \in Kind({"Port"}) : p.link # None => p.link \in Names(Kind({"Net"}))
  BY <1>1 DEF References, Given
<1>5. \A o \in Given : o.kind = "Server" =>
        /\ o.refs \subseteq o.parts \cup {FlavorName(o.name)}
        /\ \A n \in o.parts : \E p \in Given : p.kind \in {"Port", "Volume"} /\ p.name = n
        /\ \A p \in Given : p.kind = "Port" => (p.name \in o.parts <=> p.binding = o.name)
        /\ \A q \in Given : q.kind = "Server" /\ o.parts \cap q.parts # {} => o = q
  BY <1>2, <1>3 DEF Names
<1>6. \A o \in Given : o.kind = "Port" =>
        /\ o.refs \subseteq {o.link} \ {None}
        /\ o.link # None => \E p \in Given : p.kind = "Net" /\ p.name = o.link
  BY <1>2, <1>4 DEF Names
<1>7. \A o \in Given : o.kind = "Net" =>
        o.refs \subseteq IF o.leaf THEN {Parted(o.name, "qospolicy")} ELSE {}
  BY <1>2
<1>8. \A o \in Given : o.params = {} /\ (o.kind \notin {"Server", "Port", "Net"} => o.refs = {})
  BY <1>2
<1> QED
  BY <1>5, <1>6, <1>7, <1>8

\* Parts that are ports and storages exist.
LEMMA PartsAreGiven ==
    ASSUME Regular
    PROVE  AllGiven
<1> SUFFICES ASSUME NEW v \in Vnfs, NEW r \in Range(v.resources), r.kind = "Server"
             PROVE  r.parts \subseteq Names(Range(v.resources))
  BY DEF AllGiven, PartsGiven
<1>1. r.parts \subseteq Names({p \in Range(v.resources) : p.kind \in {"Port", "Volume"}})
  BY DEF Regular, AllReferring, References
<1> QED
  BY <1>1 DEF Names

\* The VDUs of an aspect are VDUs of the network function.
LEMMA VdusAreGiven ==
    ASSUME AllApart, SInv
    PROVE  \A v \in Vdus : /\ v \in Present /\ v.kind = "Server" /\ v.name \in Deltas[1].targets
                           /\ v.name \in Related /\ v.parts \subseteq Related
                           /\ \E o \in Given : o.kind = "Server" /\ Same(v, o)
<1> SUFFICES ASSUME NEW v \in Vdus
             PROVE  /\ v \in Present /\ v.kind = "Server" /\ v.name \in Deltas[1].targets
                    /\ v.name \in Related /\ v.parts \subseteq Related
                    /\ \E o \in Given : o.kind = "Server" /\ Same(v, o)
  OBVIOUS
<1>1. v \in Present /\ v.kind = "Server" /\ v.name \in Deltas[1].targets
  BY DEF Vdus, Present
<1>2. v.name \in Related /\ v.parts \subseteq Related
  BY DEF Related, Names
<1>3. PICK o \in Given : Same(v, o)
  BY <1>1, KindsTell DEF OfGiven, SInv
<1> QED
  BY <1>1, <1>2, <1>3 DEF Same

\* What is related to the VDUs of an aspect.
LEMMA RelatedAre ==
    ASSUME Regular, SInv, NEW o \in Given, o.name \in Related
    PROVE  \/ o.kind = "Server" /\ \E v \in Vdus : Same(v, o)
           \/ o.kind \in {"Port", "Volume"} /\ \E v \in Vdus : o.name \in v.parts
<1>1. AllApart /\ SType
  BY DEF Regular, SInv
<1>2. PICK v \in Vdus : o.name = v.name \/ o.name \in v.parts
  BY DEF Related, Names
<1>3. PICK q \in Given : q.kind = "Server" /\ Same(v, q)
  BY <1>1, <1>2, VdusAreGiven
<1>4. CASE o.name = v.name
  <2>1. q = o
    BY <1>1, <1>3, <1>4, GivenApart DEF Same
  <2> QED
    BY <1>3, <2>1
<1>5. CASE o.name \in v.parts
  <2>1. o.name \in q.parts
    BY <1>3, <1>5 DEF Same
  <2>2. PICK p \in Given : p.kind \in {"Port", "Volume"} /\ p.name = o.name
    BY <1>3, <2>1, GivenReferences
  <2>3. p = o
    BY <1>1, <2>2, GivenApart
  <2> QED
    BY <1>5, <2>2, <2>3
<1> QED
  BY <1>2, <1>4, <1>5

\* Related names are names of the network function.
LEMMA RelatedGiven ==
    ASSUME Regular, SInv, NEW n \in Related
    PROVE  \E o \in Given : o.name = n /\ o.kind \in {"Server", "Port", "Volume"}
<1>1. AllApart /\ SType
  BY DEF Regular, SInv
<1>2. PICK v \in Vdus : n = v.name \/ n \in v.parts
  BY DEF Related, Names
<1>3. PICK q \in Given : q.kind = "Server" /\ Same(v, q)
  BY <1>1, <1>2, VdusAreGiven
<1>4. CASE n = v.name
  BY <1>3, <1>4 DEF Same
<1>5. CASE n \in v.parts
  <2>1. n \in q.parts
    BY <1>3, <1>5 DEF Same
  <2> QED
    BY <1>3, <2>1, GivenReferences
<1> QED
  BY <1>2, <1>4, <1>5

\* The groups of the aspects, after a step that handles no aspect.
LEMMA GroupsStay ==
    ASSUME AllApart, SInv, HandleAffinity \/ CreatePolicies \/ Expand, NEW g, g.kind = "Group"
    PROVE  g \in Present' <=> g \in Present
<1>1. Present \subseteq ResourceRecord
  BY PresentTyped DEF SInv, SType
<1>2. CASE HandleAffinity
  <2>1. Present' = {Hinted(r) : r \in Present} /\ Policy.name \in Name
    BY <1>2, AffinityPresent, PolicyTyped DEF SInv, HandleAffinity
  <2>2. ASSUME NEW r \in Present, g = Hinted(r) PROVE g = r
    <3>1. AffinityOf(r) => g.kind = "Server"
      BY <1>1, <2>2 DEF Hinted, AffinityOf, ResourceRecord
    <3>2. g = [r EXCEPT !.kind = "Typeless"] => g.kind = "Typeless"
      BY <1>1 DEF ResourceRecord
    <3> QED
      BY <2>2, <3>1, <3>2 DEF Hinted
  <2>3. ASSUME g \in Present PROVE Hinted(g) = g
    <3>1. OwnName(g.name)
      BY <2>3, KindsTell DEF SInv
    <3>2. "group" \in MadeOf
      BY DEF MadeOf
    <3>3. g.name # Parted(Policy.name, "group")
      BY <2>1, <3>1, <3>2, NotMade
    <3> QED
      BY <3>3 DEF Hinted, AffinityOf
  <2> QED
    BY <2>1, <2>2, <2>3
<1>3. CASE CreatePolicies
  <2>1. \A k \in DOMAIN Policy.aspects : Policy.aspects[k].name \in DOMAIN adjusted
    BY <1>3, AspectsDone DEF CreatePolicies, SInv
  <2>2. Present' = {r \in Present : r.kind # "Aspects"}
                \cup UNION {PoliciesOf(Policy.aspects[k].name) : k \in DOMAIN Policy.aspects}
    BY <1>3, <2>1, PoliciesPresent DEF SInv
  <2>3. ASSUME NEW a \in DOMAIN adjusted, NEW r \in PoliciesOf(a) PROVE r.kind = "ScalingPolicy"
    <3>1. a \in Name /\ adjusted[a] \in {None} \cup Int /\ ScaleIn(a) \in {None} \cup Int
      BY DEF SInv, SType, ScaleIn
    <3>2. "scale_out" \in Word /\ "scale_in" \in Word
      BY WordAssumption DEF MadeOf
    <3> QED
      BY <3>1, <3>2, TowardTyped DEF PoliciesOf
  <2> QED
    BY <2>1, <2>2, <2>3
<1>4. CASE Expand
  <2>1. Present' = {r \in Present \cup UNION {Expanded(q) : q \in Present} : r.kind # "Typeless"}
    BY <1>4, ExpandPresent DEF SInv
  <2>2. ASSUME NEW q \in Present, NEW r \in Expanded(q) PROVE r.kind # "Group"
    <3>1. q.name \in Name
      BY <1>1 DEF ResourceRecord
    <3>2. \/ r = Flavor(q.name) \/ r = Subnet(q.name) \/ r = QoS(q.name) \/ r = Bandwidth(q.name)
      BY DEF Expanded
    <3> QED
      BY <3>1, <3>2, FlavorTyped, NetTyped
  <2> QED
    BY <2>1, <2>2
<1> QED
  BY <1>2, <1>3, <1>4

\* Steps that leave the resources and what is known of the aspects alone.
Idle == (Fail \/ FinishProperties) /\ UNCHANGED <<vnf, resources, adjusted, nested>> /\ stage' # "written"

\* What no step changes, and what the steps that touch the list leave.
LEMMA Steps ==
    ASSUME Next
    PROVE  /\ HandleAspect \/ (HandleAffinity \/ CreatePolicies \/ Expand) \/ Idle
           /\ vnf' = vnf /\ Given' = Given
           /\ HandleAffinity \/ CreatePolicies \/ Expand => UNCHANGED <<adjusted, nested>>
BY DEF Next, HandleAffinity, HandleAspect, Fail, CreatePolicies, FinishProperties, Expand, Given, Idle

\* A step keeps PartsStay: a VDU is moved with all that belongs to it.
LEMMA PartsStep ==
    ASSUME Regular, SInv, PartsStay, Next
    PROVE  PartsStay'
<1>1. AllApart /\ Given' = Given
  BY Steps DEF Regular
<1>2. SUFFICES ASSUME NEW o \in Given, o.kind = "Server", InMain(o.name)', NEW n \in o.parts
               PROVE  InMain(n)'
  BY <1>1 DEF PartsStay
<1>3. PICK p \in Given : p.kind \in {"Port", "Volume"} /\ p.name = n
  BY <1>2, GivenReferences
<1>4. o \in Placed /\ p \in Placed
  BY <1>2, <1>3 DEF Placed, PlacedKinds
<1>5. CASE HandleAspect
  <2>1. InMain(o.name) /\ o.name \notin Related
    BY <1>1, <1>2, <1>4, <1>5, AspectNames
  <2>2. InMain(p.name)
    BY <1>2, <1>3, <2>1 DEF PartsStay
  <2>3. p.name \notin Related
    <3> SUFFICES ASSUME p.name \in Related PROVE FALSE
      OBVIOUS
    <3>1. PICK v \in Vdus : p.name \in v.parts
      BY <1>3, RelatedAre
    <3>2. PICK q \in Given : q.kind = "Server" /\ Same(v, q)
      BY <1>1, <3>1, VdusAreGiven
    <3>3. p.name \in o.parts \cap q.parts /\ q.name = v.name
      BY <1>2, <1>3, <3>1, <3>2 DEF Same
    <3>4. o = q
      BY <1>2, <3>2, <3>3, GivenReferences
    <3>5. v.name \in Related
      BY <1>1, <3>1, VdusAreGiven
    <3> QED
      BY <2>1, <3>3, <3>4, <3>5
  <2> QED
    BY <1>1, <1>3, <1>4, <1>5, <2>2, <2>3, AspectNames
<1>6. CASE HandleAffinity \/ CreatePolicies \/ Expand
  <2>1. InMain(o.name)
    BY <1>1, <1>2, <1>4, <1>6, NamesStay
  <2>2. InMain(p.name)
    BY <1>2, <1>3, <2>1 DEF PartsStay
  <2> QED
    BY <1>1, <1>3, <1>4, <1>6, <2>2, NamesStay
<1>7. CASE Idle
  BY <1>2, <1>7 DEF PartsStay, Idle, InMain, Present
<1> QED
  BY <1>5, <1>6, <1>7, Steps

\* A step keeps NetsStay: networks are never moved.
LEMMA NetsStep ==
    ASSUME Regular, SInv, NetsStay, Next
    PROVE  NetsStay'
<1>1. AllApart /\ Given' = Given
  BY Steps DEF Regular
<1>2. SUFFICES ASSUME NEW o \in Given, o.kind = "Net" PROVE InMain(o.name)'
  BY <1>1 DEF NetsStay
<1>3. o \in Placed /\ InMain(o.name)
  BY <1>2 DEF Placed, PlacedKinds, NetsStay
<1>4. o.name \notin Related
  BY <1>2, RelatedAre
<1>5. CASE HandleAspect
  BY <1>1, <1>3, <1>4, <1>5, AspectNames
<1>6. CASE HandleAffinity \/ CreatePolicies \/ Expand
  BY <1>1, <1>3, <1>6, NamesStay
<1>7. CASE Idle
  BY <1>3, <1>7 DEF Idle, InMain, Present
<1> QED
  BY <1>5, <1>6, <1>7, Steps

\* What a step adds is none of the resources of the network function.
LEMMA NewKinds ==
    ASSUME AllApart, SInv, HandleAspect \/ CreatePolicies \/ Expand, NEW r \in Present'
    PROVE  r \in Present \/ r.kind \in {"Flavor", "Group", "ScalingPolicy", "Subnet", "QoS", "Bandwidth"}
<1>1. Present \subseteq ResourceRecord
  BY PresentTyped DEF SInv, SType
<1>2. CASE HandleAspect
  <2>1. AtAspect /\ Deltas # <<>> /\ resources' = Staying
    BY <1>2 DEF HandleAspect, Scalable
  <2>2. Present' = {q \in Present : q.name \notin Related}
                \cup {Flavor(v.name) : v \in Moved} \cup {Group(v.name) : v \in Moved}
    BY <2>1, StayingPresent DEF Present, SInv
  <2>3. \A v \in Moved : v.name \in Name
    BY <1>1 DEF Moved, ResourceRecord
  <2>4. \A v \in Moved : Flavor(v.name).kind = "Flavor" /\ Group(v.name).kind = "Group"
    BY <2>1, <2>3, FlavorTyped, GroupTyped DEF SInv
  <2> QED
    BY <2>2, <2>4
<1>3. CASE CreatePolicies
  <2>1. \A k \in DOMAIN Policy.aspects : Policy.aspects[k].name \in DOMAIN adjusted
    BY <1>3, AspectsDone DEF CreatePolicies, SInv
  <2>2. Present' = {q \in Present : q.kind # "Aspects"}
                \cup UNION {PoliciesOf(Policy.aspects[k].name) : k \in DOMAIN Policy.aspects}
    BY <1>3, <2>1, PoliciesPresent DEF SInv
  <2>3. ASSUME NEW a \in DOMAIN adjusted, NEW q \in PoliciesOf(a) PROVE q.kind = "ScalingPolicy"
    <3>1. a \in Name /\ adjusted[a] \in {None} \cup Int /\ ScaleIn(a) \in {None} \cup Int
      BY DEF SInv, SType, ScaleIn
    <3>2. "scale_out" \in Word /\ "scale_in" \in Word
      BY WordAssumption DEF MadeOf
    <3> QED
      BY <3>1, <3>2, TowardTyped DEF PoliciesOf
  <2> QED
    BY <2>1, <2>2, <2>3
<1>4. CASE Expand
  <2>1. Present' \subseteq Present \cup UNION {Expanded(q) : q \in Present}
    BY <1>4, ExpandPresent DEF SInv
  <2>2. ASSUME NEW q \in Present, NEW x \in Expanded(q)
        PROVE  x.kind \in {"Flavor", "Subnet", "QoS", "Bandwidth"}
    <3>1. q.name \in Name
      BY <1>1 DEF ResourceRecord
    <3>2. \/ x = Flavor(q.name) \/ x = Subnet(q.name) \/ x = QoS(q.name) \/ x = Bandwidth(q.name)
      BY DEF Expanded
    <3> QED
      BY <3>1, <3>2, FlavorTyped, NetTyped
  <2> QED
    BY <2>1, <2>2
<1> QED
  BY <1>2, <1>3, <1>4

\* A step keeps RefsKnown: only a rule adds a reference, that to its group.
LEMMA RefsStep ==
    ASSUME Regular, SInv, RefsKnown, Next
    PROVE  RefsKnown'
<1>1. AllApart /\ SType /\ vnf' = vnf /\ Given' = Given
  BY Steps DEF Regular, SInv
<1>2. SUFFICES ASSUME NEW r \in Present', NEW o \in Given, Same(r, o)
               PROVE  r.refs \subseteq o.refs \cup IF o.kind = "Server" THEN RuleGroups(o.name) ELSE {}
  BY <1>1 DEF RefsKnown, RuleGroups, Rule, RuleGroup
<1>3. o.kind \in PlacedKinds \cup {"ServerGroup", "Aspects"}
  BY <1>1, GivenApart
<1>4. CASE r \in Present
  BY <1>2, <1>4 DEF RefsKnown
<1>5. CASE HandleAspect \/ CreatePolicies \/ Expand
  <2>1. r \in Present
    BY <1>1, <1>2, <1>3, <1>5, NewKinds DEF Same, PlacedKinds
  <2> QED
    BY <1>4, <2>1
<1>6. CASE HandleAffinity
  <2>1. Present' = {Hinted(q) : q \in Present} /\ At("Affinity") /\ Policy.name \in Name
        /\ policy \in DOMAIN vnf.policies /\ Policy.kind = "Affinity"
    BY <1>1, <1>6, AffinityPresent, PolicyTyped DEF HandleAffinity
  <2>2. PICK q \in Present : r = Hinted(q)
    BY <1>2, <2>1
  <2>3. q \in ResourceRecord
    BY PresentTyped DEF SInv, SType
  <2>4. CASE AffinityOf(q)
    <3>1. r = [q EXCEPT !.refs = @ \cup {RuleGroup(policy)}]
      BY <2>2, <2>4 DEF Hinted, RuleGroup, Policy
    <3>2. q.kind = "Server" /\ q.name \in Policy.targets /\ Policy.scope = "nfvi_node"
      BY <2>4 DEF AffinityOf
    <3>3. /\ r.name = q.name /\ r.parts = q.parts /\ r.link = q.link /\ r.binding = q.binding
          /\ r.leaf = q.leaf /\ r.params = q.params /\ r.kind = q.kind
          /\ r.refs = q.refs \cup {RuleGroup(policy)}
      BY <2>3, <3>1 DEF ResourceRecord
    <3>4. Same(q, o) /\ o.kind = "Server" /\ o.name = q.name
      BY <1>2, <3>2, <3>3 DEF Same
    <3>5. RuleGroup(policy) \in RuleGroups(o.name)
      BY <2>1, <3>2, <3>4 DEF RuleGroups, Rule, Policy
    <3>6. q.refs \subseteq o.refs \cup RuleGroups(o.name)
      BY <3>4 DEF RefsKnown
    <3> QED
      BY <3>3, <3>4, <3>5, <3>6
  <2>5. CASE ~ AffinityOf(q) /\ r # q
    <3>1. q.name = Parted(Policy.name, "group") /\ r = [q EXCEPT !.kind = "Typeless"]
      BY <2>2, <2>5 DEF Hinted
    <3>2. "group" \in Word
      BY WordAssumption DEF MadeOf
    <3>3. Last(q.name) = "group"
      <4>1. Last(Parted(Policy.name, "group")) = "group"
        BY <2>1, <3>2, MadeNames, Zenon
      <4> QED
        BY <3>1, <4>1
    <3>4. q.kind \in {"ServerGroup", "Typeless"}
      BY <1>1, <2>3, <3>3, KindsTell DEF OwnName, MadeOf, ResourceRecord, Kinds, SInv
    <3>5. PICK p \in Given : Same(q, p)
      BY <1>1, <3>4, KindsTell DEF OfGiven, SInv
    <3>6. r.name = q.name /\ r.refs = q.refs
      BY <2>3, <3>1 DEF ResourceRecord
    <3>7. p = o
      BY <1>1, <1>2, <3>5, <3>6, GivenApart DEF Same
    <3> QED
      BY <3>5, <3>6, <3>7 DEF RefsKnown
  <2> QED
    BY <1>4, <2>2, <2>4, <2>5
<1>7. CASE Idle
  BY <1>2, <1>4, <1>7 DEF Idle, Present
<1> QED
  BY <1>5, <1>6, <1>7, Steps

\* A step keeps RulesHold: a VDU of a rule is not moved.
LEMMA RulesStep ==
    ASSUME Regular, SInv, RulesHold, Next
    PROVE  RulesHold'
<1>1. AllApart /\ SType /\ vnf' = vnf /\ Given' = Given
  BY Steps DEF Regular, SInv
<1>2. SUFFICES ASSUME NEW i \in DOMAIN vnf.policies, NEW o \in Given, Rule(i), o.kind = "Server",
                      o.name \in vnf.policies[i].targets
               PROVE  InMain(o.name)' /\ \E r \in Present' : r.name = RuleGroup(i) /\ r.kind = "ServerGroup"
  BY <1>1 DEF RulesHold, Rule, RuleGroup
<1>3. PICK r \in Present : r.name = RuleGroup(i) /\ r.kind = "ServerGroup"
  BY <1>2 DEF RulesHold
<1>4. InMain(o.name) /\ o \in Placed
  BY <1>2 DEF RulesHold, Placed, PlacedKinds
<1>5. CASE HandleAspect
  <2>1. AtAspect /\ Deltas # <<>> /\ resources' = Staying
    BY <1>5 DEF HandleAspect, Scalable
  <2>2. Deltas[1] \in Range(vnf.deltas)
    BY <1>1, <2>1, DeltasTyped
  <2>3. vnf.policies[i].targets \cap Deltas[1].targets = {}
    BY <1>2, <2>2 DEF Regular, AllAffine, AffinityApart, SInv, SType, Rule, Range
  <2>4. o.name \notin Related
    <3> SUFFICES ASSUME o.name \in Related PROVE FALSE
      OBVIOUS
    <3>1. PICK v \in Vdus : Same(v, o)
      BY <1>2, RelatedAre
    <3> QED
      BY <1>1, <1>2, <2>3, <3>1, VdusAreGiven DEF Same
  <2>5. r.name \notin Related
    <3> SUFFICES ASSUME r.name \in Related PROVE FALSE
      OBVIOUS
    <3>1. PICK p \in Given : p.name = r.name /\ p.kind \in {"Server", "Port", "Volume"}
      BY RelatedGiven
    <3>2. OwnName(r.name)
      BY <1>1, <3>1, GivenApart
    <3> QED
      BY <1>1, <1>3, <3>2, KindsTell DEF OwnName, MadeOf, SInv
  <2>6. r \in Present'
    BY <2>1, <2>5, StayingPresent DEF Present, SInv
  <2> QED
    BY <1>1, <1>3, <1>4, <1>5, <2>4, <2>6, AspectNames
<1>6. CASE HandleAffinity
  <2>1. Present' = {Hinted(q) : q \in Present} /\ At("Affinity") /\ Policy.name \in Name
        /\ policy \in DOMAIN vnf.policies /\ Policy.kind = "Affinity"
    BY <1>1, <1>6, AffinityPresent, PolicyTyped DEF HandleAffinity
  <2>2. Hinted(r) = r
    <3> SUFFICES ASSUME r.name = Parted(Policy.name, "group"),
                        ~ (\E q \in Range(resources) : AffinityOf(q))
                 PROVE  FALSE
      BY <1>3 DEF Hinted, AffinityOf
    <3>1. vnf.policies[i].name \in Name /\ "group" \in Word
      BY VnfsAssumption, WordAssumption DEF SInv, SType, ToSet, MadeOf
    <3>2. vnf.policies[i].name = Policy.name
      BY <1>3, <2>1, <3>1, PartedApart DEF RuleGroup
    <3>3. i = policy
      BY <1>2, <2>1, <3>2 DEF Regular, AllAffine, AffinityApart, SInv, SType, Rule, Policy
    <3>4. PICK q \in Present : q.name = o.name
      BY <1>4 DEF InMain, Names
    <3>5. q.kind = "Server"
      BY <1>1, <1>2, <1>4, <3>4, NamesBack
    <3>6. AffinityOf(q)
      BY <1>2, <3>3, <3>4, <3>5 DEF AffinityOf, Rule, Policy
    <3> QED
      BY <3>4, <3>6 DEF Present
  <2>3. InMain(o.name)'
    BY <1>1, <1>4, <1>6, NamesStay
  <2> QED
    BY <1>3, <2>1, <2>2, <2>3
<1>7. CASE CreatePolicies \/ Expand
  <2>1. r \in Present'
    <3>1. CASE CreatePolicies
      <4>1. \A k \in DOMAIN Policy.aspects : Policy.aspects[k].name \in DOMAIN adjusted
        BY <3>1, AspectsDone DEF CreatePolicies, SInv
      <4> QED
        BY <1>3, <3>1, <4>1, PoliciesPresent DEF SInv
    <3>2. CASE Expand
      BY <1>3, <3>2, ExpandPresent DEF SInv
    <3> QED
      BY <1>7, <3>1, <3>2
  <2>2. InMain(o.name)'
    BY <1>1, <1>4, <1>7, NamesStay
  <2> QED
    BY <1>3, <2>1, <2>2
<1>8. CASE Idle
  BY <1>3, <1>4, <1>8 DEF Idle, InMain, Present
<1> QED
  BY <1>5, <1>6, <1>7, <1>8, Steps

\* The refs of a new group.
LEMMA PassedAre ==
    ASSUME Regular, SInv, NetsStay, NEW x \in Passed
    PROVE  \/ \E v \in Vdus : x = [param |-> FlavorParam(v.name), value |-> FlavorName(v.name)]
           \/ \E o \in Given : o.kind = "Net" /\ o.name \in Links
                               /\ x = [param |-> Parameter(o.name), value |-> o.name]
<1>1. CASE \E v \in Vdus : x = [param |-> FlavorParam(v.name), value |-> FlavorName(v.name)]
  BY <1>1
<1>2. CASE \E l \in Links : x = [param |-> Parameter(l), value |-> l]
  <2>1. PICK l \in Links : x = [param |-> Parameter(l), value |-> l]
    BY <1>2
  <2>2. PICK p \in Present : p.kind = "Port" /\ p.link # None /\ p.link = l
    BY <2>1 DEF Links, Present
  <2>3. PICK q \in Given : Same(p, q)
    BY <2>2, KindsTell DEF OfGiven, SInv, Regular
  <2>4. q.kind = "Port" /\ q.link = l
    BY <2>2, <2>3 DEF Same
  <2>5. PICK o \in Given : o.kind = "Net" /\ o.name = l
    BY <2>2, <2>4, GivenReferences
  <2> QED
    BY <2>1, <2>5
<1> QED
  BY <1>1, <1>2 DEF Passed

\* A step keeps GroupRefs: a group refers to flavors it was made with.
LEMMA GroupRefsStep ==
    ASSUME Regular, SInv, NetsStay, GroupRefs, Next
    PROVE  GroupRefs'
<1>1. AllApart /\ SType /\ vnf' = vnf /\ Given' = Given /\ AllGiven
  BY Steps, PartsAreGiven DEF Regular, SInv
<1>2. SUFFICES ASSUME NEW g \in Present', g.kind = "Group", NEW n \in g.refs
               PROVE  \E o \in Given : \/ o.kind = "Net" /\ n = o.name
                                       \/ o.kind = "Server" /\ n = FlavorName(o.name) /\ InMain(n)'
  BY <1>1 DEF GroupRefs
<1>3. CASE g \in Present
  <2>1. PICK o \in Given : \/ o.kind = "Net" /\ n = o.name
                           \/ o.kind = "Server" /\ n = FlavorName(o.name) /\ InMain(n)
    BY <1>2, <1>3 DEF GroupRefs
  <2>2. CASE o.kind = "Net" /\ n = o.name
    BY <2>2
  <2>3. CASE o.kind = "Server" /\ n = FlavorName(o.name) /\ InMain(n)
    <3>1. o \in Placed /\ o.name \in Name
      BY <1>1, <2>3, GivenApart DEF Placed, PlacedKinds
    <3>2. CASE HandleAspect
      <4>1. n \notin Related
        BY <1>1, <2>3, <3>1, FlavorsUnrelated
      <4>2. Present' = {r \in Present : r.name \notin Related}
                \cup {Flavor(v.name) : v \in Moved} \cup {Group(v.name) : v \in Moved}
        BY <1>1, <3>2, StayingPresent DEF Present, HandleAspect, Scalable
      <4>3. InMain(n)'
        BY <2>3, <4>1, <4>2 DEF InMain, Names
      <4> QED
        BY <2>3, <4>3
    <3>3. CASE HandleAffinity \/ CreatePolicies \/ Expand
      <4>1. InMain(FlavorName(o.name))'
        BY <1>1, <2>3, <3>1, <3>3, NamesStay
      <4> QED
        BY <2>3, <4>1
    <3>4. CASE Idle
      BY <2>3, <3>4 DEF Idle, InMain, Present
    <3> QED
      BY <3>2, <3>3, <3>4, Steps
  <2> QED
    BY <2>1, <2>2, <2>3
<1>4. CASE HandleAspect /\ g \notin Present
  <2>1. AtAspect /\ Deltas # <<>> /\ resources' = Staying
    BY <1>4 DEF HandleAspect, Scalable
  <2>2. Present' = {r \in Present : r.name \notin Related}
                \cup {Flavor(v.name) : v \in Moved} \cup {Group(v.name) : v \in Moved}
    BY <1>1, <2>1, StayingPresent DEF Present
  <2>3. \A v \in Present : v.name \in Name
    BY PresentTyped DEF SInv, SType, ResourceRecord
  <2>4. \A v \in Moved : Flavor(v.name).kind = "Flavor" /\ Flavor(v.name).name = FlavorName(v.name)
    BY <2>3, FlavorTyped DEF Moved
  <2>5. PICK v \in Moved : g = Group(v.name)
    BY <1>2, <1>4, <2>2, <2>4
  <2>6. g.refs = {p.value : p \in Passed}
    BY <1>1, <2>1, <2>5, GroupTyped
  <2>7. PICK x \in Passed : n = x.value
    BY <1>2, <2>6
  <2>8. CASE \E w \in Vdus : x = [param |-> FlavorParam(w.name), value |-> FlavorName(w.name)]
    <3>1. PICK w \in Vdus : n = FlavorName(w.name)
      BY <2>7, <2>8
    <3>2. w \in Moved
      BY <1>1, <3>1, VdusAreGiven DEF Moved
    <3>3. PICK o \in Given : o.kind = "Server" /\ Same(w, o)
      BY <1>1, <3>1, VdusAreGiven
    <3>4. InMain(n)'
      BY <2>2, <2>4, <3>1, <3>2 DEF InMain, Names
    <3> QED
      BY <3>1, <3>3, <3>4 DEF Same
  <2>9. CASE \E o \in Given : o.kind = "Net" /\ o.name \in Links
                               /\ x = [param |-> Parameter(o.name), value |-> o.name]
    BY <2>7, <2>9
  <2> QED
    BY <2>8, <2>9, PassedAre
<1>5. CASE (HandleAffinity \/ CreatePolicies \/ Expand) /\ g \notin Present
  BY <1>1, <1>2, <1>5, GroupsStay
<1>6. CASE Idle
  BY <1>2, <1>3, <1>6 DEF Idle, Present
<1> QED
  BY <1>3, <1>4, <1>5, <1>6, Steps

\* A step keeps GroupsThere: what is moved belongs to a VDU, which leaves a group.
LEMMA GroupsThereStep ==
    ASSUME Regular, SInv, GroupsThere, Next
    PROVE  GroupsThere'
<1>1. AllApart /\ SType /\ DOMAIN adjusted = DOMAIN nested
  BY DEF Regular, SInv, AspectsBehind
<1>2. CASE HandleAspect
  <2>1. AtAspect /\ Deltas # <<>> /\ resources' = Staying
    BY <1>2 DEF HandleAspect, Scalable
  <2>2. Present' = {r \in Present : r.name \notin Related}
                \cup {Flavor(v.name) : v \in Moved} \cup {Group(v.name) : v \in Moved}
    BY <1>1, <2>1, StayingPresent DEF Present
  <2> PICK n, t : n = Aspect.name /\ t = NestedTemplate
    OBVIOUS
  <2>3. /\ DOMAIN nested' = DOMAIN nested \cup {n} /\ n \notin DOMAIN nested
        /\ \A a \in DOMAIN nested : nested'[a] = nested[a]
        /\ nested'[n] = t
    BY <1>1, <1>2, <2>1, Recorded, AspectIsNew DEF SInv
  <2>4. ASSUME NEW a \in DOMAIN nested, nested[a].resources # {}
        PROVE  \E g \in Present' : g.kind = "Group" /\ g.name = a
    <3>1. PICK g \in Present : g.kind = "Group" /\ g.name = a
      BY <2>4 DEF GroupsThere
    <3>2. g.name \notin Related
      <4> SUFFICES ASSUME g.name \in Related PROVE FALSE
        OBVIOUS
      <4>1. PICK o \in Given : o.name = g.name
        BY RelatedGiven
      <4>2. OfGroup(g)
        BY <1>1, <3>1, KindsTell DEF SInv
      <4>3. WasHandled(g.name)
        BY <4>2 DEF OfGroup, SInv, AspectsBehind
      <4>4. g.name \notin Names(Given)
        BY <1>1, <4>3, AspectsApart DEF WasHandled
      <4> QED
        BY <4>1, <4>4 DEF Names
    <3> QED
      BY <2>2, <3>1, <3>2
  <2>5. ASSUME t.resources # {}
        PROVE  \E g \in Present' : g.kind = "Group" /\ g.name = n
    <3>1. PICK v \in Vdus : TRUE
      BY <2>5 DEF NestedTemplate, Related, Names
    <3>2. v \in Moved
      BY <1>1, <3>1, VdusAreGiven DEF Moved
    <3>3. Group(v.name) \in Present'
      BY <2>2, <3>2
    <3>4. Group(v.name).kind = "Group" /\ Group(v.name).name = n
      BY <1>1, <2>1, GroupTyped
    <3> QED
      BY <3>3, <3>4
  <2>6. \A a \in DOMAIN nested' : nested'[a].resources # {} =>
            \E g \in Present' : g.kind = "Group" /\ g.name = a
    BY <2>3, <2>4, <2>5
  <2> QED
    BY <2>6 DEF GroupsThere
<1>3. CASE HandleAffinity \/ CreatePolicies \/ Expand
  <2>1. nested' = nested
    BY <1>3, Steps
  <2> QED
    BY <1>1, <1>3, <2>1, GroupsStay DEF GroupsThere
<1>4. CASE Idle
  BY <1>4 DEF Idle, GroupsThere, Present
<1> QED
  BY <1>2, <1>3, <1>4, Steps

\* A step keeps NetsExpanded.
LEMMA NetsExpandedStep ==
    ASSUME Regular, SInv, NetsStay, NetsExpanded, Next
    PROVE  NetsExpanded'
<1>1. AllApart /\ SType /\ Given' = Given
  BY Steps DEF Regular, SInv
<1>2. CASE Expand
  <2>1. SUFFICES ASSUME NEW o \in Given, o.kind = "Net", o.leaf
                 PROVE  InMain(Parted(o.name, "qospolicy"))'
    BY <1>1 DEF NetsExpanded
  <2>2. o \in Placed /\ o.name \in Name
    BY <1>1, <2>1, GivenApart DEF Placed, PlacedKinds
  <2>3. PICK r \in Present : r.name = o.name
    BY <2>1 DEF NetsStay, InMain, Names
  <2>4. Same(r, o) /\ r.kind = "Net"
    BY <1>1, <2>1, <2>2, <2>3, NamesBack
  <2>5. QoS(o.name) \in Expanded(r)
    BY <2>1, <2>3, <2>4 DEF Expanded, Same
  <2>6. QoS(o.name).kind = "QoS" /\ QoS(o.name).name = Parted(o.name, "qospolicy")
    BY <2>2, NetTyped
  <2>7. QoS(o.name) \in Present'
    BY <1>1, <1>2, <2>5, <2>6, ExpandPresent
  <2> QED
    BY <2>6, <2>7 DEF InMain, Names
<1>3. CASE ~ Expand
  <2>1. stage' # "written"
    BY <1>3 DEF Next, HandleAffinity, HandleAspect, Fail, CreatePolicies, FinishProperties, AtAspect, At
  <2> QED
    BY <2>1 DEF NetsExpanded
<1> QED
  BY <1>2, <1>3

\* What is moved is a VDU of the aspect, or belongs to one.
LEMMA RelatedRecord ==
    ASSUME Regular, SInv, NEW q \in Present, q.name \in Related
    PROVE  /\ q \in ResourceRecord /\ q.kind \in {"Server", "Port", "Volume"}
           /\ q.kind = "Server" => q \in Vdus
           /\ \E o \in Given : Same(q, o) /\ o.kind = q.kind /\ o.name \in Related
<1>1. AllApart /\ q \in ResourceRecord
  BY PresentTyped DEF Regular, SInv, SType
<1>2. PICK o \in Given : o.name = q.name /\ o.kind \in {"Server", "Port", "Volume"}
  BY RelatedGiven
<1>3. Same(q, o) /\ q.kind = o.kind
  BY <1>1, <1>2, NamesBack DEF Placed, PlacedKinds
<1>4. ASSUME q.kind = "Server" PROVE q \in Vdus
  <2>1. PICK v \in Vdus : Same(v, o)
    BY <1>2, <1>3, <1>4, RelatedAre
  <2>2. q.name \in Deltas[1].targets
    BY <1>1, <1>2, <2>1, VdusAreGiven DEF Same
  <2> QED
    BY <1>4, <2>2 DEF Vdus, Present
<1> QED
  BY <1>1, <1>2, <1>3, <1>4

\* A port of a VDU that is moved has its network passed.
LEMMA LinksPassed ==
    ASSUME Regular, SInv, NEW q \in Present, q.kind = "Port"
    PROVE  q.link # None => (q.name \in Related <=> q.link \in Links /\ q.binding \in Names(Vdus))
<1> SUFFICES ASSUME q.link # None
             PROVE  q.name \in Related <=> q.link \in Links /\ q.binding \in Names(Vdus)
  OBVIOUS
<1>1. AllApart
  BY DEF Regular
<1>2. PICK o \in Given : Same(q, o)
  BY <1>1, KindsTell DEF OfGiven, SInv
<1>3. o.kind = "Port" /\ o.name = q.name /\ o.binding = q.binding
  BY <1>2 DEF Same
<1>4. ASSUME q.name \in Related PROVE q.link \in Links /\ q.binding \in Names(Vdus)
  <2>1. PICK v \in Vdus : o.name \in v.parts
    BY <1>3, <1>4, RelatedAre
  <2>2. PICK p \in Given : p.kind = "Server" /\ Same(v, p)
    BY <1>1, <2>1, VdusAreGiven
  <2>3. o.binding = p.name
    BY <1>3, <2>1, <2>2, GivenReferences DEF Same
  <2>4. q.binding \in Names(Vdus)
    BY <1>3, <2>1, <2>2, <2>3 DEF Same, Names
  <2> QED
    BY <2>4 DEF Links, Present
<1>5. ASSUME q.binding \in Names(Vdus) PROVE q.name \in Related
  <2>1. PICK v \in Vdus : v.name = q.binding
    BY <1>5 DEF Names
  <2>2. PICK p \in Given : p.kind = "Server" /\ Same(v, p)
    BY <1>1, <2>1, VdusAreGiven
  <2>3. o.name \in p.parts
    BY <1>3, <2>1, <2>2, GivenReferences DEF Same
  <2> QED
    BY <1>1, <1>3, <2>1, <2>2, <2>3, VdusAreGiven DEF Same
<1> QED
  BY <1>4, <1>5

\* A nested template refers to its own resources.
LEMMA NestedRefs ==
    ASSUME Regular, SInv, PartsStay, RefsKnown, AtAspect, Deltas # <<>>,
           NEW r \in NestedTemplate.resources
    PROVE  r.refs \subseteq Names(NestedTemplate.resources)
<1>1. AllApart /\ SType
  BY DEF Regular, SInv
<1>2. Names(NestedTemplate.resources) = Names(Present) \cap Related
  BY <1>1, NestedNames
<1>3. PICK q \in Present : q.name \in Related /\ r = Scaled(q)
  BY DEF NestedTemplate, Present
<1>4. q \in ResourceRecord /\ q.kind \in {"Server", "Port", "Volume"} /\ (q.kind = "Server" => q \in Vdus)
  BY <1>3, RelatedRecord
<1>5. PICK o \in Given : Same(q, o) /\ o.kind = q.kind
  BY <1>3, RelatedRecord
<1>6. q.refs \subseteq o.refs \cup IF o.kind = "Server" THEN RuleGroups(o.name) ELSE {}
  BY <1>5 DEF RefsKnown
<1>7. CASE q.kind = "Server"
  <2>1. r.refs = q.refs \ {FlavorName(q.name)}
    BY <1>3, <1>4, <1>7 DEF Scaled, ResourceRecord
  <2>2. RuleGroups(o.name) = {}
    <3>1. Deltas[1] \in Range(vnf.deltas)
      BY <1>1, DeltasTyped
    <3>2. o.name \in Deltas[1].targets
      BY <1>1, <1>4, <1>5, <1>7, VdusAreGiven DEF Same
    <3>3. \A i \in DOMAIN vnf.policies : Rule(i) => o.name \notin vnf.policies[i].targets
      BY <3>1, <3>2 DEF Regular, AllAffine, AffinityApart, SInv, SType, Rule, Range
    <3> QED
      BY <3>3 DEF RuleGroups
  <2>3. o.name = q.name /\ o.refs \subseteq o.parts \cup {FlavorName(o.name)}
    BY <1>5, <1>7, GivenReferences DEF Same
  <2>4. r.refs \subseteq o.parts
    BY <1>5, <1>6, <1>7, <2>1, <2>2, <2>3
  <2>5. o.parts \subseteq Related
    BY <1>1, <1>4, <1>5, <1>7, VdusAreGiven DEF Same
  <2>6. InMain(o.name)
    BY <2>3 DEF InMain, Names
  <2>7. o.parts \subseteq Names(Present)
    BY <1>5, <1>7, <2>6 DEF PartsStay, InMain
  <2> QED
    BY <1>2, <2>4, <2>5, <2>7
<1>8. CASE q.kind = "Port"
  <2>1. o.refs \subseteq {q.link} \ {None}
    BY <1>5, <1>8, GivenReferences DEF Same
  <2>2. q.refs \subseteq {q.link} \ {None}
    BY <1>5, <1>6, <1>8, <2>1
  <2>3. q.link # None => q.link \in Links
    BY <1>3, <1>8, LinksPassed
  <2>4. q.link \in Links => r.refs = q.refs \ {q.link}
    BY <1>3, <1>4, <1>8 DEF Scaled, ResourceRecord
  <2>5. q.link \notin Links => r.refs = q.refs
    BY <1>3, <1>8 DEF Scaled
  <2>6. r.refs = {}
    BY <2>2, <2>3, <2>4, <2>5
  <2> QED
    BY <2>6
<1>9. CASE q.kind = "Volume"
  <2>1. r = q
    BY <1>3, <1>9 DEF Scaled
  <2>2. o.refs = {}
    BY <1>5, <1>9, GivenReferences
  <2> QED
    BY <1>5, <1>6, <1>9, <2>1, <2>2
<1> QED
  BY <1>4, <1>7, <1>8, <1>9

\* The group of an aspect passes the parameters of its nested template.
LEMMA NestedParameters ==
    ASSUME Regular, SInv, NetsStay
    PROVE  {p.param : p \in Passed} = NestedTemplate.parameters
<1>1. AllApart /\ SType
  BY DEF Regular, SInv
<1> DEFINE moved == {q \in Present : q.name \in Related}
<1>2. NestedTemplate.parameters = UNION {Scaled(q).params : q \in moved}
  BY DEF NestedTemplate, Present
<1>3. ASSUME NEW q \in Present, q.name \in Related
      PROVE  /\ q.kind = "Server" => Scaled(q).params = {FlavorParam(q.name)} /\ q \in Vdus
             /\ q.kind = "Port" => Scaled(q).params = IF q.link \in Links THEN {Parameter(q.link)} ELSE {}
             /\ q.kind \in {"Server", "Port"} \/ Scaled(q).params = {}
  <2>1. q \in ResourceRecord /\ q.kind \in {"Server", "Port", "Volume"} /\ (q.kind = "Server" => q \in Vdus)
    BY <1>3, RelatedRecord
  <2>2. q.params = {}
    BY <1>3, RelatedRecord, GivenReferences DEF Same
  <2> QED
    BY <2>1, <2>2 DEF Scaled, ResourceRecord
<1>4. ASSUME NEW x \in Passed PROVE x.param \in NestedTemplate.parameters
  <2>1. CASE \E v \in Vdus : x = [param |-> FlavorParam(v.name), value |-> FlavorName(v.name)]
    <3>1. PICK v \in Vdus : x.param = FlavorParam(v.name)
      BY <2>1
    <3>2. v \in Present /\ v.name \in Related /\ v.kind = "Server"
      BY <1>1, <3>1, VdusAreGiven
    <3>3. x.param \in Scaled(v).params /\ v \in moved
      BY <1>3, <3>1, <3>2
    <3> QED
      BY <1>2, <3>3
  <2>2. CASE \E l \in Links : x = [param |-> Parameter(l), value |-> l]
    <3>1. PICK l \in Links : x.param = Parameter(l)
      BY <2>2
    <3>2. PICK q \in Present : q.kind = "Port" /\ q.binding \in Names(Vdus) /\ q.link # None /\ q.link = l
      BY <3>1 DEF Links, Present
    <3>3. q.name \in Related
      BY <3>1, <3>2, LinksPassed
    <3>4. x.param \in Scaled(q).params /\ q \in moved
      BY <1>3, <3>1, <3>2, <3>3
    <3> QED
      BY <1>2, <3>4
  <2> QED
    BY <2>1, <2>2 DEF Passed
<1>5. ASSUME NEW n \in NestedTemplate.parameters PROVE \E x \in Passed : n = x.param
  <2>1. PICK q \in moved : n \in Scaled(q).params
    BY <1>2
  <2>2. CASE q.kind = "Server"
    <3>1. [param |-> FlavorParam(q.name), value |-> FlavorName(q.name)] \in Passed
      BY <1>3, <2>1, <2>2 DEF Passed
    <3> QED
      BY <1>3, <2>1, <2>2, <3>1
  <2>3. CASE q.kind = "Port"
    <3>1. q.link \in Links /\ n = Parameter(q.link)
      BY <1>3, <2>1, <2>3
    <3>2. [param |-> Parameter(q.link), value |-> q.link] \in Passed
      BY <3>1 DEF Passed
    <3> QED
      BY <3>1, <3>2
  <2> QED
    BY <1>3, <2>1, <2>2, <2>3
<1> QED
  BY <1>4, <1>5

\* A step keeps NestedAlone: moving a VDU turns what it leaves into parameters.
LEMMA NestedStep ==
    ASSUME Regular, SInv, PartsStay, NetsStay, RefsKnown, NestedAlone, Next
    PROVE  NestedAlone'
<1>1. AllApart /\ SType /\ DOMAIN adjusted = DOMAIN nested
  BY DEF Regular, SInv, AspectsBehind
<1>2. CASE HandleAspect
  <2>1. AtAspect /\ Deltas # <<>> /\ resources' = Staying
    BY <1>2 DEF HandleAspect, Scalable
  <2>2. Present' = {r \in Present : r.name \notin Related}
                \cup {Flavor(v.name) : v \in Moved} \cup {Group(v.name) : v \in Moved}
    BY <1>1, <2>1, StayingPresent DEF Present
  <2> PICK n, t : n = Aspect.name /\ t = NestedTemplate
    OBVIOUS
  <2>3. /\ DOMAIN nested' = DOMAIN nested \cup {n} /\ n \notin DOMAIN nested
        /\ \A a \in DOMAIN nested : nested'[a] = nested[a]
        /\ nested'[n] = t
    BY <1>1, <1>2, <2>1, Recorded, AspectIsNew DEF SInv
  <2>4. \A r \in t.resources : r.refs \subseteq Names(t.resources)
    BY <2>1, NestedRefs
  <2>5. \A v \in Present : v.name \in Name
    BY PresentTyped DEF SInv, SType, ResourceRecord
  <2>6. \A v \in Moved : Flavor(v.name).kind = "Flavor"
    BY <2>5, FlavorTyped DEF Moved
  <2>7. ASSUME NEW g \in Present', g.kind = "Group"
        PROVE  \/ g \in Present /\ g.aspect \in DOMAIN nested
               \/ g.aspect = n /\ {p.param : p \in g.passes} = t.parameters
    <3>1. CASE g \in Present
      <4>1. OfGroup(g)
        BY <1>1, <2>7, <3>1, KindsTell DEF SInv
      <4> QED
        BY <1>1, <3>1, <4>1 DEF OfGroup
    <3>2. CASE g \notin Present
      <4>1. PICK v \in Moved : g = Group(v.name)
        BY <2>2, <2>6, <2>7, <3>2
      <4>2. g.aspect = n /\ g.passes = Passed
        BY <1>1, <2>1, <4>1, GroupTyped
      <4>3. {p.param : p \in Passed} = t.parameters
        BY NestedParameters
      <4> QED
        BY <4>2, <4>3
    <3> QED
      BY <3>1, <3>2
  <2>8. ASSUME NEW a \in DOMAIN nested'
        PROVE  /\ \A r \in nested'[a].resources : r.refs \subseteq Names(nested'[a].resources)
               /\ \A g \in Present' : g.kind = "Group" /\ g.aspect = a =>
                    {p.param : p \in g.passes} = nested'[a].parameters
    BY <2>3, <2>4, <2>7 DEF NestedAlone
  <2> QED
    BY <2>8 DEF NestedAlone
<1>3. CASE HandleAffinity \/ CreatePolicies \/ Expand
  <2>1. nested' = nested
    BY <1>3, Steps
  <2> QED
    BY <1>1, <1>3, <2>1, GroupsStay DEF NestedAlone
<1>4. CASE Idle
  BY <1>4 DEF Idle, NestedAlone, Present
<1> QED
  BY <1>2, <1>3, <1>4, Steps

-----------------------------------------------------------------------------
(* The theorems on the templates.                                           *)

\* The invariant of the theorems on the templates.
TInv == SInv /\ Places /\ Closure

\* TInv holds of every state.
LEMMA TInvariance == Regular /\ Spec => []TInv
<1> SUFFICES ASSUME Regular PROVE Spec => []TInv
  OBVIOUS
<1>1. AllApart /\ AllGiven
  BY PartsAreGiven DEF Regular
<1>2. Init => TInv
  <2> SUFFICES ASSUME Init PROVE TInv
    OBVIOUS
  <2>1. /\ nested = << >> /\ adjusted = << >> /\ resources = vnf.resources /\ stage = "properties"
        /\ vnf \in Vnfs
    BY DEF Init
  <2>2. SInv /\ Present = Given
    BY <2>1, SInvInit DEF Present, Given
  <2>3. \A o \in Given : InMain(o.name) /\ o.kind \in PlacedKinds \cup {"ServerGroup", "Aspects"}
    BY <1>1, <2>2, GivenApart DEF InMain, Names, SInv
  <2>4. Places
    BY <2>1, <2>3 DEF Places, Placed, OnePlace, FlavorKept
  <2>5. PartsStay
    <3> SUFFICES ASSUME NEW o \in Given, o.kind = "Server", NEW n \in o.parts PROVE InMain(n)
      BY DEF PartsStay
    <3>1. PICK p \in Given : p.name = n
      BY <2>2, GivenReferences
    <3> QED
      BY <2>3, <3>1
  <2>6. RefsKnown
    <3> SUFFICES ASSUME NEW r \in Given, NEW o \in Given, Same(r, o) PROVE r.refs \subseteq o.refs
      BY <2>2 DEF RefsKnown
    <3>1. r = o
      BY <1>1, <2>2, GivenApart DEF Same, SInv
    <3> QED
      BY <3>1
  <2>7. RulesHold
    <3> SUFFICES ASSUME NEW i \in DOMAIN vnf.policies, Rule(i)
                 PROVE  \E r \in Given : r.name = RuleGroup(i) /\ r.kind = "ServerGroup"
      BY <2>2, <2>3 DEF RulesHold
    <3>1. vnf.policies[i] \in Range(vnf.policies) /\ vnf.policies[i].kind = "Affinity"
      BY DEF Rule, Range
    <3> QED
      BY <2>1, <3>1 DEF Regular, AllAffine, AffinityApart, Given, RuleGroup
  <2>8. \A g \in Present : g.kind # "Group"
    BY <2>2, <2>3 DEF PlacedKinds
  <2>9. NetsStay /\ GroupRefs /\ GroupsThere /\ NestedAlone /\ NetsExpanded
    BY <2>1, <2>3, <2>8 DEF NetsStay, GroupRefs, GroupsThere, NestedAlone, NetsExpanded
  <2> QED
    BY <2>2, <2>4, <2>5, <2>6, <2>7, <2>9 DEF TInv, Closure
<1>3. TInv /\ [Next]_vars => TInv'
  <2> SUFFICES ASSUME TInv, [Next]_vars PROVE TInv'
    OBVIOUS
  <2>1. SInv'
    BY <1>1, SInvStep DEF TInv
  <2>2. CASE Next
    <3>1. Places'
      BY <1>1, <2>2, PlacesStep DEF TInv
    <3>2. PartsStay' /\ NetsStay'
      BY <2>2, PartsStep, NetsStep DEF TInv, Closure
    <3>3. RefsKnown' /\ RulesHold'
      BY <2>2, RefsStep, RulesStep DEF TInv, Closure
    <3>4. GroupRefs' /\ GroupsThere'
      BY <2>2, GroupRefsStep, GroupsThereStep DEF TInv, Closure
    <3>5. NestedAlone' /\ NetsExpanded'
      BY <2>2, NestedStep, NetsExpandedStep DEF TInv, Closure
    <3> QED
      BY <2>1, <3>1, <3>2, <3>3, <3>4, <3>5 DEF TInv, Closure
  <2>3. CASE UNCHANGED vars
    <3>1. Present' = Present /\ Given' = Given /\ Placed' = Placed
          /\ UNCHANGED <<vnf, adjusted, nested, stage>>
      BY <2>3 DEF vars, Present, Given, Placed
    <3>2. Places'
      BY <3>1 DEF TInv, Places, OnePlace, FlavorKept, InMain, InNested
    <3>3. PartsStay' /\ NetsStay' /\ GroupRefs' /\ GroupsThere' /\ NestedAlone' /\ NetsExpanded'
      BY <3>1 DEF TInv, Closure, PartsStay, NetsStay, GroupRefs, GroupsThere, NestedAlone,
                  NetsExpanded, InMain
    <3>4. RefsKnown' /\ RulesHold'
      BY <3>1 DEF TInv, Closure, RefsKnown, RulesHold, RuleGroups, Rule, RuleGroup, InMain
    <3> QED
      BY <2>1, <3>2, <3>3, <3>4 DEF TInv, Closure
  <2> QED
    BY <2>2, <2>3
<1> QED
  BY <1>2, <1>3, PTL DEF Spec

\* The VDUs of an affinity rule are where its server group is.
THEOREM RulesAreApplied == Regular /\ Spec => []AffinityHolds
<1> SUFFICES ASSUME Regular PROVE Spec => []AffinityHolds
  OBVIOUS
<1>1. TInv => AffinityHolds
  <2> SUFFICES ASSUME TInv, NEW p \in Range(vnf.policies), p.kind = "Affinity", p.scope = "nfvi_node",
                      NEW t \in Templates, NEW r \in Given, r.kind = "Server", r.name \in p.targets,
                      r.name \in Names(t)
               PROVE  Parted(p.name, "group") \in Names(t)
    BY DEF AffinityHolds, Given
  <2>1. PICK i \in DOMAIN vnf.policies : p = vnf.policies[i]
    BY DEF Range
  <2>2. Rule(i) /\ RuleGroup(i) = Parted(p.name, "group")
    BY <2>1 DEF Rule, RuleGroup
  <2>3. InMain(r.name) /\ InMain(Parted(p.name, "group"))
    BY <2>1, <2>2 DEF TInv, Closure, RulesHold, InMain, Names
  <2>4. \A a \in DOMAIN nested : ~ InNested(r.name, a)
    BY <2>3 DEF TInv, Places, Placed, PlacedKinds, OnePlace
  <2>5. t = Main
    BY <2>4 DEF Templates, InNested
  <2> QED
    BY <2>3, <2>5, MainNames DEF InMain, TInv, SInv, SType
<1> QED
  BY <1>1, TInvariance, PTL

\* What a nested template refers to is in it, and what the main one refers to
\* if every aspect scales a VDU; a link that is not an IP network is excluded
\* by References.
THEOREM TemplatesAreClosed == Regular /\ Spec => []TemplatesClosed
<1> SUFFICES ASSUME Regular PROVE Spec => []TemplatesClosed
  OBVIOUS
<1>1. TInv => TemplatesClosed
  <2> SUFFICES ASSUME TInv PROVE NestedClosed /\ (EachScales => MainClosed)
    BY DEF TemplatesClosed
  <2>1. Main \subseteq Present /\ Names(Main) = Names(Present)
    BY MainNames DEF TInv, SInv, SType
  <2>2. AllApart /\ SInv /\ SType /\ AspectsBehind /\ Forms
    BY DEF Regular, TInv, SInv
  <2>3. NestedClosed
    BY <2>1 DEF NestedClosed, TInv, Closure, NestedAlone, Groups
  <2>4. ASSUME EachScales PROVE MainClosed
    <3> SUFFICES ASSUME Written, NEW r \in Present, NEW n \in r.refs
                 PROVE  InMain(n)
      BY <2>1 DEF MainClosed, InMain
    <3>1. ASSUME NEW o \in Given, o.kind = "Server" PROVE InMain(FlavorName(o.name))
      BY <3>1 DEF TInv, Places, Placed, PlacedKinds, FlavorKept, Written
    <3>2. CASE OfGiven(r)
      <4>1. PICK o \in Given : Same(r, o)
        BY <3>2 DEF OfGiven
      <4>2. n \in o.refs \/ (o.kind = "Server" /\ n \in RuleGroups(o.name))
        BY <4>1 DEF TInv, Closure, RefsKnown
      <4>3. InMain(o.name) /\ o.kind \in PlacedKinds \cup {"ServerGroup", "Aspects"}
        BY <2>2, <4>1, GivenApart DEF Same, InMain, Names
      <4>4. CASE o.kind = "Server"
        <5>1. CASE n \in RuleGroups(o.name)
          <6>1. PICK i \in DOMAIN vnf.policies :
                    Rule(i) /\ o.name \in vnf.policies[i].targets /\ n = RuleGroup(i)
            BY <5>1 DEF RuleGroups
          <6> QED
            BY <4>4, <6>1 DEF TInv, Closure, RulesHold, InMain, Names
        <5>2. CASE n \in o.refs
          <6>1. n \in o.parts \/ n = FlavorName(o.name)
            BY <2>2, <4>4, <5>2, GivenReferences
          <6> QED
            BY <3>1, <4>3, <4>4, <6>1 DEF TInv, Closure, PartsStay
        <5> QED
          BY <4>2, <5>1, <5>2
      <4>5. CASE o.kind = "Port"
        <5>1. n = o.link /\ o.link # None
          BY <2>2, <4>2, <4>5, GivenReferences
        <5>2. PICK p \in Given : p.kind = "Net" /\ p.name = n
          BY <2>2, <4>5, <5>1, GivenReferences
        <5> QED
          BY <5>2 DEF TInv, Closure, NetsStay
      <4>6. CASE o.kind = "Net"
        <5>1. o.leaf /\ n = Parted(o.name, "qospolicy")
          BY <2>2, <4>2, <4>6, GivenReferences
        <5> QED
          BY <4>6, <5>1 DEF TInv, Closure, NetsExpanded, Written
      <4>7. CASE o.kind \notin {"Server", "Port", "Net"}
        BY <2>2, <4>2, <4>7, GivenReferences
      <4> QED
        BY <4>4, <4>5, <4>6, <4>7
    <3>3. CASE OfFlavor(r)
      BY <3>3 DEF OfFlavor
    <3>4. CASE OfGroup(r)
      <4>1. PICK o \in Given : \/ o.kind = "Net" /\ n = o.name
                               \/ o.kind = "Server" /\ n = FlavorName(o.name) /\ InMain(n)
        BY <3>4 DEF OfGroup, TInv, Closure, GroupRefs
      <4> QED
        BY <4>1 DEF TInv, Closure, NetsStay
    <3>5. CASE OfPolicy(r)
      <4>1. n = r.aspect /\ r.aspect \in DOMAIN adjusted /\ r.kind = "ScalingPolicy"
        BY <3>5 DEF OfPolicy
      <4>2. r.aspect \in DOMAIN nested /\ nested[r.aspect].resources # {}
        BY <2>2, <2>4, <4>1 DEF EachScales, AspectsBehind
      <4> QED
        BY <4>1, <4>2 DEF TInv, Closure, GroupsThere, InMain, Names
    <3>6. CASE OfNet(r)
      <4>1. PICK o \in Given : o.kind = "Net" /\
                \/ n = o.name
                \/ o.leaf /\ n = Parted(o.name, "qospolicy")
        BY <3>6 DEF OfNet
      <4> QED
        BY <4>1 DEF TInv, Closure, NetsStay, NetsExpanded, Written
    <3> QED
      BY <2>2, <3>2, <3>3, <3>4, <3>5, <3>6 DEF Forms
  <2> QED
    BY <2>3, <2>4
<1> QED
  BY <1>1, TInvariance, PTL
=============================================================================
