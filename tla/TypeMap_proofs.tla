--------------------------- MODULE TypeMap_proofs ---------------------------
(* Proofs of the safety properties of TypeMap.                              *)
EXTENDS TypeMap, SequenceLemmas

Items == [type: Type, isPolicy: BOOLEAN]

\* The import reads one directory after the other and misses no module.
ClassesInOrder ==
    /\ at \in 1 .. Locations /\ unread \subseteq In(at)
    /\ classes \in Seq(Module)
    /\ \A j, k \in 1 .. Len(classes) :
            j <= k => Location[classes[j]] <= Location[classes[k]]
    /\ \A k \in 1 .. Len(classes) : Location[classes[k]] <= at
    /\ \A m \in Module :
            Location[m] < at \/ (Location[m] = at /\ m \notin unread)
                => \E k \in 1 .. Len(classes) : classes[k] = m

\* The map of a process that has it has every type of a module, and each of
\* its entries, registered ones too, is a class for the nearest such type.
MapNearest ==
    Loaded =>
        /\ Base \subseteq DOMAIN typeMap
        /\ \A m \in Module : Location[m] <= Location[typeMap[ToscaType[m]]]
        /\ \A t \in DOMAIN typeMap :
                t \in Type /\ typeMap[t] \in Module /\ Nearest(t, typeMap[t])

NothingMadeBefore ==
    ~ Loaded => typeMap = << >> /\ template = << >> /\ made = << >>

Progress ==
    /\ stage \in {"loading", "idle", "translating", "failed"}
    /\ template \in Seq(Items)
    /\ made \in Seq([class: Module, parameters: BOOLEAN])
    /\ Len(made) <= Len(template)

MadeNearest ==
    \A k \in 1 .. Len(made) : Nearest(template[k].type, made[k].class)

MInv == ClassesInOrder /\ MapNearest /\ NothingMadeBefore /\ Progress /\ MadeNearest

-----------------------------------------------------------------------------
(* The map and the search for a supported type.                            *)

\* A search starts at the type and its first hit has none before it.
LEMMA FirstStep ==
    ASSUME NEW t \in Type, Steps(t) # {}
    PROVE  \E k \in DOMAIN Ancestors[t] :
                /\ Supported(t) = Ancestors[t][k]
                /\ Supported(t) \in DOMAIN typeMap
                /\ \A n \in 1 .. k - 1 : Ancestors[t][n] \notin DOMAIN typeMap
  <1>1. Ancestors[t] \in Seq(Type)
    BY TypesAssumption
  <1>2. Steps(t) \in SUBSET Nat /\ DOMAIN Ancestors[t] = 1 .. Len(Ancestors[t])
    BY <1>1 DEF Steps
  <1>3. Min(Steps(t)) \in Steps(t) /\ \A y \in Steps(t) : Min(Steps(t)) <= y
    BY <1>2, MinProperty
  <1> DEFINE k == CHOOSE k \in Steps(t) : \A n \in Steps(t) : k <= n
  <1>4. k \in Steps(t) /\ \A n \in Steps(t) : k <= n
    BY <1>3
  <1>5. \A n \in 1 .. k - 1 : Ancestors[t][n] \notin DOMAIN typeMap
    BY <1>1, <1>2, <1>4 DEF Steps
  <1> QED BY <1>4, <1>5 DEF Supported, Steps

\* What is nearest to an ancestor is nearest to the type if none is before.
LEMMA NearestUp ==
    ASSUME NEW t \in Type, NEW k \in DOMAIN Ancestors[t], NEW class,
           \A n \in 1 .. k - 1 : Ancestors[t][n] \notin Base,
           Nearest(Ancestors[t][k], class)
    PROVE  Nearest(t, class)
  <1> DEFINE u == Ancestors[t][k]
  <1>1. /\ Ancestors[t] \in Seq(Type) /\ k \in 1 .. Len(Ancestors[t])
        /\ Ancestors[u] = SubSeq(Ancestors[t], k, Len(Ancestors[t]))
    <2>1. Ancestors[t] \in Seq(Type)
      BY TypesAssumption
    <2>2. k \in 1 .. Len(Ancestors[t])
      BY <2>1
    <2> QED BY <2>1, <2>2, TypesAssumption
  <1>2. PICK j \in DOMAIN Ancestors[u] :
            /\ Ancestors[u][j] \in Base /\ ToscaType[class] = Ancestors[u][j]
            /\ \A n \in 1 .. j - 1 : Ancestors[u][n] \notin Base
    BY DEF Nearest
  <1>3. /\ DOMAIN Ancestors[u] = 1 .. Len(Ancestors[t]) - k + 1
        /\ \A n \in DOMAIN Ancestors[u] : Ancestors[u][n] = Ancestors[t][k + n - 1]
    BY <1>1
  <1>4. k + j - 1 \in DOMAIN Ancestors[t]
    BY <1>1, <1>2, <1>3
  <1>5. \A n \in 1 .. (k + j - 1) - 1 : Ancestors[t][n] \notin Base
    <2> SUFFICES ASSUME NEW n \in 1 .. (k + j - 1) - 1
                 PROVE  Ancestors[t][n] \notin Base
      OBVIOUS
    <2>1. CASE n <= k - 1
      BY <2>1, <1>1
    <2>2. CASE n > k - 1
      <3>1. n - k + 1 \in 1 .. j - 1 /\ n - k + 1 \in DOMAIN Ancestors[u]
        BY <2>2, <1>1, <1>2, <1>3
      <3>2. Ancestors[u][n - k + 1] = Ancestors[t][k + (n - k + 1) - 1]
        BY <3>1, <1>3
      <3>3. k + (n - k + 1) - 1 = n
        BY <1>1
      <3> QED BY <3>1, <3>2, <3>3, <1>2
    <2> QED BY <2>1, <2>2, <1>1
  <1>6. Ancestors[t][k + j - 1] \in Base /\ ToscaType[class] = Ancestors[t][k + j - 1]
    BY <1>2, <1>3
  <1> QED BY <1>4, <1>5, <1>6 DEF Nearest

\* The class that a search finds is one for the nearest type.
LEMMA SupportedNearest ==
    ASSUME MapNearest, Loaded, NEW t \in Type, Steps(t) # {}
    PROVE  /\ typeMap[Supported(t)] \in Module
           /\ Nearest(t, typeMap[Supported(t)])
           /\ t \in DOMAIN typeMap => Supported(t) = t
  <1>1. PICK k \in DOMAIN Ancestors[t] :
            /\ Supported(t) = Ancestors[t][k]
            /\ Supported(t) \in DOMAIN typeMap
            /\ \A n \in 1 .. k - 1 : Ancestors[t][n] \notin DOMAIN typeMap
    BY FirstStep
  <1>2. \A n \in 1 .. k - 1 : Ancestors[t][n] \notin Base
    BY <1>1 DEF MapNearest
  <1>3. typeMap[Supported(t)] \in Module /\ Nearest(Supported(t), typeMap[Supported(t)])
    BY <1>1 DEF MapNearest
  <1>4. Nearest(t, typeMap[Supported(t)])
    BY <1>1, <1>2, <1>3, NearestUp
  <1>5. ASSUME t \in DOMAIN typeMap PROVE Supported(t) = t
    <2>1. /\ Ancestors[t] \in Seq(Type) /\ Ancestors[t][1] = t
          /\ k \in 1 .. Len(Ancestors[t])
      BY TypesAssumption
    <2>2. k = 1
      BY <1>1, <1>5, <2>1
    <2> QED BY <1>1, <2>1, <2>2
  <1> QED BY <1>3, <1>4, <1>5

\* The entry for a type that a module is for is a class for just that type.
LEMMA BaseEntry ==
    ASSUME NEW t \in Base, NEW class, ToscaType[class] = t
    PROVE  Nearest(t, class)
  <1>1. t \in Type
    BY ModulesAssumption DEF Base
  <1>2. Ancestors[t] \in Seq(Type) /\ Ancestors[t] # << >> /\ Ancestors[t][1] = t
    BY <1>1, TypesAssumption
  <1>3. 1 \in DOMAIN Ancestors[t] /\ 1 .. 1 - 1 = {}
    BY <1>2
  <1> QED BY <1>2, <1>3 DEF Nearest

\* Registration adds at most the type of the policy.
LEMMA RegisteredKeeps ==
    ASSUME MapNearest, Loaded, NEW own \in Type, Steps(own) # {}
    PROVE  /\ DOMAIN typeMap \subseteq DOMAIN Registered(own)
           /\ DOMAIN Registered(own) \subseteq DOMAIN typeMap \cup {own}
           /\ \A t \in DOMAIN typeMap : Registered(own)[t] = typeMap[t]
           /\ own \in DOMAIN Registered(own) =>
                Registered(own)[own] = typeMap[Supported(own)]
  <1>1. own \in DOMAIN typeMap => Supported(own) = own
    BY SupportedNearest
  <1>2. CASE Registers(own)
    BY <1>1, <1>2 DEF Registered, RegisteredClass
  <1>3. CASE ~ Registers(own)
    BY <1>1, <1>3 DEF Registered
  <1> QED BY <1>2, <1>3

-----------------------------------------------------------------------------
(* The import.                                                             *)

LEMMA InitMInv == Init => MInv
  <1> SUFFICES ASSUME Init PROVE MInv
    OBVIOUS
  <1>0. /\ at = 1 /\ unread = In(1) /\ classes = << >>
        /\ template = << >> /\ made = << >> /\ stage = "loading"
    BY Zenon DEF Init
  <1>1. ClassesInOrder
    <2>1. 1 \in 1 .. Locations
      BY DEF Locations
    <2>2. classes \in Seq(Module) /\ 1 .. Len(classes) = {}
      BY <1>0
    <2>3. ASSUME NEW m \in Module, Location[m] < at \/ (Location[m] = at /\ m \notin unread)
          PROVE  FALSE
      <3>1. Location[m] \in 1 .. Locations
        BY ModulesAssumption
      <3>2. Location[m] = 1 => m \in unread
        BY <1>0, Zenon DEF In
      <3> QED BY <1>0, <2>3, <3>1, <3>2 DEF Locations
    <2> QED BY <1>0, <2>1, <2>2, <2>3 DEF ClassesInOrder
  <1>2. MapNearest /\ NothingMadeBefore
    BY DEF Init, MapNearest, NothingMadeBefore, Loaded
  <1>3. Progress
    BY <1>0 DEF Progress
  <1>4. MadeNearest
    BY <1>0 DEF MadeNearest
  <1> QED BY <1>1, <1>2, <1>3, <1>4 DEF MInv

LEMMA LoadClassMInv ==
    ASSUME MInv, NEW m \in Module, LoadClass(m)
    PROVE  MInv'
  <1>1. ClassesInOrder'
    <2>1. /\ m \in unread /\ Location[m] = at /\ at' = at /\ unread' = unread \ {m}
          /\ classes \in Seq(Module) /\ classes' = Append(classes, m)
      BY DEF LoadClass, MInv, ClassesInOrder, In
    <2>2. /\ classes' \in Seq(Module) /\ Len(classes) \in Nat
          /\ Len(classes') = Len(classes) + 1
          /\ classes'[Len(classes) + 1] = m
          /\ \A k \in 1 .. Len(classes) : classes'[k] = classes[k]
      BY <2>1
    <2>3. /\ at \in 1 .. Locations /\ unread \subseteq In(at)
          /\ \A j, k \in 1 .. Len(classes) :
                  j <= k => Location[classes[j]] <= Location[classes[k]]
          /\ \A k \in 1 .. Len(classes) : Location[classes[k]] <= at
          /\ \A n \in Module :
                  Location[n] < at \/ (Location[n] = at /\ n \notin unread)
                      => \E k \in 1 .. Len(classes) : classes[k] = n
      BY DEF MInv, ClassesInOrder
    <2>4. \A k \in 1 .. Len(classes') : Location[classes'[k]] <= at
      BY <2>1, <2>2, <2>3 DEF Locations
    <2>5. ASSUME NEW j \in 1 .. Len(classes'), NEW k \in 1 .. Len(classes'), j <= k
          PROVE  Location[classes'[j]] <= Location[classes'[k]]
      <3>1. CASE k \in 1 .. Len(classes)
        <4>1. j \in 1 .. Len(classes)
          BY <3>1, <2>5, <2>2
        <4> QED BY <4>1, <3>1, <2>2, <2>3, <2>5
      <3>2. CASE k = Len(classes) + 1
        BY <3>2, <2>1, <2>2, <2>4
      <3> QED BY <2>2, <3>1, <3>2
    <2>6. ASSUME NEW n \in Module, Location[n] < at \/ (Location[n] = at /\ n \notin unread')
          PROVE  \E k \in 1 .. Len(classes') : classes'[k] = n
      <3>1. CASE n = m
        BY <3>1, <2>2
      <3>2. CASE n # m
        <4>1. PICK k \in 1 .. Len(classes) : classes[k] = n
          BY <2>1, <2>3, <2>6, <3>2
        <4> QED BY <4>1, <2>2
      <3> QED BY <3>1, <3>2
    <2>7. unread' \subseteq In(at')
      BY <2>1, <2>3 DEF In
    <2> QED BY <2>1, <2>2, <2>3, <2>4, <2>5, <2>6, <2>7 DEF ClassesInOrder
  <1>2. MapNearest' /\ NothingMadeBefore' /\ Progress' /\ MadeNearest'
    BY DEF LoadClass, MInv, MapNearest, NothingMadeBefore, Progress, MadeNearest, Loaded, Nearest
  <1> QED BY <1>1, <1>2 DEF MInv

LEMMA NextLocationMInv == MInv /\ NextLocation => MInv'
  <1> SUFFICES ASSUME MInv, NextLocation PROVE MInv'
    OBVIOUS
  <1>1. ClassesInOrder'
    <2>1. /\ at \in 1 .. Locations /\ at < Locations /\ at' = at + 1
          /\ unread' = In(at') /\ unread = {} /\ classes' = classes
      BY DEF MInv, ClassesInOrder, NextLocation
    <2>2. /\ classes \in Seq(Module)
          /\ \A j, k \in 1 .. Len(classes) :
                  j <= k => Location[classes[j]] <= Location[classes[k]]
          /\ \A k \in 1 .. Len(classes) : Location[classes[k]] <= at
          /\ \A k \in 1 .. Len(classes) : Location[classes[k]] \in Nat
          /\ \A m \in Module :
                  Location[m] < at \/ Location[m] = at
                      => \E k \in 1 .. Len(classes) : classes[k] = m
      <3>1. \A k \in 1 .. Len(classes) : classes[k] \in Module
        BY DEF MInv, ClassesInOrder
      <3>2. \A k \in 1 .. Len(classes) : Location[classes[k]] \in Nat
        <4> SUFFICES ASSUME NEW k \in 1 .. Len(classes) PROVE Location[classes[k]] \in Nat
          OBVIOUS
        <4>1. Location[classes[k]] \in 1 .. Locations
          BY <3>1, ModulesAssumption
        <4> QED BY <4>1 DEF Locations
      <3> QED BY <2>1, <3>2 DEF MInv, ClassesInOrder
    <2>3. \A k \in 1 .. Len(classes') : Location[classes'[k]] <= at'
      BY <2>1, <2>2 DEF Locations
    <2>4. ASSUME NEW m \in Module,
                 Location[m] < at' \/ (Location[m] = at' /\ m \notin unread')
          PROVE  \E k \in 1 .. Len(classes') : classes'[k] = m
      <3>1. Location[m] \in 1 .. Locations /\ (Location[m] = at' => m \in unread')
        BY <2>1, ModulesAssumption DEF In
      <3>2. Location[m] < at + 1
        BY <2>1, <2>4, <3>1
      <3>3. Location[m] < at \/ Location[m] = at
        BY <2>1, <3>1, <3>2 DEF Locations
      <3> QED BY <3>3, <2>1, <2>2
    <2>5. at' \in 1 .. Locations
      BY <2>1 DEF Locations
    <2> QED BY <2>1, <2>2, <2>3, <2>4, <2>5 DEF In, ClassesInOrder
  <1>2. MapNearest' /\ NothingMadeBefore' /\ Progress' /\ MadeNearest'
    BY DEF NextLocation, MInv, MapNearest, NothingMadeBefore, Progress, MadeNearest, Loaded, Nearest
  <1> QED BY <1>1, <1>2 DEF MInv

\* The last class of a type is from a directory no earlier than any other.
LEMMA WinnerLast ==
    ASSUME ClassesInOrder, NEW t, Named(t) # {}
    PROVE  /\ Winner(t) \in 1 .. Len(classes) /\ ToscaType[classes[Winner(t)]] = t
           /\ \A k \in Named(t) :
                    Location[classes[k]] <= Location[classes[Winner(t)]]
  <1>1. Named(t) \subseteq 1 .. Len(classes) /\ Len(classes) \in Nat
    BY DEF ClassesInOrder, Named
  <1> DEFINE left == {n \in Nat : \E k \in Named(t) : n = Len(classes) - k}
  <1>2. left \in SUBSET Nat /\ left # {}
    <2>1. PICK k \in Named(t) : TRUE
      OBVIOUS
    <2>2. Len(classes) - k \in left
      BY <1>1
    <2> QED BY <2>2
  <1>3. Min(left) \in left /\ \A y \in left : Min(left) <= y
    BY <1>2, MinProperty
  <1>4. PICK w \in Named(t) : Min(left) = Len(classes) - w
    BY <1>3
  <1>5. \A k \in Named(t) : k <= w
    <2> SUFFICES ASSUME NEW k \in Named(t) PROVE k <= w
      OBVIOUS
    <2>1. Len(classes) - k \in left
      BY <1>1
    <2> HIDE DEF left
    <2> QED BY <1>1, <1>3, <1>4, <2>1
  <1>6. Winner(t) \in Named(t) /\ \A k \in Named(t) : k <= Winner(t)
    BY <1>4, <1>5 DEF Winner
  <1> QED BY <1>1, <1>6 DEF Named, ClassesInOrder

LEMMA FinishLoadingMInv == MInv /\ FinishLoading => MInv'
  <1> SUFFICES ASSUME MInv, FinishLoading PROVE MInv'
    OBVIOUS
  <1>1. ClassesInOrder'
    BY DEF MInv, ClassesInOrder, FinishLoading, loading, In
  <1>2. MapNearest'
    <2>1. ASSUME NEW m \in Module
          PROVE  \E k \in Named(ToscaType[m]) : classes[k] = m
      <3>1. at = Locations /\ m \notin unread /\ Location[m] \in 1 .. Locations
        BY ModulesAssumption DEF FinishLoading
      <3>2. Location[m] < at \/ Location[m] = at
        BY <3>1 DEF Locations
      <3>3. \E k \in 1 .. Len(classes) : classes[k] = m
        BY <3>1, <3>2 DEF MInv, ClassesInOrder
      <3> QED BY <3>3 DEF Named, MInv, ClassesInOrder
    <2>2. ASSUME NEW t \in DOMAIN typeMap'
          PROVE  /\ t \in Type /\ Named(t) # {} /\ typeMap'[t] = classes[Winner(t)]
                 /\ typeMap'[t] \in Module /\ ToscaType[typeMap'[t]] = t
      <3>1. t \in Type /\ Named(t) # {} /\ typeMap'[t] = classes[Winner(t)]
        BY <2>2 DEF FinishLoading
      <3>2. Winner(t) \in 1 .. Len(classes) /\ ToscaType[classes[Winner(t)]] = t
        BY <3>1, WinnerLast DEF MInv
      <3> QED BY <3>1, <3>2 DEF MInv, ClassesInOrder
    <2>3. ASSUME NEW m \in Module
          PROVE  /\ ToscaType[m] \in DOMAIN typeMap'
                 /\ Location[m] <= Location[typeMap'[ToscaType[m]]]
      <3>1. PICK k \in Named(ToscaType[m]) : classes[k] = m
        BY <2>1
      <3>2. ToscaType[m] \in Type
        BY ModulesAssumption
      <3>3. ToscaType[m] \in DOMAIN typeMap'
        BY <3>1, <3>2 DEF FinishLoading
      <3>4. Location[m] <= Location[classes[Winner(ToscaType[m])]]
        BY <3>1, WinnerLast DEF MInv
      <3> QED BY <3>3, <3>4, <2>2
    <2>4. ASSUME NEW t \in DOMAIN typeMap' PROVE Nearest(t, typeMap'[t])
      <3>1. typeMap'[t] \in Module /\ ToscaType[typeMap'[t]] = t
        BY <2>2
      <3>2. t \in Base
        BY <3>1 DEF Base
      <3> QED BY <3>1, <3>2, BaseEntry
    <2> QED BY <2>2, <2>3, <2>4 DEF MapNearest, Nearest, Base
  <1>3. NothingMadeBefore' /\ Progress' /\ MadeNearest'
    BY DEF FinishLoading, MInv, NothingMadeBefore, Progress, MadeNearest, Loaded, Nearest
  <1> QED BY <1>1, <1>2, <1>3 DEF MInv

LEMMA FailedMInv ==
    ASSUME MInv, FinishFails \/ \E m \in Module : LoadFails(m)
    PROVE  MInv'
  <1>1. /\ stage = "loading" /\ stage' = "failed"
        /\ UNCHANGED <<loading, typeMap, template, made>>
    BY DEF FinishFails, LoadFails
  <1>2. ClassesInOrder'
    BY <1>1 DEF MInv, ClassesInOrder, loading, In
  <1>3. MapNearest' /\ NothingMadeBefore' /\ Progress' /\ MadeNearest'
    BY <1>1 DEF MInv, MapNearest, NothingMadeBefore, Progress, MadeNearest, Loaded, Nearest
  <1> QED BY <1>2, <1>3 DEF MInv

-----------------------------------------------------------------------------
(* The translations.                                                       *)

LEMMA BeginTranslationMInv == MInv /\ BeginTranslation => MInv'
  <1> SUFFICES ASSUME MInv, BeginTranslation PROVE MInv'
    OBVIOUS
  <1>1. Loaded /\ Loaded' /\ typeMap' = typeMap /\ UNCHANGED loading
    BY DEF BeginTranslation, Loaded
  <1>2. template' \in Seq(Items) /\ made' = << >> /\ stage' = "translating"
    BY TemplatesAssumption DEF BeginTranslation, Items
  <1>3. ClassesInOrder'
    BY <1>1 DEF MInv, ClassesInOrder, loading, In
  <1>4. MapNearest' /\ NothingMadeBefore'
    BY <1>1 DEF MInv, MapNearest, NothingMadeBefore, Nearest
  <1>5. Progress' /\ MadeNearest'
    BY <1>2 DEF Progress, MadeNearest
  <1> QED BY <1>3, <1>4, <1>5 DEF MInv

LEMMA ItemTyped ==
    ASSUME MInv, Translating
    PROVE  Item.type \in Type
  <1>1. /\ template \in Seq(Items) /\ Len(made) < Len(template) /\ Len(made) \in Nat
    BY DEF MInv, Progress, Translating
  <1>2. template[Len(made) + 1] \in Items
    BY <1>1
  <1> QED BY <1>2 DEF Item, Items

\* One more node or policy, of a class for the nearest type.
LEMMA MakeKeeps ==
    ASSUME MInv, Loaded, Translating, UNCHANGED <<loading, template, stage>>,
           NEW class \in Module, NEW parameters \in BOOLEAN, Make(class, parameters),
           Nearest(Item.type, class)
    PROVE  ClassesInOrder' /\ NothingMadeBefore' /\ Progress' /\ MadeNearest'
  <1>1. ClassesInOrder'
    BY DEF MInv, ClassesInOrder, loading, In
  <1>2. NothingMadeBefore'
    BY DEF NothingMadeBefore, Loaded
  <1>3. /\ template \in Seq(Items) /\ made \in Seq([class: Module, parameters: BOOLEAN])
        /\ Len(made) < Len(template) /\ template' = template /\ stage' = stage
        /\ made' = Append(made, [class |-> class, parameters |-> parameters])
        /\ stage = "translating"
    BY DEF MInv, Progress, Translating, Make
  <1>4. /\ made' \in Seq([class: Module, parameters: BOOLEAN])
        /\ Len(made') = Len(made) + 1 /\ Len(made) \in Nat
        /\ made'[Len(made) + 1].class = class
        /\ \A k \in 1 .. Len(made) : made'[k] = made[k]
    BY <1>3
  <1>5. Progress'
    BY <1>3, <1>4 DEF Progress
  <1>6. ASSUME NEW k \in 1 .. Len(made') PROVE Nearest(template'[k].type, made'[k].class)
    <2>1. CASE k = Len(made) + 1
      BY <2>1, <1>3, <1>4 DEF Item
    <2>2. CASE k \in 1 .. Len(made)
      BY <2>2, <1>3, <1>4 DEF MInv, MadeNearest
    <2> QED BY <2>1, <2>2, <1>4
  <1>7. MadeNearest'
    BY <1>6 DEF MadeNearest, Nearest
  <1> QED BY <1>1, <1>2, <1>5, <1>7

LEMMA TranslateNodeMInv == MInv /\ TranslateNode => MInv'
  <1> SUFFICES ASSUME MInv, TranslateNode PROVE MInv'
    OBVIOUS
  <1>1. /\ Loaded /\ Translating /\ Steps(Item.type) # {}
        /\ UNCHANGED <<loading, template, stage, typeMap>>
        /\ Make(typeMap[Supported(Item.type)], FALSE)
    BY DEF TranslateNode, Translating, Loaded
  <1>2. Item.type \in Type
    BY <1>1, ItemTyped
  <1>3. /\ typeMap[Supported(Item.type)] \in Module
        /\ Nearest(Item.type, typeMap[Supported(Item.type)])
    BY <1>1, <1>2, SupportedNearest DEF MInv
  <1>4. ClassesInOrder' /\ NothingMadeBefore' /\ Progress' /\ MadeNearest'
    BY <1>1, <1>3, MakeKeeps
  <1>5. MapNearest'
    BY <1>1 DEF MInv, MapNearest, Loaded, Nearest
  <1> QED BY <1>4, <1>5 DEF MInv

LEMMA TranslatePolicyMInv == MInv /\ TranslatePolicy => MInv'
  <1> SUFFICES ASSUME MInv, TranslatePolicy PROVE MInv'
    OBVIOUS
  <1> DEFINE own == Item.type
  <1>1. /\ Loaded /\ Translating /\ Steps(own) # {} /\ own \in DOMAIN Registered(own)
        /\ UNCHANGED <<loading, template, stage>> /\ typeMap' = Registered(own)
        /\ Make(Registered(own)[own], GetsParameters(own))
    BY DEF TranslatePolicy, Translating, Loaded
  <1>2. own \in Type
    BY <1>1, ItemTyped
  <1>3. /\ DOMAIN typeMap \subseteq DOMAIN typeMap'
        /\ DOMAIN typeMap' \subseteq DOMAIN typeMap \cup {own}
        /\ \A t \in DOMAIN typeMap : typeMap'[t] = typeMap[t]
        /\ typeMap'[own] = typeMap[Supported(own)]
    BY <1>1, <1>2, RegisteredKeeps DEF MInv
  <1>4. typeMap[Supported(own)] \in Module /\ Nearest(own, typeMap[Supported(own)])
    BY <1>1, <1>2, SupportedNearest DEF MInv
  <1>5. GetsParameters(own) \in BOOLEAN
    BY DEF GetsParameters
  <1>6. ClassesInOrder' /\ NothingMadeBefore' /\ Progress' /\ MadeNearest'
    BY <1>1, <1>3, <1>4, <1>5, MakeKeeps
  <1>7. MapNearest'
    <2>1. Base \subseteq DOMAIN typeMap'
      BY <1>1, <1>3 DEF MInv, MapNearest
    <2>2. \A m \in Module : Location[m] <= Location[typeMap'[ToscaType[m]]]
      BY <1>1, <1>3 DEF MInv, MapNearest, Base
    <2>3. \A t \in DOMAIN typeMap' :
                t \in Type /\ typeMap'[t] \in Module /\ Nearest(t, typeMap'[t])
      BY <1>1, <1>2, <1>3, <1>4 DEF MInv, MapNearest
    <2> QED BY <2>1, <2>2, <2>3 DEF MapNearest, Nearest, Base
  <1> QED BY <1>6, <1>7 DEF MInv

LEMMA EndMInv ==
    ASSUME MInv, TranslationFails \/ EndTranslation
    PROVE  MInv'
  <1>1. /\ stage = "translating" /\ stage' = "idle"
        /\ UNCHANGED <<loading, typeMap, template, made>>
    BY DEF TranslationFails, EndTranslation, Translating
  <1>2. ClassesInOrder'
    BY <1>1 DEF MInv, ClassesInOrder, loading, In
  <1>3. MapNearest' /\ NothingMadeBefore' /\ Progress' /\ MadeNearest'
    BY <1>1 DEF MInv, MapNearest, NothingMadeBefore, Progress, MadeNearest, Loaded, Nearest
  <1> QED BY <1>2, <1>3 DEF MInv

LEMMA StutterMInv == MInv /\ UNCHANGED vars => MInv'
  BY DEF MInv, ClassesInOrder, MapNearest, NothingMadeBefore, Progress, MadeNearest,
         Loaded, Nearest, In, vars, loading

LEMMA StepMInv == MInv /\ [Next]_vars => MInv'
  <1> SUFFICES ASSUME MInv, [Next]_vars PROVE MInv'
    OBVIOUS
  <1>1. ASSUME NEW m \in Module, LoadClass(m) PROVE MInv'
    BY <1>1, LoadClassMInv
  <1>2. CASE NextLocation
    BY <1>2, NextLocationMInv
  <1>3. CASE FinishLoading
    BY <1>3, FinishLoadingMInv
  <1>4. CASE FinishFails \/ \E m \in Module : LoadFails(m)
    BY <1>4, FailedMInv
  <1>5. CASE BeginTranslation
    BY <1>5, BeginTranslationMInv
  <1>6. CASE TranslateNode
    BY <1>6, TranslateNodeMInv
  <1>7. CASE TranslatePolicy
    BY <1>7, TranslatePolicyMInv
  <1>8. CASE TranslationFails \/ EndTranslation
    BY <1>8, EndMInv
  <1>9. CASE UNCHANGED vars
    BY <1>9, StutterMInv
  <1> QED BY <1>1, <1>2, <1>3, <1>4, <1>5, <1>6, <1>7, <1>8, <1>9 DEF Next

-----------------------------------------------------------------------------
(* Theorems.                                                               *)

LEMMA SpecMInv == Spec => []MInv
  BY InitMInv, StepMInv, PTL DEF Spec

\* The state of the map has its type: every entry is a TOSCA type with a class.
THEOREM TypeMapTypeCorrect == Spec => []TypeOK
  <1>1. ASSUME MInv PROVE TypeOK
    <2>1. \A k \in DOMAIN classes : classes[k] \in Module
      BY <1>1 DEF MInv, ClassesInOrder
    <2>2. unread \subseteq Module
      BY <1>1 DEF MInv, ClassesInOrder, In
    <2>3. \A t \in DOMAIN typeMap : t \in Type /\ typeMap[t] \in Module
      <3>1. CASE Loaded
        BY <1>1, <3>1 DEF MInv, MapNearest
      <3>2. CASE ~ Loaded
        BY <1>1, <3>2 DEF MInv, NothingMadeBefore
      <3> QED BY <3>1, <3>2
    <2> QED BY <1>1, <2>1, <2>2, <2>3 DEF TypeOK, MInv, ClassesInOrder, Progress
  <1> QED BY <1>1, SpecMInv, PTL

\* A class of the configured directory decides in every translation.
THEOREM CustomClassesDecide == Spec => []CustomDecides
  <1>1. ASSUME MInv PROVE CustomDecides
    BY <1>1 DEF MInv, MapNearest, CustomDecides, Base
  <1> QED BY <1>1, SpecMInv, PTL

\* Whatever was registered, the class is one for the nearest supported type.
THEOREM NearestClassDecides == Spec => []NearestDecides
  <1>1. ASSUME MInv PROVE NearestDecides
    BY <1>1 DEF MInv, MadeNearest, NearestDecides, Progress
  <1> QED BY <1>1, SpecMInv, PTL

=============================================================================
