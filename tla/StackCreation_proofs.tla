------------------------- MODULE StackCreation_proofs -------------------------
(***************************************************************************)
(* Proofs about NodeTranslation, for every number of nodes, every bound on *)
(* the requirements and every set of well-formed templates, about          *)
(* PropertyPass, which has more passes over the same resources, and about  *)
(* StackCreation, which adds Heat.                                         *)
(*                                                                         *)
(* Two inductive invariants: IInv, of types and of the order that keeps    *)
(* depends_on without a cycle, and on top of it OrderInv, of what is in    *)
(* the list of resources and what each of them waits for.  The passes of   *)
(* PropertyPass keep both; invariants of their own, of the walk, of the    *)
(* binary insertion, of the ports that were handled, of what depends_on    *)
(* may hold and of what the output refers to, give the theorems on its     *)
(* output.                                                                 *)
(*                                                                         *)
(* For the templates of Hostable the search for the hosting server finds   *)
(* the servers of HostsIn: HostInv says where every deployment runs in     *)
(* every pass.  With the order of the dependencies that places the output  *)
(* under the abstract specification: the safety half of                    *)
(* ImplementsOrchestration.                                                *)
(***************************************************************************)
EXTENDS StackCreation, SequenceLemmas, FiniteSetTheorems

-----------------------------------------------------------------------------
(* Facts about the template.                                               *)

\* The template being translated is well-formed; its requirements point to
\* nodes with a smaller number.
LEMMA TemplateFacts ==
    ASSUME tpl \in Templates
    PROVE  /\ tpl \in Template
           /\ \A i \in 1..Len(tpl.listing) : tpl.listing[i] \in Node
           /\ \A n \in Node :
                /\ Declared(n) \subseteq Operation
                /\ tpl.reqs[n] \in Seq(Requirement)
                /\ \A q \in DOMAIN tpl.reqs[n] :
                    /\ q \in 1..MaxRequirements
                    /\ Target(n, q) \in Node /\ Target(n, q) < n
<1>1. WellFormed(tpl)
  BY TemplatesAssumption
<1>2. tpl \in Template
  BY <1>1 DEF WellFormed
<1>3. \A i \in 1..Len(tpl.listing) : tpl.listing[i] \in Node
  <2>1. tpl.listing \in Seq(Node)
    BY <1>2 DEF Template
  <2> QED
    BY <2>1
<1>4. ASSUME NEW n \in Node
      PROVE  /\ Declared(n) \subseteq Operation
             /\ tpl.reqs[n] \in Seq(Requirement)
             /\ \A q \in DOMAIN tpl.reqs[n] :
                  /\ q \in 1..MaxRequirements
                  /\ Target(n, q) \in Node /\ Target(n, q) < n
  <2>1. tpl.ops[n] \in Seq(Operation) /\ tpl.reqs[n] \in Seq(Requirement)
    BY <1>2 DEF Template
  <2>2. Declared(n) \subseteq Operation
    BY <2>1 DEF Declared, ToSet
  <2>3. ASSUME NEW q \in DOMAIN tpl.reqs[n]
        PROVE  /\ q \in 1..MaxRequirements
               /\ Target(n, q) \in Node /\ Target(n, q) < n
    <3>1. q \in 1..Len(tpl.reqs[n])
      BY <2>1
    <3>2. tpl.reqs[n][q] \in Requirement
      BY <2>1, <3>1
    <3>3. Len(tpl.reqs[n]) <= MaxRequirements /\ tpl.reqs[n][q].target < n
      BY <1>1, <3>1 DEF WellFormed
    <3> QED
      BY <2>1, <3>1, <3>2, <3>3, BoundsAssumption DEF Requirement, Target
  <2> QED
    BY <2>1, <2>2, <2>3
<1> QED
  BY <1>2, <1>3, <1>4

-----------------------------------------------------------------------------
(* Facts about resources and their attributes.                             *)

\* The resources of a node are resources, and they know their node.
LEMMA ResourceFacts ==
    ASSUME NEW n \in Node
    PROVE  /\ Main(n) \in Resource /\ Main(n).node = n /\ Main(n).part = "main"
           /\ Roles(n) \in Resource /\ Roles(n).node = n
           /\ Roles(n).part = "roles"
           /\ \A q \in 1..MaxRequirements :
                /\ Connect(n, q) \in Resource /\ Connect(n, q).node = n
                /\ Connect(n, q).part = "connect"
                /\ Attachment(n, q) \in Resource
           /\ \A op \in Operation :
                /\ OpDeploy(n, op) \in Resource /\ OpDeploy(n, op).node = n
                /\ OpDeploy(n, op).part \in Operation \cup {"main"}
  BY DEF Main, Roles, Connect, Attachment, OpDeploy, Resource, Operation

\* Each resource belongs to a node.
LEMMA ResourceNode == \A r \in Resource : r.node \in Node
  BY DEF Resource

\* A node that declares operations has a last one.
LEMMA LastOpFacts ==
    ASSUME NEW n \in Node, Declared(n) \subseteq Operation, Declared(n) # {}
    PROVE  LastOp(n) \in Declared(n)
<1>1. \A op \in Operation : OpIndex[op] \in 0..2
  BY DEF OpIndex, Operation
<1>2. \E op \in Declared(n) : \A o \in Declared(n) : OpIndex[o] <= OpIndex[op]
  <2>1. CASE "start" \in Declared(n)
    BY <2>1, <1>1 DEF OpIndex, Operation
  <2>2. CASE "start" \notin Declared(n) /\ "configure" \in Declared(n)
    BY <2>2, <1>1 DEF OpIndex, Operation
  <2>3. CASE "start" \notin Declared(n) /\ "configure" \notin Declared(n)
    BY <2>3, <1>1 DEF OpIndex, Operation
  <2> QED
    BY <2>1, <2>2, <2>3
<1> QED
  BY <1>2 DEF LastOp

\* A node that declares operations has a first one.
LEMMA FirstOpFacts ==
    ASSUME NEW n \in Node, Declared(n) \subseteq Operation, Declared(n) # {}
    PROVE  /\ FirstOp(n) \in Declared(n)
           /\ \A o \in Declared(n) : OpIndex[FirstOp(n)] <= OpIndex[o]
<1>1. \A op \in Operation : OpIndex[op] \in 0..2
  BY DEF OpIndex, Operation
<1>2. \E op \in Declared(n) : \A o \in Declared(n) : OpIndex[op] <= OpIndex[o]
  <2>1. CASE "create" \in Declared(n)
    BY <2>1, <1>1 DEF OpIndex, Operation
  <2>2. CASE "create" \notin Declared(n) /\ "configure" \in Declared(n)
    BY <2>2, <1>1 DEF OpIndex, Operation
  <2>3. CASE "create" \notin Declared(n) /\ "configure" \notin Declared(n)
    BY <2>3, <1>1 DEF OpIndex, Operation
  <2> QED
    BY <2>1, <2>2, <2>3
<1> QED
  BY <1>2 DEF FirstOp

\* The attributes that the passes give a deployment have the right type, and
\* name Compute nodes that the search found, or the node itself.
LEMMA DeploymentFacts ==
    ASSUME tpl \in Templates, NEW v \in Node
    PROVE  /\ Deployment(v) \in HotAttributes
           /\ \/ Deployment(v).server \in ServerValue
              \/ /\ Deployment(v).server = Absent
                 /\ Deployment(v).servers \in ServerValue
           /\ \A s \in ServersOf(Deployment(v)) :
                s \in Node /\ s < v /\ tpl.kind[s] = "compute"
<1> DEFINE found == {Target(v, q) : q \in Containers(v)}
<1>1. /\ found \in SUBSET Node
      /\ \A s \in found : s < v /\ tpl.kind[s] = "compute"
  BY TemplateFacts DEF Containers, IsContainer
<1> HIDE DEF found
<1>2. \A S \in SUBSET Node : Reference(S) \in ServerValue /\ ServerMap(S) \in ServerValue
  BY DEF ServerMap, Reference, ServerValue
<1>3. \/ Deployment(v) = [Blank(SD) EXCEPT !.server = ServerMap({})]
      \/ Deployment(v) = [Blank(SD) EXCEPT !.server = Reference(found)]
      \/ Deployment(v) = [Blank(SDGroup) EXCEPT !.servers = ServerMap(found)]
  BY DEF Deployment, found
<1>4. CASE Deployment(v) = [Blank(SD) EXCEPT !.server = ServerMap({})]
  BY <1>2, <1>4 DEF Blank, HotAttributes, HotType, ServersOf, ServerMap
<1>5. CASE Deployment(v) = [Blank(SD) EXCEPT !.server = Reference(found)]
  BY <1>1, <1>2, <1>5 DEF Blank, HotAttributes, HotType, ServersOf, Reference
<1>6. CASE Deployment(v) = [Blank(SDGroup) EXCEPT !.servers = ServerMap(found)]
  BY <1>1, <1>2, <1>6 DEF Blank, HotAttributes, HotType, ServersOf, ServerMap
<1> QED
  BY <1>3, <1>4, <1>5, <1>6

\* The same for a deployment of a node's operation: it may name the node.
LEMMA OpDeploymentFacts ==
    ASSUME tpl \in Templates, NEW n \in Node, NEW v \in Node
    PROVE  /\ OpDeployment(n, v) \in HotAttributes
           /\ \/ OpDeployment(n, v).server \in ServerValue
              \/ /\ OpDeployment(n, v).server = Absent
                 /\ OpDeployment(n, v).servers \in ServerValue
           /\ \A s \in ServersOf(OpDeployment(n, v)) :
                /\ s \in Node /\ tpl.kind[s] = "compute"
                /\ s < v \/ s = n
<1>1. CASE Containers(v) = {} /\ tpl.kind[n] = "compute"
  <2>1. OpDeployment(n, v) = [Blank(SD) EXCEPT !.server = Reference({n})]
    BY <1>1 DEF OpDeployment
  <2>2. Reference({n}) \in ServerValue /\ Reference({n}).servers = {n}
    BY DEF Reference, ServerValue
  <2> QED
    BY <1>1, <2>1, <2>2 DEF Blank, HotAttributes, HotType, ServersOf
<1>2. CASE ~ (Containers(v) = {} /\ tpl.kind[n] = "compute")
  BY <1>2, DeploymentFacts DEF OpDeployment
<1> QED
  BY <1>1, <1>2

\* And for the deployment of the roles, which copies the servers.
LEMMA RolesDeploymentFacts ==
    ASSUME NEW d \in HotAttributes,
           \/ d.server \in ServerValue
           \/ d.server = Absent /\ d.servers \in ServerValue
    PROVE  /\ RolesDeployment(d) \in HotAttributes
           /\ ServersOf(RolesDeployment(d)) \subseteq ServersOf(d)
<1> DEFINE value == IF d.server = Absent THEN d.servers ELSE d.server
<1>1. /\ value \in ServerValue /\ value \in {d.server, d.servers} \ {Absent}
  BY SentinelAssumption
<1>2. \/ RolesDeployment(d) = [Blank(SD) EXCEPT !.server = value]
      \/ RolesDeployment(d) = [Blank(SDGroup) EXCEPT !.servers = value]
  BY DEF RolesDeployment
<1> HIDE DEF value
<1>3. RolesDeployment(d) \in HotAttributes
  BY <1>1, <1>2 DEF Blank, HotAttributes, HotType
<1>4. ServersOf(RolesDeployment(d)) \subseteq value.servers
  BY <1>1, <1>2 DEF Blank, ServersOf
<1>5. value.servers \subseteq ServersOf(d)
  BY <1>1 DEF ServersOf
<1> QED
  BY <1>3, <1>4, <1>5

-----------------------------------------------------------------------------
(* The inductive invariant.                                                *)

\* A nested call of _get_hosting_server reads a node below the one whose
\* search it is part of.
SearchDescends ==
    visiting # NoNode =>
        /\ phase \in {"lifecycle", "connect"}
        /\ phase = "lifecycle" => visiting < AtResource.node
        /\ phase = "connect" => visiting < AtNode

\* group_dependencies and last_deploy_map do not leave a node.
LinksStayInNode ==
    /\ \A r \in Resource : chain[r].node = r.node
    /\ \A n \in Node : lastDeploy[n] # NoResource => lastDeploy[n].node = n

\* A server property names Compute nodes of a smaller number, or the Compute
\* itself, of a resource that is not that Compute's main resource.
ServersBelow ==
    \A r \in Resource : \A s \in RunsOn(r) :
        /\ s \in Node /\ tpl.kind[s] = "compute"
        /\ s < r.node \/ (s = r.node /\ r.part # "main")

DependenciesBelow ==
    \A r \in Resource : \A d \in ToSet(dependsOnNodes[r]) : Rank(d) < Rank(r)

\* The two lists of a connect deployment are one object.
ConnectAliased ==
    \A r \in Resource : r.part = "connect" => dependsOn[r] = dependsOnNodes[r]

IInv ==
    /\ tpl \in Templates
    /\ TypeOK
    /\ SearchDescends
    /\ LinksStayInNode
    /\ ServersBelow
    /\ DependenciesBelow
    /\ ConnectAliased
    /\ NodesCoverDependencies

\* The data that only some of the actions touch.
data == <<tpl, resources, expanded, hot, links>>

\* The data part of TypeOK.
DataTypeOK ==
    /\ resources \in Seq(Resource) /\ expanded \in Seq(Resource)
    /\ hot \in [Resource -> HotAttributes]
    /\ dependsOn \in [Resource -> Seq(Resource)]
    /\ dependsOnNodes \in [Resource -> Seq(Resource)]
    /\ chain \in [Resource -> Resource]
    /\ lastDeploy \in [Node -> Resource \cup {NoResource}]

CursorTypeOK ==
    /\ phase \in Phase /\ pos \in Nat \ {0} /\ req \in Nat
    /\ visiting \in Node \cup {NoNode}

\* TypeOK, in the parts that the steps below treat separately.
LEMMA TypeParts ==
    /\ TypeOK <=> tpl \in Template /\ CursorTypeOK /\ DataTypeOK
    /\ TypeOK' <=> (tpl \in Template)' /\ CursorTypeOK' /\ DataTypeOK'
  BY DEF TypeOK, CursorTypeOK, DataTypeOK

\* A pass moves its cursor without a search under way.
LEMMA CursorSteps ==
    ASSUME CursorTypeOK,
           \/ NextPosition
           \/ NextRequirement
           \/ \E p \in Phase : EnterPhase(p)
    PROVE  CursorTypeOK' /\ SearchDescends'
  BY DEF CursorTypeOK, NextPosition, NextRequirement, EnterPhase,
         SearchDescends

\* A step that does not touch the dependencies keeps what is said of them.
LEMMA KeepLinks ==
    ASSUME IInv, UNCHANGED <<tpl, links>>
    PROVE  /\ LinksStayInNode' /\ DependenciesBelow' /\ ConnectAliased'
           /\ NodesCoverDependencies'
<1>1. UNCHANGED <<tpl, dependsOn, dependsOnNodes, chain, lastDeploy>>
  BY DEF links
<1>2. LinksStayInNode'
  BY <1>1 DEF IInv, LinksStayInNode
<1>3. DependenciesBelow'
  BY <1>1 DEF IInv, DependenciesBelow, Rank, PartRank
<1>4. ConnectAliased'
  BY <1>1 DEF IInv, ConnectAliased
<1>5. NodesCoverDependencies'
  BY <1>1 DEF IInv, NodesCoverDependencies
<1> QED
  BY <1>2, <1>3, <1>4, <1>5

\* A step that does not touch the attributes keeps what is said of servers.
LEMMA KeepServers ==
    ASSUME IInv, UNCHANGED <<tpl, hot>>
    PROVE  ServersBelow'
  BY DEF IInv, ServersBelow, RunsOn

\* A step that only moves cursors keeps the rest of the invariant.
LEMMA IdleStep ==
    ASSUME IInv, UNCHANGED data, CursorTypeOK', SearchDescends'
    PROVE  IInv'
<1>1. UNCHANGED <<tpl, hot>> /\ UNCHANGED <<tpl, links>>
  BY DEF data
<1>2. TypeOK'
  BY TypeParts DEF IInv, DataTypeOK, data, links
<1> QED
  BY <1>1, <1>2, KeepLinks, KeepServers DEF IInv

\* The initial state.
LEMMA InitIInv == Init => IInv
<1> SUFFICES ASSUME Init PROVE IInv
  OBVIOUS
<1> USE DEF Init
<1>1. TypeOK
  <2>1. tpl \in Template
    BY TemplateFacts
  <2>2. Blank("None") \in HotAttributes
    BY DEF Blank, HotAttributes, HotType
  <2> QED
    BY <2>1, <2>2 DEF TypeOK, Phase, NoNode
<1>2. ServersBelow
  BY DEF ServersBelow, RunsOn, ServersOf, Blank
<1>3. \A r \in Resource : ToSet(dependsOn[r]) = {}
  BY DEF ToSet
<1> QED
  BY <1>1, <1>2, <1>3
     DEF IInv, SearchDescends, LinksStayInNode, DependenciesBelow,
         ConnectAliased, NodesCoverDependencies

\* AtNode and AtResource, where a pass reads them.
LEMMA AtFacts ==
    ASSUME IInv
    PROVE  /\ pos <= Len(tpl.listing) => AtNode \in Node
           /\ pos <= Len(resources) => AtResource \in Resource
<1>1. tpl.listing \in Seq(Node) /\ pos \in Nat \ {0} /\ resources \in Seq(Resource)
  BY DEF IInv, TypeOK, Template
<1> QED
  BY <1>1 DEF AtNode, AtResource

\* A new resource without servers joins the list: CopyNode, AttachVolume.
LEMMA NewResourceStep ==
    ASSUME IInv, NEW r \in Resource, NEW type \in HotType,
           resources' = Append(resources, r),
           hot' = [hot EXCEPT ![r] = Blank(type)],
           CursorTypeOK', SearchDescends',
           UNCHANGED <<tpl, expanded, links>>
    PROVE  IInv'
<1>1. Blank(type) \in HotAttributes /\ ServersOf(Blank(type)) = {}
  BY DEF Blank, HotAttributes, ServersOf
<1>2. TypeOK'
  BY <1>1, TypeParts DEF IInv, DataTypeOK, links
<1>3. ServersBelow'
  <2>1. ASSUME NEW x \in Resource
        PROVE  RunsOn(x)' = IF x = r THEN {} ELSE RunsOn(x)
    BY <1>1 DEF RunsOn, IInv, TypeOK
  <2> QED
    BY <2>1 DEF IInv, ServersBelow
<1> QED
  BY <1>2, <1>3, KeepLinks DEF IInv

\* Pass "nodes".
LEMMA NodesStep ==
    ASSUME IInv, CopyNode \/ AttachVolume
    PROVE  IInv'
<1>0. CursorTypeOK
  BY TypeParts DEF IInv
<1>1. CASE CopyNode
  <2>1. AtNode \in Node
    BY <1>1, AtFacts DEF CopyNode
  <2>2. MainType(AtNode) \in HotType
    BY DEF MainType, HotType
  <2>3. CursorTypeOK' /\ SearchDescends'
    BY <1>0, <1>1, CursorSteps DEF CopyNode
  <2> QED
    BY <1>1, <2>1, <2>2, <2>3, ResourceFacts, NewResourceStep DEF CopyNode
<1>2. CASE AttachVolume
  <2>1. AtNode \in Node
    BY <1>2, AtFacts DEF AttachVolume, AtRequirement
  <2>2. req \in 1..MaxRequirements
    <3>1. tpl.reqs[AtNode] \in Seq(Requirement)
      BY <2>1, TemplateFacts DEF IInv
    <3>2. req \in DOMAIN tpl.reqs[AtNode]
      BY <3>1, <1>2 DEF AttachVolume, AtRequirement
    <3> QED
      BY <2>1, <3>2, TemplateFacts DEF IInv
  <2>3. CursorTypeOK' /\ SearchDescends'
    BY <1>0, <1>2, CursorSteps DEF AttachVolume
  <2>4. "OS::Cinder::VolumeAttachment" \in HotType
    BY DEF HotType
  <2> QED
    BY <1>2, <2>1, <2>2, <2>3, <2>4, ResourceFacts, NewResourceStep
       DEF AttachVolume
<1> QED
  BY <1>1, <1>2

\* A nested call of _get_hosting_server goes to a smaller node.
LEMMA FollowStep ==
    ASSUME IInv, FollowLifeCycleHosting \/ FollowConnectHosting
    PROVE  IInv'
<1> DEFINE own == IF phase = "lifecycle" THEN AtResource.node ELSE ConnectEnd
           top == IF phase = "lifecycle" THEN AtResource.node ELSE AtNode
<1>1. /\ phase \in {"lifecycle", "connect"}
      /\ own \in Node /\ top \in Node /\ own <= top
      /\ FollowHosting(own)
  <2>1. CASE FollowLifeCycleHosting
    <3>1. AtResource \in Resource /\ phase = "lifecycle"
      BY <2>1, AtFacts DEF FollowLifeCycleHosting
    <3>2. AtResource.node \in Node
      BY <3>1, ResourceNode
    <3> QED
      BY <2>1, <3>1, <3>2 DEF FollowLifeCycleHosting, Node
  <2>2. CASE FollowConnectHosting
    <3>1. AtNode \in Node /\ phase = "connect" /\ req \in 1..Len(tpl.reqs[AtNode])
      BY <2>2, AtFacts DEF FollowConnectHosting, AtRequirement
    <3>2. req \in DOMAIN tpl.reqs[AtNode]
      BY <3>1, TemplateFacts DEF IInv
    <3>3. Target(AtNode, req) \in Node /\ Target(AtNode, req) < AtNode
      BY <3>1, <3>2, TemplateFacts DEF IInv
    <3> QED
      BY <2>2, <3>1, <3>3 DEF FollowConnectHosting, ConnectEnd, Node
  <2> QED
    BY <2>1, <2>2
<1>2. Visited(own) \in Node /\ Visited(own) <= top
  BY <1>1 DEF Visited, IInv, SearchDescends, TypeOK, Node
<1>3. visiting' \in Node /\ visiting' < top
  <2> HIDE DEF own, top
  <2>1. PICK q \in DOMAIN tpl.reqs[Visited(own)] :
            visiting' = Target(Visited(own), q)
    BY <1>1 DEF FollowHosting
  <2>2. Target(Visited(own), q) \in Node /\ Target(Visited(own), q) < Visited(own)
    BY <1>2, <2>1, TemplateFacts DEF IInv
  <2> QED
    BY <1>1, <1>2, <2>1, <2>2 DEF Node
<1>4. UNCHANGED <<phase, pos, req, data>>
  BY <1>1 DEF FollowHosting, data
<1>5. CursorTypeOK'
  BY <1>3, <1>4, TypeParts DEF IInv, CursorTypeOK
<1>6. SearchDescends'
  BY <1>1, <1>3, <1>4 DEF SearchDescends, AtNode, AtResource, data
<1> QED
  BY <1>4, <1>5, <1>6, IdleStep

\* The deployment of an operation comes after that of an operation before it
\* in the sequence, and all come after the roles.
LEMMA OpDeployRank ==
    ASSUME tpl \in Templates, NEW n \in Node, NEW later \in Declared(n)
    PROVE  /\ Rank(Roles(n)) < Rank(OpDeploy(n, later))
           /\ \A op \in Declared(n) :
                OpIndex[op] < OpIndex[later] =>
                    Rank(OpDeploy(n, op)) < Rank(OpDeploy(n, later))
<1>1. Declared(n) \subseteq Operation /\ Declared(n) # {}
  BY TemplateFacts
<1>2. \A op \in Operation : OpIndex[op] \in 0..2
  BY DEF OpIndex, Operation
<1>3. \A op \in Declared(n) :
        Rank(OpDeploy(n, op)) =
            10 * n + (IF tpl.kind[n] # "compute" /\ op = FirstOp(n)
                      THEN 3 ELSE 4 + OpIndex[op])
  BY <1>1 DEF Rank, PartRank, OpDeploy, Main, Operation
<1>4. Rank(Roles(n)) = 10 * n + 2
  BY DEF Rank, PartRank, Roles, Operation
<1>5. \A o \in Declared(n) : OpIndex[FirstOp(n)] <= OpIndex[o]
  BY <1>1, FirstOpFacts
<1>6. FirstOp(n) \in Declared(n)
  BY <1>1, FirstOpFacts
<1>7. Rank(Roles(n)) < Rank(OpDeploy(n, later))
  BY <1>1, <1>2, <1>3, <1>4 DEF Node
<1>8. ASSUME NEW op \in Declared(n), OpIndex[op] < OpIndex[later]
      PROVE  Rank(OpDeploy(n, op)) < Rank(OpDeploy(n, later))
  <2>1. OpIndex[op] \in 0..2 /\ OpIndex[later] \in 0..2
    BY <1>1, <1>2
  <2>2. later # FirstOp(n)
    BY <1>5, <1>8, <2>1
  <2> QED
    BY <1>3, <1>8, <2>1, <2>2 DEF Node
<1> QED
  BY <1>7, <1>8

\* What handle_life_cycle makes a resource depend on is a resource before it,
\* and the resource is not a connect deployment.
LEMMA LifeCycleDependenciesFacts ==
    ASSUME tpl \in Templates, NEW n \in Node, NEW r \in Resource,
           NEW x \in LifeCycleDependencies(n, r)
    PROVE  x \in Resource /\ Rank(x) < Rank(r) /\ r.part # "connect"
<1>1. Declared(n) \subseteq Operation
  BY TemplateFacts
<1>2. \A op \in Declared(n) :
        /\ OpDeploy(n, op) \in Resource /\ OpDeploy(n, op).part # "connect"
  BY <1>1, ResourceFacts DEF Operation
<1>3. CASE \E o, later \in Declared(n) :
                /\ x = OpDeploy(n, o) /\ r = OpDeploy(n, later)
                /\ FollowsDirectly(n, o, later)
  BY <1>2, <1>3, OpDeployRank DEF FollowsDirectly
<1>4. CASE /\ x = Roles(n) /\ Declared(n) # {}
           /\ r = OpDeploy(n, FirstOp(n))
  <2>1. FirstOp(n) \in Declared(n)
    BY <1>1, <1>4, FirstOpFacts
  <2> QED
    BY <1>2, <1>4, <2>1, OpDeployRank, ResourceFacts
<1> QED
  BY <1>3, <1>4 DEF LifeCycleDependencies

\* handle_life_cycle adds the same dependency to both lists of a resource.
LEMMA AppendLifeCycleFacts ==
    ASSUME IInv, NEW n \in Node,
           dependsOn' = AppendLifeCycle(n, dependsOn),
           dependsOnNodes' = AppendLifeCycle(n, dependsOnNodes),
           UNCHANGED tpl
    PROVE  /\ dependsOn' \in [Resource -> Seq(Resource)]
           /\ dependsOnNodes' \in [Resource -> Seq(Resource)]
           /\ DependenciesBelow' /\ ConnectAliased' /\ NodesCoverDependencies'
<1>0. /\ tpl \in Templates
      /\ dependsOn \in [Resource -> Seq(Resource)]
      /\ dependsOnNodes \in [Resource -> Seq(Resource)]
  BY DEF IInv, TypeOK
<1>1. ASSUME NEW r \in Resource
      PROVE  \/ /\ dependsOn'[r] = dependsOn[r]
                /\ dependsOnNodes'[r] = dependsOnNodes[r]
             \/ \E x \in Resource :
                /\ Rank(x) < Rank(r) /\ r.part # "connect"
                /\ dependsOn'[r] = Append(dependsOn[r], x)
                /\ dependsOnNodes'[r] = Append(dependsOnNodes[r], x)
  <2>1. CASE LifeCycleDependencies(n, r) = {}
    BY <2>1 DEF AppendLifeCycle
  <2>2. CASE LifeCycleDependencies(n, r) # {}
    <3> DEFINE x == CHOOSE y \in LifeCycleDependencies(n, r) : TRUE
    <3>1. x \in LifeCycleDependencies(n, r)
      BY <2>2
    <3>2. /\ dependsOn'[r] = Append(dependsOn[r], x)
          /\ dependsOnNodes'[r] = Append(dependsOnNodes[r], x)
      BY <2>2 DEF AppendLifeCycle
    <3> HIDE DEF x
    <3> QED
      BY <1>0, <3>1, <3>2, LifeCycleDependenciesFacts
  <2> QED
    BY <2>1, <2>2
<1>2. /\ dependsOn' \in [Resource -> Seq(Resource)]
      /\ dependsOnNodes' \in [Resource -> Seq(Resource)]
  <2>1. /\ DOMAIN dependsOn' = Resource /\ DOMAIN dependsOnNodes' = Resource
        /\ dependsOn' = [r \in Resource |-> dependsOn'[r]]
        /\ dependsOnNodes' = [r \in Resource |-> dependsOnNodes'[r]]
    BY DEF AppendLifeCycle
  <2>2. ASSUME NEW r \in Resource
        PROVE  /\ dependsOn'[r] \in Seq(Resource)
               /\ dependsOnNodes'[r] \in Seq(Resource)
    <3>1. dependsOn[r] \in Seq(Resource) /\ dependsOnNodes[r] \in Seq(Resource)
      BY <1>0
    <3> QED
      BY <1>1, <3>1, AppendElements
  <2> QED
    BY <2>1, <2>2
<1>3. ASSUME NEW r \in Resource
      PROVE  /\ \A d \in ToSet(dependsOnNodes'[r]) : Rank(d) < Rank(r)
             /\ ToSet(dependsOn'[r]) \subseteq ToSet(dependsOnNodes'[r])
             /\ r.part = "connect" => dependsOn'[r] = dependsOnNodes'[r]
  <2>1. /\ \A d \in ToSet(dependsOnNodes[r]) : Rank(d) < Rank(r)
        /\ ToSet(dependsOn[r]) \subseteq ToSet(dependsOnNodes[r])
        /\ r.part = "connect" => dependsOn[r] = dependsOnNodes[r]
        /\ dependsOn[r] \in Seq(Resource) /\ dependsOnNodes[r] \in Seq(Resource)
    BY <1>0 DEF IInv, DependenciesBelow, ConnectAliased, NodesCoverDependencies
  <2>2. CASE /\ dependsOn'[r] = dependsOn[r]
             /\ dependsOnNodes'[r] = dependsOnNodes[r]
    BY <2>1, <2>2
  <2>3. ASSUME NEW x \in Resource,
               Rank(x) < Rank(r) /\ r.part # "connect",
               dependsOn'[r] = Append(dependsOn[r], x),
               dependsOnNodes'[r] = Append(dependsOnNodes[r], x)
        PROVE  /\ \A d \in ToSet(dependsOnNodes'[r]) : Rank(d) < Rank(r)
               /\ ToSet(dependsOn'[r]) \subseteq ToSet(dependsOnNodes'[r])
               /\ r.part = "connect" => dependsOn'[r] = dependsOnNodes'[r]
    <3>1. /\ ToSet(dependsOn'[r]) = ToSet(dependsOn[r]) \cup {x}
          /\ ToSet(dependsOnNodes'[r]) = ToSet(dependsOnNodes[r]) \cup {x}
      BY <2>1, <2>3, AppendElements
    <3> QED
      BY <2>1, <2>3, <3>1
  <2> QED
    BY <1>1, <2>2, <2>3
<1>4. \A r, d : (Rank(d) < Rank(r))' <=> Rank(d) < Rank(r)
  BY DEF Rank, PartRank
<1> QED
  BY <1>2, <1>3, <1>4
     DEF DependenciesBelow, ConnectAliased, NodesCoverDependencies

\* The deployments that handle_life_cycle adds to the list.
LEMMA AddedDeploysFacts ==
    ASSUME tpl \in Templates, NEW n \in Node
    PROVE  /\ AddedDeploys(n) \in Seq(Resource)
           /\ \A r \in OpDeploys(n) : r # Main(n) => r \in ToSet(AddedDeploys(n))
<1> DEFINE all == [i \in DOMAIN tpl.ops[n] |-> OpDeploy(n, tpl.ops[n][i])]
<1>1. tpl.ops[n] \in Seq(Operation)
  BY TemplateFacts DEF Template
<1>2. \A i \in DOMAIN tpl.ops[n] : OpDeploy(n, tpl.ops[n][i]) \in Resource
  BY <1>1, ResourceFacts
<1>3. all \in Seq(Resource)
  BY <1>1, <1>2
<1>4. ToSet(all) = OpDeploys(n)
  BY DEF OpDeploys, Declared, ToSet
<1> HIDE DEF all
<1>5. /\ RemoveFirst(all, Main(n)) \in Seq(Resource)
      /\ \A r \in OpDeploys(n) :
            r # Main(n) => r \in ToSet(RemoveFirst(all, Main(n)))
  BY <1>3, <1>4, RemoveFirstProperties, RemoveFirstElements
<1> QED
  BY <1>5 DEF AddedDeploys, all

\* The search for a node's server never visits a node above it.
LEMMA VisitedFacts ==
    ASSUME IInv, NEW own \in Node, NEW top \in Node, own <= top,
           visiting # NoNode => visiting < top
    PROVE  Visited(own) \in Node /\ Visited(own) <= top
  BY DEF Visited, IInv, TypeOK, Node

\* HandleLifeCycle gives deployments servers below their node, or the node.
LEMMA LifeCycleServers ==
    ASSUME IInv, HandleLifeCycle
    PROVE  hot' \in [Resource -> HotAttributes] /\ ServersBelow'
<1> DEFINE n == AtResource.node
           deployment == OpDeployment(n, Visited(n))
<1>1. AtResource \in Resource /\ n \in Node /\ phase = "lifecycle"
  BY AtFacts, ResourceNode DEF HandleLifeCycle
<1>2. visiting # NoNode => visiting < n
  BY <1>1 DEF IInv, SearchDescends
<1>3. hot' = [r \in Resource |->
                IF r \in OpDeploys(n) THEN deployment
                ELSE IF tpl.roles[n] /\ r = Roles(n)
                     THEN RolesDeployment(deployment) ELSE hot[r]]
  BY DEF HandleLifeCycle
<1>4. tpl' = tpl /\ tpl \in Templates /\ hot \in [Resource -> HotAttributes]
  BY DEF HandleLifeCycle, IInv, TypeOK
<1> HIDE DEF n
<1>5. Visited(n) \in Node /\ Visited(n) <= n
  BY <1>1, <1>2, VisitedFacts DEF Node
<1>6. /\ deployment \in HotAttributes
      /\ RolesDeployment(deployment) \in HotAttributes
      /\ ServersOf(RolesDeployment(deployment)) \subseteq ServersOf(deployment)
      /\ \A s \in ServersOf(deployment) :
            s \in Node /\ tpl.kind[s] = "compute" /\ (s < Visited(n) \/ s = n)
  BY <1>1, <1>4, <1>5, OpDeploymentFacts, RolesDeploymentFacts
<1> HIDE DEF deployment
<1>7. \A s \in ServersOf(deployment) :
        s \in Node /\ tpl.kind[s] = "compute" /\ (s < n \/ s = n)
  BY <1>1, <1>5, <1>6 DEF Node
<1>8. hot' \in [Resource -> HotAttributes]
  BY <1>3, <1>4, <1>6
<1>9. ASSUME NEW r \in Resource, NEW s \in ServersOf(hot'[r])
      PROVE  /\ s \in Node /\ tpl.kind[s] = "compute"
             /\ s < r.node \/ (s = r.node /\ r.part # "main")
  <2>1. CASE r \in OpDeploys(n)
    <3>1. PICK op \in Declared(n) : r = OpDeploy(n, op)
      BY <2>1 DEF OpDeploys
    <3>2. op \in Operation
      BY <1>1, <1>4, TemplateFacts
    <3>3. r.node = n /\ (r.part = "main" => tpl.kind[n] # "compute")
      BY <1>1, <3>1, <3>2 DEF OpDeploy, Main, Operation
    <3>4. s \in ServersOf(deployment)
      BY <1>3, <1>9, <2>1
    <3> QED
      BY <1>7, <3>3, <3>4
  <2>2. CASE r \notin OpDeploys(n) /\ tpl.roles[n] /\ r = Roles(n)
    <3>1. r.node = n /\ r.part = "roles"
      BY <2>2 DEF Roles
    <3>2. s \in ServersOf(deployment)
      BY <1>3, <1>6, <1>9, <2>2
    <3> QED
      BY <1>7, <3>1, <3>2
  <2>3. CASE r \notin OpDeploys(n) /\ ~ (tpl.roles[n] /\ r = Roles(n))
    <3>1. s \in ServersOf(hot[r])
      BY <1>3, <1>9, <2>3
    <3> QED
      BY <3>1 DEF IInv, ServersBelow, RunsOn
  <2> QED
    BY <2>1, <2>2, <2>3
<1> QED
  BY <1>4, <1>8, <1>9 DEF ServersBelow, RunsOn

\* HandleLifeCycle links deployments of one node.
LEMMA LifeCycleLinks ==
    ASSUME IInv, HandleLifeCycle
    PROVE  /\ chain' \in [Resource -> Resource]
           /\ lastDeploy' \in [Node -> Resource \cup {NoResource}]
           /\ LinksStayInNode'
<1> DEFINE n == AtResource.node
           Linked(r, x) == \E op, later \in Declared(n) :
                /\ FollowsDirectly(n, op, later)
                /\ r = OpDeploy(n, op) /\ x = OpDeploy(n, later)
<1>1. n \in Node
  BY AtFacts, ResourceNode DEF HandleLifeCycle
<1>2. /\ tpl \in Templates /\ chain \in [Resource -> Resource]
      /\ lastDeploy \in [Node -> Resource \cup {NoResource}]
      /\ \A r \in Resource : chain[r].node = r.node
      /\ \A m \in Node : lastDeploy[m] # NoResource => lastDeploy[m].node = m
  BY DEF IInv, TypeOK, LinksStayInNode
<1>3. chain' = [r \in Resource |->
                IF \E op, later \in Declared(n) :
                        FollowsDirectly(n, op, later) /\ r = OpDeploy(n, op)
                THEN CHOOSE x \in OpDeploys(n) : Linked(r, x)
                ELSE chain[r]]
  BY DEF HandleLifeCycle
<1>4. lastDeploy' = IF Declared(n) = {} THEN lastDeploy
                    ELSE [lastDeploy EXCEPT ![n] = OpDeploy(n, LastOp(n))]
  BY DEF HandleLifeCycle
<1> HIDE DEF n
<1>5. /\ Declared(n) \subseteq Operation
      /\ \A op \in Declared(n) :
            OpDeploy(n, op) \in Resource /\ OpDeploy(n, op).node = n
  BY <1>1, <1>2, TemplateFacts, ResourceFacts
<1>6. ASSUME NEW r \in Resource
      PROVE  chain'[r] \in Resource /\ chain'[r].node = r.node
  <2>1. CASE \E op, later \in Declared(n) :
                FollowsDirectly(n, op, later) /\ r = OpDeploy(n, op)
    <3>1. \E x \in OpDeploys(n) : Linked(r, x)
      BY <2>1 DEF OpDeploys
    <3>2. chain'[r] \in OpDeploys(n)
      <4> HIDE DEF Linked
      <4> QED
        BY <1>3, <2>1, <3>1
    <3>3. r.node = n
      BY <1>5, <2>1
    <3> QED
      BY <1>5, <3>2, <3>3 DEF OpDeploys
  <2>2. CASE ~ \E op, later \in Declared(n) :
                FollowsDirectly(n, op, later) /\ r = OpDeploy(n, op)
    BY <1>2, <1>3, <2>2
  <2> QED
    BY <2>1, <2>2
<1>7. chain' \in [Resource -> Resource]
  BY <1>3, <1>6
<1>8. ASSUME NEW m \in Node
      PROVE  /\ lastDeploy'[m] \in Resource \cup {NoResource}
             /\ lastDeploy'[m] # NoResource => lastDeploy'[m].node = m
  <2>1. Declared(n) # {} => LastOp(n) \in Declared(n)
    BY <1>1, <1>5, LastOpFacts
  <2> QED
    BY <1>1, <1>2, <1>4, <1>5, <2>1
<1>9. lastDeploy' \in [Node -> Resource \cup {NoResource}]
  BY <1>2, <1>4, <1>8
<1> QED
  BY <1>6, <1>7, <1>8, <1>9 DEF LinksStayInNode

\* Pass "lifecycle".
LEMMA LifeCycleStep ==
    ASSUME IInv, HandleLifeCycle
    PROVE  IInv'
<1> DEFINE n == AtResource.node
           added == AddedDeploys(n)
           roles == IF tpl.roles[n] THEN <<Roles(n)>> ELSE <<>>
<1>1. n \in Node
  BY AtFacts, ResourceNode DEF HandleLifeCycle
<1>2. tpl' = tpl /\ resources' = resources /\ tpl \in Templates
  BY DEF HandleLifeCycle, IInv
<1>3. /\ dependsOn' = AppendLifeCycle(n, dependsOn)
      /\ dependsOnNodes' = AppendLifeCycle(n, dependsOnNodes)
      /\ expanded' = expanded \o added \o roles
  BY DEF HandleLifeCycle
<1> HIDE DEF n
<1>4. added \in Seq(Resource) /\ roles \in Seq(Resource)
  BY <1>1, <1>2, AddedDeploysFacts, ResourceFacts
<1>5. expanded' \in Seq(Resource)
  <2> HIDE DEF added, roles
  <2> QED
    BY <1>3, <1>4 DEF IInv, TypeOK
<1>6. CursorTypeOK' /\ SearchDescends'
  BY TypeParts, CursorSteps DEF HandleLifeCycle, IInv
<1>7. /\ dependsOn' \in [Resource -> Seq(Resource)]
      /\ dependsOnNodes' \in [Resource -> Seq(Resource)]
      /\ DependenciesBelow' /\ ConnectAliased' /\ NodesCoverDependencies'
  BY <1>1, <1>2, <1>3, AppendLifeCycleFacts
<1>8. DataTypeOK'
  BY <1>2, <1>5, <1>7, LifeCycleServers, LifeCycleLinks DEF DataTypeOK, IInv, TypeOK
<1>9. TypeOK'
  BY <1>2, <1>6, <1>8, TypeParts DEF IInv, TypeOK
<1> QED
  BY <1>2, <1>6, <1>7, <1>9, LifeCycleServers, LifeCycleLinks DEF IInv

\* The new resources join the list at the end of a pass.
LEMMA ExpandStep ==
    ASSUME IInv, FinishLifeCycle \/ FinishConnect
    PROVE  IInv'
<1>1. /\ resources' = resources \o expanded /\ expanded' = <<>>
      /\ UNCHANGED <<tpl, hot, links>>
      /\ \E p \in Phase : EnterPhase(p)
  BY DEF FinishLifeCycle, FinishConnect, Phase
<1>2. CursorTypeOK' /\ SearchDescends'
  BY <1>1, TypeParts, CursorSteps DEF IInv
<1>3. TypeOK'
  BY <1>1, <1>2, TypeParts DEF IInv, DataTypeOK, links
<1>4. UNCHANGED <<tpl, hot>> /\ UNCHANGED <<tpl, links>>
  BY <1>1
<1> QED
  BY <1>2, <1>3, <1>4, KeepLinks, KeepServers DEF IInv

\* The place of a resource in its node is one of seven.
LEMMA RankBounds ==
    ASSUME NEW r \in Resource
    PROVE  /\ r.node \in Node /\ PartRank(r) \in 1..7
           /\ Rank(r) = 10 * r.node + PartRank(r)
<1>1. \A op \in Operation : OpIndex[op] \in 0..2
  BY DEF OpIndex, Operation
<1>2. PartRank(r) \in 1..7
  BY <1>1 DEF PartRank
<1> QED
  BY <1>2, ResourceNode DEF Rank

\* Pass "connect": the deployment and the resource it depends on are new.
LEMMA ConnectStep ==
    ASSUME IInv, HandleConnectsTo
    PROVE  IInv'
<1> DEFINE n == AtNode
           end == ConnectEnd
           r == Connect(n, req)
           deployment == Deployment(Visited(end))
<1>1. n \in Node /\ phase = "connect" /\ req \in 1..Len(tpl.reqs[n])
  BY AtFacts DEF HandleConnectsTo, AtRequirement
<1>2. tpl' = tpl /\ tpl \in Templates
  BY DEF HandleConnectsTo, IInv
<1>3. req \in DOMAIN tpl.reqs[n]
  BY <1>1, <1>2, TemplateFacts
<1>4. req \in 1..MaxRequirements /\ Target(n, req) \in Node /\ Target(n, req) < n
  BY <1>1, <1>2, <1>3, TemplateFacts
<1>5. end \in Node /\ end <= n
  BY <1>1, <1>4 DEF ConnectEnd, Node
<1>6. visiting # NoNode => visiting < n
  BY <1>1 DEF IInv, SearchDescends
<1>7. /\ expanded' = Append(expanded, r)
      /\ hot' = [hot EXCEPT ![r] = deployment]
      /\ dependsOn' = [dependsOn EXCEPT ![r] = <<Main(end)>>]
      /\ dependsOnNodes' = [dependsOnNodes EXCEPT ![r] = <<Main(end)>>]
      /\ UNCHANGED <<tpl, resources, chain, lastDeploy>>
  BY DEF HandleConnectsTo
<1> HIDE DEF n, end
<1>8. Visited(end) \in Node /\ Visited(end) <= n
  BY <1>1, <1>5, <1>6, VisitedFacts
<1>9. r \in Resource /\ r.node = n /\ r.part = "connect" /\ Main(end) \in Resource
  BY <1>1, <1>4, <1>5, ResourceFacts
<1>10. Rank(Main(end)) < Rank(r)
  <2>1. PartRank(r) = 7 /\ PartRank(Main(end)) \in {1, 3}
    BY DEF PartRank, Connect, Main, Operation
  <2> QED
    BY <1>1, <1>5, <1>9, <2>1, ResourceFacts DEF Rank, Node
<1>11. /\ deployment \in HotAttributes
       /\ \A s \in ServersOf(deployment) :
            s \in Node /\ s < n /\ tpl.kind[s] = "compute"
  BY <1>1, <1>2, <1>8, DeploymentFacts DEF Node
<1> HIDE DEF r, deployment
<1>12. CursorTypeOK' /\ SearchDescends'
  BY TypeParts, CursorSteps DEF HandleConnectsTo, IInv
<1>13. TypeOK'
  <2>1. <<Main(end)>> \in Seq(Resource)
    BY <1>9
  <2>2. DataTypeOK'
    BY <1>7, <1>9, <1>11, <2>1 DEF DataTypeOK, IInv, TypeOK
  <2> QED
    BY <1>2, <1>12, <2>2, TypeParts DEF IInv, TypeOK
<1>14. LinksStayInNode'
  BY <1>7 DEF IInv, LinksStayInNode
<1>15. ServersBelow'
  <2>1. ASSUME NEW x \in Resource
        PROVE  RunsOn(x)' = IF x = r THEN ServersOf(deployment) ELSE RunsOn(x)
    BY <1>7, <1>9 DEF RunsOn, IInv, TypeOK
  <2> QED
    BY <1>2, <1>9, <1>11, <2>1 DEF IInv, ServersBelow
<1>16. ASSUME NEW x \in Resource
       PROVE  /\ \A d \in ToSet(dependsOnNodes'[x]) : Rank(d) < Rank(x)
              /\ ToSet(dependsOn'[x]) \subseteq ToSet(dependsOnNodes'[x])
              /\ x.part = "connect" => dependsOn'[x] = dependsOnNodes'[x]
  <2>1. CASE x = r
    <3>1. dependsOn'[x] = <<Main(end)>> /\ dependsOnNodes'[x] = <<Main(end)>>
      BY <1>7, <1>9, <2>1 DEF IInv, TypeOK
    <3>2. ToSet(<<Main(end)>>) = {Main(end)}
      BY DEF ToSet
    <3> QED
      BY <1>10, <2>1, <3>1, <3>2
  <2>2. CASE x # r
    <3>1. dependsOn'[x] = dependsOn[x] /\ dependsOnNodes'[x] = dependsOnNodes[x]
      BY <1>7, <2>2 DEF IInv, TypeOK
    <3> QED
      BY <3>1 DEF IInv, DependenciesBelow, ConnectAliased, NodesCoverDependencies
  <2> QED
    BY <2>1, <2>2
<1>17. \A x, d : (Rank(d) < Rank(x))' <=> Rank(d) < Rank(x)
  BY <1>2 DEF Rank, PartRank
<1>18. DependenciesBelow' /\ ConnectAliased' /\ NodesCoverDependencies'
  BY <1>16, <1>17 DEF DependenciesBelow, ConnectAliased, NodesCoverDependencies
<1> QED
  BY <1>2, <1>12, <1>13, <1>14, <1>15, <1>18 DEF IInv

\* What a requirement adds to the lists of the node's main resource: the last
\* resource of the target's chain and the target's last deployment.
LEMMA CopiedFacts ==
    ASSUME IInv, NEW n \in Node, NEW q \in DOMAIN tpl.reqs[n]
    PROVE  /\ CopiedDependsOn(n, q) \in Seq(Resource)
           /\ CopiedDependsOnNodes(n, q) \in Seq(Resource)
           /\ \A d \in ToSet(CopiedDependsOnNodes(n, q)) :
                Rank(d) < Rank(Main(n))
           /\ ToSet(CopiedDependsOn(n, q)) \subseteq
                ToSet(CopiedDependsOnNodes(n, q))
<1> DEFINE t == Target(n, q)
           top == TopOfChain(Main(t))
           last == lastDeploy[t]
           on == dependsOn[Main(n)]
           nodes == dependsOnNodes[Main(n)]
<1>1. t \in Node /\ t < n
  BY TemplateFacts DEF IInv
<1>2. top \in Resource /\ top.node = t
  <2>1. Main(t) \in Resource /\ Main(t).node = t
    BY <1>1, ResourceFacts
  <2>2. \A r \in Resource : chain[r] \in Resource /\ chain[r].node = r.node
    BY DEF IInv, TypeOK, LinksStayInNode
  <2> HIDE DEF t
  <2>3. chain[Main(t)] \in Resource /\ chain[Main(t)].node = t
    BY <2>1, <2>2
  <2>4. /\ chain[chain[Main(t)]] \in Resource
        /\ chain[chain[Main(t)]].node = t
    BY <2>2, <2>3
  <2> QED
    BY <2>4 DEF TopOfChain
<1>3. AddsLast(n, q) => last \in Resource /\ last.node = t
  BY <1>1 DEF AddsLast, IInv, TypeOK, LinksStayInNode
<1>4. /\ on \in Seq(Resource) /\ nodes \in Seq(Resource)
      /\ \A d \in ToSet(nodes) : Rank(d) < Rank(Main(n))
      /\ ToSet(on) \subseteq ToSet(nodes)
  BY ResourceFacts DEF IInv, TypeOK, DependenciesBelow, NodesCoverDependencies
<1>5. \A d \in Resource : d.node = t => Rank(d) < Rank(Main(n))
  <2>1. Main(n) \in Resource /\ Main(n).node = n
    BY ResourceFacts
  <2> HIDE DEF t
  <2>2. ASSUME NEW d \in Resource, d.node = t
        PROVE  Rank(d) < Rank(Main(n))
    <3>1. /\ Rank(d) = 10 * t + PartRank(d) /\ PartRank(d) \in 1..7
          /\ Rank(Main(n)) = 10 * n + PartRank(Main(n))
          /\ PartRank(Main(n)) \in 1..7
      BY <2>1, <2>2, RankBounds
    <3> QED
      BY <1>1, <3>1 DEF Node
  <2> QED
    BY <2>2
<1>6. \/ DependOnTop(n, q) = on
      \/ DependOnTop(n, q) = Append(on, top)
  BY DEF DependOnTop
<1>7. /\ CopiedDependsOn(n, q) =
            IF AddsLast(n, q) THEN Append(DependOnTop(n, q), last)
            ELSE DependOnTop(n, q)
      /\ CopiedDependsOnNodes(n, q) =
            IF AddsLast(n, q) THEN Append(Append(nodes, top), last)
            ELSE Append(nodes, top)
  BY DEF CopiedDependsOn, CopiedDependsOnNodes
<1> HIDE DEF t, top, last, on, nodes
<1>8. /\ Append(nodes, top) \in Seq(Resource)
      /\ ToSet(Append(nodes, top)) = ToSet(nodes) \cup {top}
  BY <1>2, <1>4, AppendElements
<1>9. /\ Append(on, top) \in Seq(Resource)
      /\ ToSet(Append(on, top)) = ToSet(on) \cup {top}
  BY <1>2, <1>4, AppendElements
<1>10. /\ DependOnTop(n, q) \in Seq(Resource)
       /\ ToSet(DependOnTop(n, q)) \subseteq ToSet(on) \cup {top}
  BY <1>4, <1>6, <1>9
<1>11. CASE AddsLast(n, q)
  <2>1. /\ Append(DependOnTop(n, q), last) \in Seq(Resource)
        /\ ToSet(Append(DependOnTop(n, q), last)) =
                ToSet(DependOnTop(n, q)) \cup {last}
    BY <1>3, <1>10, <1>11, AppendElements
  <2>2. /\ Append(Append(nodes, top), last) \in Seq(Resource)
        /\ ToSet(Append(Append(nodes, top), last)) =
                ToSet(nodes) \cup {top} \cup {last}
    <3> DEFINE topped == Append(nodes, top)
    <3>1. topped \in Seq(Resource) /\ ToSet(topped) = ToSet(nodes) \cup {top}
      BY <1>8
    <3> HIDE DEF topped
    <3>2. /\ Append(topped, last) \in Seq(Resource)
          /\ ToSet(Append(topped, last)) = ToSet(topped) \cup {last}
      BY <1>3, <1>11, <3>1, AppendElements
    <3>3. topped = Append(nodes, top)
      BY DEF topped
    <3> QED
      BY <3>1, <3>2, <3>3
  <2> QED
    BY <1>2, <1>3, <1>4, <1>5, <1>7, <1>10, <1>11, <2>1, <2>2
<1>12. CASE ~ AddsLast(n, q)
  BY <1>2, <1>4, <1>5, <1>7, <1>8, <1>10, <1>12
<1> QED
  BY <1>11, <1>12

\* Pass "depend": only the main resource of the node changes.
LEMMA CopyDependencyStep ==
    ASSUME IInv, CopyDependency
    PROVE  IInv'
<1> DEFINE n == AtNode
           t == Target(n, req)
           main == Main(n)
           on == CopiedDependsOn(n, req)
           nodes == CopiedDependsOnNodes(n, req)
<1>1. n \in Node /\ req \in 1..Len(tpl.reqs[n])
  BY AtFacts DEF CopyDependency, AtRequirement
<1>2. tpl' = tpl /\ tpl \in Templates
  BY DEF CopyDependency, IInv
<1>3. req \in DOMAIN tpl.reqs[n]
  BY <1>1, <1>2, TemplateFacts
<1>4. t \in Node /\ t < n
  BY <1>1, <1>2, <1>3, TemplateFacts
<1>5. /\ hot' = IF HostedOnCompute(n, req)
                THEN [hot EXCEPT ![main].server = Reference({t})] ELSE hot
      /\ dependsOn' = [dependsOn EXCEPT ![main] = on]
      /\ dependsOnNodes' = [dependsOnNodes EXCEPT ![main] = nodes]
      /\ UNCHANGED <<tpl, resources, expanded, chain, lastDeploy>>
  BY DEF CopyDependency
<1>6. HostedOnCompute(n, req) => tpl.kind[t] = "compute"
  BY DEF HostedOnCompute, IsContainer
<1> HIDE DEF n, t
<1>7. main \in Resource /\ main.node = n /\ main.part = "main"
  BY <1>1, ResourceFacts
<1>8. /\ on \in Seq(Resource) /\ nodes \in Seq(Resource)
      /\ \A d \in ToSet(nodes) : Rank(d) < Rank(main)
      /\ ToSet(on) \subseteq ToSet(nodes)
  BY <1>1, <1>3, CopiedFacts
<1> HIDE DEF on, nodes, main
<1>9. CursorTypeOK' /\ SearchDescends'
  BY TypeParts, CursorSteps DEF CopyDependency, IInv
<1>10. Reference({t}) \in ServerValue /\ Reference({t}).servers = {t}
  BY <1>4 DEF Reference, ServerValue
<1>11. hot' \in [Resource -> HotAttributes]
  <2>1. hot \in [Resource -> HotAttributes]
    BY DEF IInv, TypeOK
  <2>2. [hot[main] EXCEPT !.server = Reference({t})] \in HotAttributes
    BY <1>7, <1>10, <2>1 DEF HotAttributes
  <2> QED
    BY <1>5, <1>7, <2>1, <2>2
<1>12. TypeOK'
  <2>1. DataTypeOK'
    BY <1>5, <1>8, <1>11 DEF DataTypeOK, IInv, TypeOK
  <2> QED
    BY <1>2, <1>9, <2>1, TypeParts DEF IInv, TypeOK
<1>13. LinksStayInNode'
  BY <1>5 DEF IInv, LinksStayInNode
<1>14. ASSUME NEW x \in Resource, NEW s \in ServersOf(hot'[x])
       PROVE  \/ s \in ServersOf(hot[x])
              \/ x = main /\ s = t /\ HostedOnCompute(n, req)
  <2>1. CASE x = main /\ HostedOnCompute(n, req)
    <3>1. hot'[x] = [hot[x] EXCEPT !.server = Reference({t})]
      BY <1>5, <2>1 DEF IInv, TypeOK
    <3>2. hot[x] \in HotAttributes
      BY DEF IInv, TypeOK
    <3>3. s \in {t} \/ s \in ServersOf(hot[x])
      BY <1>10, <1>14, <3>1, <3>2 DEF ServersOf, HotAttributes
    <3> QED
      BY <2>1, <3>3
  <2>2. CASE ~ (x = main /\ HostedOnCompute(n, req))
    <3>1. hot'[x] = hot[x]
      BY <1>5, <2>2 DEF IInv, TypeOK
    <3> QED
      BY <1>14, <3>1
  <2> QED
    BY <2>1, <2>2
<1>15. ServersBelow'
  BY <1>2, <1>4, <1>6, <1>7, <1>14 DEF IInv, ServersBelow, RunsOn
<1>16. ASSUME NEW x \in Resource
       PROVE  /\ \A d \in ToSet(dependsOnNodes'[x]) : Rank(d) < Rank(x)
              /\ ToSet(dependsOn'[x]) \subseteq ToSet(dependsOnNodes'[x])
              /\ x.part = "connect" => dependsOn'[x] = dependsOnNodes'[x]
  <2>1. CASE x = main
    <3>1. dependsOn'[x] = on /\ dependsOnNodes'[x] = nodes
      BY <1>5, <1>7, <2>1 DEF IInv, TypeOK
    <3> QED
      BY <1>7, <1>8, <2>1, <3>1
  <2>2. CASE x # main
    <3>1. dependsOn'[x] = dependsOn[x] /\ dependsOnNodes'[x] = dependsOnNodes[x]
      BY <1>5, <2>2 DEF IInv, TypeOK
    <3> QED
      BY <3>1 DEF IInv, DependenciesBelow, ConnectAliased, NodesCoverDependencies
  <2> QED
    BY <2>1, <2>2
<1>17. \A x, d : (Rank(d) < Rank(x))' <=> Rank(d) < Rank(x)
  BY <1>2 DEF Rank, PartRank
<1>18. DependenciesBelow' /\ ConnectAliased' /\ NodesCoverDependencies'
  BY <1>16, <1>17 DEF DependenciesBelow, ConnectAliased, NodesCoverDependencies
<1> QED
  BY <1>2, <1>9, <1>12, <1>13, <1>15, <1>18 DEF IInv

\* Pass "hosting": no server appears that was not there.
LEMMA HostingStep ==
    ASSUME IInv, HandleHosting
    PROVE  IInv'
<1> DEFINE r == AtResource
           new == IF IsDeployment(r) /\ HostServer(r).form = "map"
                  THEN [Pruned(r) EXCEPT !.servers = HostServer(r)]
                  ELSE Pruned(r)
<1>1. r \in Resource
  BY AtFacts DEF HandleHosting
<1>2. /\ IsDeployment(r) => HostServer(r) # Absent
      /\ hot' = [hot EXCEPT ![r] = new]
      /\ UNCHANGED <<tpl, resources, expanded, links>>
  BY DEF HandleHosting
<1>3. CursorTypeOK' /\ SearchDescends'
  BY TypeParts, CursorSteps DEF HandleHosting, IInv
<1> HIDE DEF r
<1>4. hot[r] \in HotAttributes /\ hot \in [Resource -> HotAttributes]
  BY <1>1 DEF IInv, TypeOK
<1>5. /\ Pruned(r) \in HotAttributes
      /\ Pruned(r).server \in {hot[r].server, Absent}
      /\ Pruned(r).servers = hot[r].servers
  BY <1>4 DEF Pruned, HotAttributes
<1>6. HostServer(r) \in {Pruned(r).server, Pruned(r).servers}
  BY DEF HostServer
<1>7. /\ new \in HotAttributes
      /\ new.server \in {hot[r].server, Absent}
      /\ new.servers \in {hot[r].server, hot[r].servers, Absent}
  <2>1. CASE IsDeployment(r) /\ HostServer(r).form = "map"
    <3>1. new = [Pruned(r) EXCEPT !.servers = HostServer(r)]
      BY <2>1
    <3>2. HostServer(r) \in ServerValue \cup {Absent}
      BY <1>5, <1>6 DEF HotAttributes
    <3> HIDE DEF new
    <3>3. new \in HotAttributes
      BY <1>5, <3>1, <3>2 DEF HotAttributes
    <3>4. new.server = Pruned(r).server /\ new.servers = HostServer(r)
      BY <1>5, <3>1 DEF HotAttributes
    <3> QED
      BY <1>5, <1>6, <3>3, <3>4
  <2>2. CASE ~ (IsDeployment(r) /\ HostServer(r).form = "map")
    BY <1>5, <2>2
  <2> QED
    BY <2>1, <2>2
<1> HIDE DEF new
<1>8. ServersOf(new) \subseteq ServersOf(hot[r])
  BY <1>7 DEF ServersOf
<1>9. TypeOK'
  <2>1. DataTypeOK'
    BY <1>2, <1>4, <1>7 DEF DataTypeOK, IInv, TypeOK, links
  <2> QED
    BY <1>2, <1>3, <2>1, TypeParts DEF IInv, TypeOK
<1>10. ServersBelow'
  <2>1. ASSUME NEW x \in Resource
        PROVE  RunsOn(x)' \subseteq RunsOn(x)
    BY <1>2, <1>4, <1>8 DEF RunsOn
  <2> QED
    BY <1>2, <2>1 DEF IInv, ServersBelow
<1>11. UNCHANGED <<tpl, links>>
  BY <1>2
<1> QED
  BY <1>2, <1>3, <1>9, <1>10, <1>11, KeepLinks DEF IInv

\* Pass "remove": dependencies only disappear.
LEMMA RemoveStep ==
    ASSUME IInv, RemoveTypeless
    PROVE  IInv'
<1>1. PICK i \in Typeless :
        /\ resources' = RemoveFirst(resources, resources[i])
        /\ dependsOn' = [r \in Resource |->
                IF Stays(r) THEN RemoveFirst(dependsOn[r], resources[i])
                ELSE dependsOn[r]]
        /\ dependsOnNodes' = [r \in Resource |->
                IF Stays(r) /\ r.part = "connect"
                THEN RemoveFirst(dependsOnNodes[r], resources[i])
                ELSE dependsOnNodes[r]]
  BY DEF RemoveTypeless
<1>2. UNCHANGED <<tpl, phase, pos, req, visiting, expanded, hot, chain, lastDeploy>>
  BY DEF RemoveTypeless, cursors
<1>3. phase = "remove" /\ tpl \in Templates
  BY DEF RemoveTypeless, IInv
<1>4. CursorTypeOK' /\ SearchDescends'
  BY <1>2, <1>3, TypeParts DEF IInv, CursorTypeOK, SearchDescends
<1>5. resources' \in Seq(Resource)
  BY <1>1, RemoveFirstProperties DEF IInv, TypeOK
<1>6. ASSUME NEW r \in Resource
      PROVE  /\ dependsOn'[r] \in Seq(Resource)
             /\ dependsOnNodes'[r] \in Seq(Resource)
             /\ \A d \in ToSet(dependsOnNodes'[r]) : Rank(d) < Rank(r)
             /\ ToSet(dependsOn'[r]) \subseteq ToSet(dependsOnNodes'[r])
             /\ r.part = "connect" => dependsOn'[r] = dependsOnNodes'[r]
  <2>1. /\ dependsOn[r] \in Seq(Resource) /\ dependsOnNodes[r] \in Seq(Resource)
        /\ \A d \in ToSet(dependsOnNodes[r]) : Rank(d) < Rank(r)
        /\ ToSet(dependsOn[r]) \subseteq ToSet(dependsOnNodes[r])
        /\ r.part = "connect" => dependsOn[r] = dependsOnNodes[r]
    BY DEF IInv, TypeOK, DependenciesBelow, ConnectAliased, NodesCoverDependencies
  <2>2. /\ dependsOn'[r] \in {dependsOn[r], RemoveFirst(dependsOn[r], resources[i])}
        /\ r.part # "connect" => dependsOnNodes'[r] = dependsOnNodes[r]
        /\ dependsOnNodes'[r] \in
                {dependsOnNodes[r], RemoveFirst(dependsOnNodes[r], resources[i])}
        /\ r.part = "connect" => dependsOn'[r] = dependsOnNodes'[r]
    BY <1>1, <2>1
  <2>3. /\ RemoveFirst(dependsOn[r], resources[i]) \in Seq(Resource)
        /\ ToSet(RemoveFirst(dependsOn[r], resources[i])) \subseteq ToSet(dependsOn[r])
        /\ RemoveFirst(dependsOnNodes[r], resources[i]) \in Seq(Resource)
        /\ ToSet(RemoveFirst(dependsOnNodes[r], resources[i]))
                \subseteq ToSet(dependsOnNodes[r])
    BY <2>1, RemoveFirstProperties
  <2> QED
    BY <2>1, <2>2, <2>3
<1>7. TypeOK'
  <2>1. /\ dependsOn' \in [Resource -> Seq(Resource)]
        /\ dependsOnNodes' \in [Resource -> Seq(Resource)]
    <3>1. /\ dependsOn' = [r \in Resource |-> dependsOn'[r]]
          /\ dependsOnNodes' = [r \in Resource |-> dependsOnNodes'[r]]
      BY <1>1
    <3> QED
      BY <1>6, <3>1
  <2>2. DataTypeOK'
    BY <1>2, <1>5, <2>1 DEF DataTypeOK, IInv, TypeOK
  <2> QED
    BY <1>2, <1>4, <2>2, TypeParts DEF IInv, TypeOK
<1>8. LinksStayInNode'
  BY <1>2 DEF IInv, LinksStayInNode
<1>9. UNCHANGED <<tpl, hot>>
  BY <1>2
<1>10. \A x, d : (Rank(d) < Rank(x))' <=> Rank(d) < Rank(x)
  BY <1>2 DEF Rank, PartRank
<1>11. DependenciesBelow' /\ ConnectAliased' /\ NodesCoverDependencies'
  BY <1>6, <1>10 DEF DependenciesBelow, ConnectAliased, NodesCoverDependencies
<1> QED
  BY <1>2, <1>3, <1>4, <1>7, <1>8, <1>9, <1>11, KeepServers DEF IInv

\* Actions that only move a cursor.
LEMMA CursorActions ==
    ASSUME IInv,
           \/ SkipVolume \/ NextNode \/ FinishNodes \/ SkipAttachment
           \/ SkipConnect \/ SkipRelated \/ FinishDepend \/ RaiseNoHost
           \/ FinishHosting \/ FinishRemove
    PROVE  IInv'
<1>1. UNCHANGED data
  BY DEF data, SkipVolume, NextNode, FinishNodes, SkipAttachment, SkipConnect,
         SkipRelated, FinishDepend, RaiseNoHost, FinishHosting, FinishRemove
<1>2. NextPosition \/ NextRequirement \/ \E p \in Phase : EnterPhase(p)
  BY DEF Phase, SkipVolume, NextNode, FinishNodes, SkipAttachment, SkipConnect,
         SkipRelated, FinishDepend, RaiseNoHost, FinishHosting, FinishRemove
<1>3. CursorTypeOK' /\ SearchDescends'
  BY <1>2, TypeParts, CursorSteps DEF IInv
<1> QED
  BY <1>1, <1>3, IdleStep

\* Every step keeps the invariant.
LEMMA NextIInv == IInv /\ [Next]_vars => IInv'
<1> SUFFICES ASSUME IInv, [Next]_vars
             PROVE  IInv'
  OBVIOUS
<1>1. CASE CopyNode \/ AttachVolume
  BY <1>1, NodesStep
<1>2. CASE FollowLifeCycleHosting \/ FollowConnectHosting
  BY <1>2, FollowStep
<1>3. CASE HandleLifeCycle
  BY <1>3, LifeCycleStep
<1>4. CASE FinishLifeCycle \/ FinishConnect
  BY <1>4, ExpandStep
<1>5. CASE HandleConnectsTo
  BY <1>5, ConnectStep
<1>6. CASE CopyDependency
  BY <1>6, CopyDependencyStep
<1>7. CASE HandleHosting
  BY <1>7, HostingStep
<1>8. CASE RemoveTypeless
  BY <1>8, RemoveStep
<1>9. CASE \/ SkipVolume \/ NextNode \/ FinishNodes \/ SkipAttachment
           \/ SkipConnect \/ SkipRelated \/ FinishDepend \/ RaiseNoHost
           \/ FinishHosting \/ FinishRemove
  BY <1>9, CursorActions
<1>10. CASE UNCHANGED vars
  <2>1. UNCHANGED <<phase, pos, req, visiting>> /\ UNCHANGED data
    BY <1>10 DEF vars, cursors, data
  <2>2. CursorTypeOK'
    BY <2>1, TypeParts DEF IInv, CursorTypeOK
  <2>3. SearchDescends'
    BY <2>1 DEF IInv, SearchDescends, AtNode, AtResource, data
  <2> QED
    BY <2>1, <2>2, <2>3, IdleStep
<1> QED
  BY <1>1, <1>2, <1>3, <1>4, <1>5, <1>6, <1>7, <1>8, <1>9, <1>10 DEF Next

-----------------------------------------------------------------------------
(* The theorems.                                                           *)

\* By the invariant every resource waits for resources of a smaller rank.
LEMMA RanksDescend == IInv => NoCircularDependency
<1> SUFFICES ASSUME IInv, NEW r \in Resource, NEW d \in WaitsFor(r)
             PROVE  Rank(d) < Rank(r)
  BY DEF NoCircularDependency
<1>1. CASE d \in ToSet(dependsOn[r])
  BY <1>1 DEF IInv, DependenciesBelow, NodesCoverDependencies
<1>2. ASSUME NEW s \in RunsOn(r), d = Main(s)
      PROVE  Rank(d) < Rank(r)
  <2>1. /\ s \in Node /\ tpl.kind[s] = "compute"
        /\ s < r.node \/ (s = r.node /\ r.part # "main")
    BY DEF IInv, ServersBelow
  <2>2. Rank(d) = 10 * s + 1
    BY <1>2, <2>1 DEF Rank, PartRank, Main, Operation
  <2>3. /\ Rank(r) = 10 * r.node + PartRank(r) /\ PartRank(r) \in 1..7
        /\ r.node \in Node
    BY RankBounds
  <2>4. r.part # "main" => PartRank(r) > 1
    <3>1. \A op \in Operation : OpIndex[op] \in 0..2
      BY DEF OpIndex, Operation
    <3> QED
      BY <3>1 DEF PartRank
  <2> QED
    BY <2>1, <2>2, <2>3, <2>4 DEF Node
<1> QED
  BY <1>1, <1>2 DEF WaitsFor

\* The inductive invariant holds in every reachable state.
LEMMA Invariance == Spec => []IInv
  BY InitIInv, NextIInv, PTL DEF Spec

\* The translator's state always has its type: in particular the lists hold
\* resources only, never None, and the search visits nodes of the template.
THEOREM TypeCorrect == Spec => []TypeOK
<1>1. IInv => TypeOK
  BY DEF IInv
<1> QED
  BY <1>1, Invariance, PTL

\* Whatever the template, depends_on and the server properties that the
\* passes compute never form a cycle: every resource waits for resources of a
\* smaller rank only.
THEOREM DependenciesAcyclic == Spec => []NoCircularDependency
  BY RanksDescend, Invariance, PTL

\* depends_on_nodes always covers depends_on, so the property pass reaches
\* every resource that another one depends on.
THEOREM NodesCover == Spec => []NodesCoverDependencies
<1>1. IInv => NodesCoverDependencies
  BY DEF IInv
<1> QED
  BY <1>1, Invariance, PTL

-----------------------------------------------------------------------------
(* The second invariant: what is in the list, and what waits for what.     *)

Typed(r) == hot[r].type # "None"

\* The resources that are in the list or join it at the end of the pass.
Listed == ToSet(resources) \cup ToSet(expanded)

\* Nothing depends on anything while the nodes are copied.
FreshLinks ==
    phase = "nodes" =>
        /\ \A r \in Resource : dependsOn[r] = <<>> /\ chain[r] = r
        /\ \A n \in Node : lastDeploy[n] = NoResource

TypedListed == \A r \in Resource : Typed(r) => r \in Listed

\* CopyNode was taken for node n.
MainCopied(n) ==
    \/ phase \in {"lifecycle", "connect", "depend", "hosting"}
    \/ /\ phase = "nodes"
       /\ \E i \in DOMAIN tpl.listing :
            tpl.listing[i] = n /\ (i < pos \/ (i = pos /\ req > 0))

MainsListed == \A n \in Node : MainCopied(n) => Main(n) \in ToSet(resources)

MainsTyped ==
    \A n \in Node :
        MainType(n) # "None" /\ (phase = "nodes" => MainCopied(n)) => Typed(Main(n))

\* handle_life_cycle of the main resource of node n has returned.
LifeCycleHandled(n) ==
    \/ phase \notin {"nodes", "lifecycle"}
    \/ /\ phase = "lifecycle"
       /\ \E i \in DOMAIN resources : i < pos /\ resources[i] = Main(n)

\* What handle_life_cycle leaves behind, and no later pass undoes: every
\* operation has a deployment that waits for the operation before it, the first
\* one for the roles, and the last one is in last_deploy_map.
LifeCycleOrder ==
    \A n \in Node : LifeCycleHandled(n) =>
        /\ \A r \in Deployments(n) : IsDeployment(r)
        /\ Declared(n) # {} => lastDeploy[n] = OpDeploy(n, LastOp(n))
        /\ \A op, later \in Declared(n) : FollowsDirectly(n, op, later) =>
            OpDeploy(n, op) \in ToSet(dependsOn[OpDeploy(n, later)])
        /\ tpl.roles[n] /\ Declared(n) # {} /\ FirstOp(n) # "create" =>
            Roles(n) \in ToSet(dependsOn[OpDeploy(n, FirstOp(n))])

LinksTyped ==
    /\ \A r \in Resource : chain[r] = r \/ Typed(chain[r])
    /\ \A n \in Node : lastDeploy[n] # NoResource => Typed(lastDeploy[n])

Removing == {"remove", "done", "failed"}

\* Once resources are removed, only those that have a type count.
DependenciesListed ==
    \A r \in Resource :
        (phase \in Removing => Typed(r)) => ToSet(dependsOn[r]) \subseteq Listed

\* list.remove takes out one occurrence, so one is all there may be.
TypelessOnce ==
    \A r \in Resource : \A x \in Resource : ~ Typed(x) => Once(dependsOn[r], x)

\* A resource without a type gets into depends_on in pass "depend" only, for
\* the requirement that names its node.
TypelessCopied ==
    /\ phase \in {"nodes", "lifecycle", "connect"} =>
        \A n \in Node : \A d \in ToSet(dependsOn[Main(n)]) : Typed(d)
    /\ phase = "depend" =>
        \A i \in DOMAIN tpl.listing : i >= pos =>
            \A d \in ToSet(dependsOn[Main(tpl.listing[i])]) :
                \/ Typed(d)
                \/ /\ i = pos
                   /\ \E p \in 1..(req - 1) : d.node = Target(tpl.listing[i], p)

\* Requirement q of node n was translated.
DependDone(n, q) ==
    \/ phase \in {"hosting"} \cup Removing
    \/ /\ phase = "depend"
       /\ \E i \in DOMAIN tpl.listing :
            tpl.listing[i] = n /\ (i < pos \/ (i = pos /\ q < req))

\* The main resource of a node waits for the last operation of every node it
\* requires.
LastCopied ==
    \A n \in Node : \A q \in DOMAIN tpl.reqs[n] :
        DependDone(n, q) /\ Declared(Target(n, q)) # {} =>
            OpDeploy(Target(n, q), LastOp(Target(n, q))) \in ToSet(dependsOn[Main(n)])

OrderInv ==
    /\ FreshLinks
    /\ TypedListed
    /\ MainsListed
    /\ MainsTyped
    /\ LifeCycleOrder
    /\ LinksTyped
    /\ DependenciesListed
    /\ TypelessOnce
    /\ TypelessCopied
    /\ LastCopied

\* While the nodes are copied, the rest of it is about empty lists.
LEMMA FreshStep ==
    ASSUME (tpl \in Templates)', phase' = "nodes",
           FreshLinks', TypedListed', MainsListed', MainsTyped'
    PROVE  OrderInv'
<1>1. \A r \in Resource : dependsOn'[r] = <<>> /\ ToSet(dependsOn'[r]) = {}
  BY DEF FreshLinks, ToSet
<1>2. \A n \in Node : Main(n) \in Resource
  BY ResourceFacts
<1>3. LifeCycleOrder'
  BY DEF LifeCycleOrder, LifeCycleHandled
<1>4. LinksTyped'
  BY DEF LinksTyped, FreshLinks
<1>5. DependenciesListed' /\ TypelessOnce'
  BY <1>1 DEF DependenciesListed, TypelessOnce, Once
<1>6. TypelessCopied'
  BY <1>1, <1>2 DEF TypelessCopied
<1>7. LastCopied'
  BY DEF LastCopied, DependDone, Removing
<1> QED
  BY <1>3, <1>4, <1>5, <1>6, <1>7 DEF OrderInv

LEMMA InitOrderInv == Init => OrderInv
<1> SUFFICES ASSUME Init PROVE OrderInv
  OBVIOUS
<1> USE DEF Init
<1>1. TypedListed
  BY DEF TypedListed, Typed, Blank
<1>2. \A n \in Node : ~ MainCopied(n)
  <2>1. tpl.listing \in Seq(Node)
    BY TemplateFacts DEF Template
  <2> QED
    BY <2>1 DEF MainCopied
<1>3. FreshLinks /\ MainsListed /\ MainsTyped
  BY <1>2 DEF FreshLinks, MainsListed, MainsTyped
<1>4. \A r \in Resource : ToSet(dependsOn[r]) = {} /\ \A x : Once(dependsOn[r], x)
  BY DEF ToSet, Once
<1>5. \A n \in Node : Main(n) \in Resource
  BY ResourceFacts
<1>6. LifeCycleOrder /\ LinksTyped /\ LastCopied
  BY DEF LifeCycleOrder, LifeCycleHandled, LinksTyped, LastCopied, DependDone, Removing
<1>7. DependenciesListed /\ TypelessOnce /\ TypelessCopied
  BY <1>4, <1>5 DEF DependenciesListed, TypelessOnce, TypelessCopied
<1> QED
  BY <1>1, <1>3, <1>6, <1>7 DEF OrderInv

\* Pass "nodes" adds a resource that has a type, unless it is the main resource
\* of a software component.
LEMMA NodesOrderStep ==
    ASSUME IInv, OrderInv, CopyNode \/ AttachVolume, (tpl \in Templates)'
    PROVE  OrderInv'
<1>1. /\ AtNode \in Node /\ phase = "nodes" /\ phase' = "nodes"
      /\ pos' = pos /\ req' = req + 1 /\ pos \in DOMAIN tpl.listing
      /\ pos \in Nat /\ req \in Nat
      /\ UNCHANGED <<tpl, expanded, dependsOn, chain, lastDeploy>>
  <2>1. tpl.listing \in Seq(Node) /\ pos \in Nat \ {0} /\ req \in Nat
    BY DEF IInv, TypeOK, Template
  <2> QED
    BY <2>1, AtFacts DEF CopyNode, AttachVolume, AtRequirement, NextRequirement, links
<1>2. PICK r \in Resource, type \in HotType :
        /\ resources' = Append(resources, r)
        /\ hot' = [hot EXCEPT ![r] = Blank(type)]
        /\ \/ req = 0 /\ r = Main(AtNode) /\ type = MainType(AtNode)
           \/ req > 0 /\ r.part = "attachment" /\ type # "None"
  <2>1. CASE CopyNode
    <3>1. MainType(AtNode) \in HotType /\ Main(AtNode) \in Resource
      BY <1>1, ResourceFacts DEF MainType, HotType
    <3> QED
      BY <2>1, <3>1 DEF CopyNode
  <2>2. CASE AttachVolume
    <3>1. tpl.reqs[AtNode] \in Seq(Requirement)
      BY <1>1, TemplateFacts DEF IInv
    <3>2. req \in DOMAIN tpl.reqs[AtNode] /\ req > 0
      BY <2>2, <3>1 DEF AttachVolume, AtRequirement
    <3>3. req \in 1..MaxRequirements
      BY <1>1, <3>2, TemplateFacts DEF IInv
    <3>4. Attachment(AtNode, req) \in Resource
      BY <1>1, <3>3, ResourceFacts
    <3>5. Attachment(AtNode, req).part = "attachment"
      BY DEF Attachment
    <3>6. "OS::Cinder::VolumeAttachment" \in HotType \ {"None"}
      BY DEF HotType
    <3> QED
      BY <2>2, <3>2, <3>4, <3>5, <3>6 DEF AttachVolume
  <2> QED
    BY <2>1, <2>2
<1>3. ToSet(resources') = ToSet(resources) \cup {r}
  BY <1>2, AppendElements DEF IInv, TypeOK
<1>4. \A x \in Resource :
        hot'[x].type = IF x = r THEN type ELSE hot[x].type
  BY <1>2 DEF IInv, TypeOK, Blank
<1>5. FreshLinks'
  BY <1>1 DEF OrderInv, FreshLinks
<1>6. TypedListed'
  BY <1>1, <1>3, <1>4 DEF OrderInv, TypedListed, Typed, Listed
<1>7. ASSUME NEW n \in Node, MainCopied(n)'
      PROVE  MainCopied(n) \/ (req = 0 /\ n = AtNode)
  BY <1>1, <1>7 DEF MainCopied, AtNode
<1>8. MainsListed'
  BY <1>2, <1>3, <1>7 DEF OrderInv, MainsListed
<1>9. MainsTyped'
  <2> SUFFICES ASSUME NEW n \in Node, MainType(n) # "None", MainCopied(n)'
               PROVE  Typed(Main(n))'
    BY <1>1 DEF MainsTyped, MainType
  <2>1. Main(n) \in Resource /\ Main(n).node = n /\ Main(n).part = "main"
    BY ResourceFacts
  <2>2. CASE req = 0 /\ n = AtNode
    BY <1>2, <1>4, <2>1, <2>2 DEF Typed
  <2>3. CASE MainCopied(n)
    <3>1. hot[Main(n)].type # "None"
      BY <2>3 DEF OrderInv, MainsTyped, Typed
    <3>2. r = Main(n) => type = MainType(n)
      <4>1. AtNode = Main(AtNode).node
        BY <1>1, ResourceFacts
      <4> QED
        BY <1>2, <2>1, <4>1
    <3> QED
      BY <1>4, <2>1, <3>1, <3>2 DEF Typed
  <2> QED
    BY <1>7, <2>2, <2>3
<1> QED
  BY <1>1, <1>5, <1>6, <1>8, <1>9, FreshStep

\* The cursors move, and what they say was done was done.
Progress ==
    /\ phase' = "nodes" => phase = "nodes"
    /\ phase \in Removing => phase' \in Removing
    /\ \A n \in Node :
        /\ MainCopied(n)' => MainCopied(n)
        /\ phase = "nodes" /\ phase' # "nodes" => MainCopied(n)
        /\ LifeCycleHandled(n)' => LifeCycleHandled(n)
        /\ \A q \in DOMAIN tpl.reqs[n] :
            DependDone(n, q)' => \E p \in SameTarget(n, q) : DependDone(n, p)

\* What is read off the template stays.
LEMMA SameTemplate ==
    ASSUME UNCHANGED tpl
    PROVE  \A n :
            /\ Declared(n)' = Declared(n) /\ MainType(n)' = MainType(n)
            /\ FirstOp(n)' = FirstOp(n) /\ LastOp(n)' = LastOp(n)
            /\ Deployments(n)' = Deployments(n)
            /\ \A op : OpDeploy(n, op)' = OpDeploy(n, op)
            /\ \A op, later :
                FollowsDirectly(n, op, later)' <=> FollowsDirectly(n, op, later)
            /\ \A q :
                /\ Target(n, q)' = Target(n, q)
                /\ Declared(Target(n, q))' = Declared(Target(n, q))
                /\ OpDeploy(Target(n, q), LastOp(Target(n, q)))' =
                        OpDeploy(Target(n, q), LastOp(Target(n, q)))
<1>1. \A n : Declared(n)' = Declared(n) /\ MainType(n)' = MainType(n)
  BY DEF Declared, MainType
<1>2. \A n : FirstOp(n)' = FirstOp(n) /\ LastOp(n)' = LastOp(n)
  BY <1>1 DEF FirstOp, LastOp
<1>3. \A n, op : OpDeploy(n, op)' = OpDeploy(n, op)
  BY <1>2 DEF OpDeploy
<1>4. \A n : Deployments(n)' = Deployments(n)
  BY <1>1, <1>3 DEF Deployments, OpDeploys
<1>5. \A n, op, later :
        FollowsDirectly(n, op, later)' <=> FollowsDirectly(n, op, later)
  BY <1>1 DEF FollowsDirectly
<1>6. \A n, q :
        /\ Target(n, q)' = Target(n, q)
        /\ Declared(Target(n, q))' = Declared(Target(n, q))
        /\ OpDeploy(Target(n, q), LastOp(Target(n, q)))' =
                OpDeploy(Target(n, q), LastOp(Target(n, q)))
  BY DEF Target, Declared, OpDeploy, LastOp, FirstOp
<1> QED
  BY <1>1, <1>2, <1>3, <1>4, <1>5, <1>6

\* A step that changes neither a list, a type nor a dependency.
LEMMA QuietStep ==
    ASSUME IInv, OrderInv, Progress, TypelessCopied',
           UNCHANGED <<tpl, resources, expanded, dependsOn, chain, lastDeploy>>,
           \A r \in Resource : hot'[r].type = hot[r].type
    PROVE  OrderInv'
<1>1. \A r \in Resource :
        (Typed(r)' <=> Typed(r)) /\ (IsDeployment(r)' <=> IsDeployment(r))
  BY DEF Typed, IsDeployment
<1>2. \A n \in Node : Main(n) \in Resource /\ Deployments(n) \subseteq Resource
  BY TemplateFacts, ResourceFacts DEF Deployments, OpDeploys, IInv
<1>3. FreshLinks'
  BY DEF OrderInv, Progress, FreshLinks
<1>4. TypedListed'
  BY <1>1 DEF OrderInv, TypedListed, Listed
<1>5. MainsListed'
  BY DEF OrderInv, Progress, MainsListed
<1>6. MainsTyped'
  BY <1>1, <1>2 DEF OrderInv, Progress, MainsTyped, MainType
<1>7. LifeCycleOrder'
  <2> SUFFICES ASSUME NEW n \in Node, LifeCycleHandled(n)'
               PROVE  /\ \A r \in Deployments(n) : IsDeployment(r)'
                      /\ Declared(n) # {} => lastDeploy[n] = OpDeploy(n, LastOp(n))
                      /\ \A op, later \in Declared(n) : FollowsDirectly(n, op, later) =>
                          OpDeploy(n, op) \in ToSet(dependsOn[OpDeploy(n, later)])
                      /\ tpl.roles[n] /\ Declared(n) # {} /\ FirstOp(n) # "create" =>
                          Roles(n) \in ToSet(dependsOn[OpDeploy(n, FirstOp(n))])
    BY SameTemplate DEF LifeCycleOrder
  <2>1. LifeCycleHandled(n)
    BY DEF Progress
  <2> QED
    BY <1>1, <1>2, <2>1 DEF OrderInv, LifeCycleOrder
<1>8. LinksTyped'
  BY <1>1, SentinelAssumption DEF OrderInv, LinksTyped, IInv, TypeOK
<1>9. DependenciesListed'
  BY <1>1 DEF OrderInv, Progress, DependenciesListed, Listed
<1>10. TypelessOnce'
  BY <1>1 DEF OrderInv, TypelessOnce
<1>11. LastCopied'
  <2> SUFFICES ASSUME NEW n \in Node, NEW q \in DOMAIN tpl.reqs[n], DependDone(n, q)',
                      Declared(Target(n, q)) # {}
               PROVE  OpDeploy(Target(n, q), LastOp(Target(n, q)))
                            \in ToSet(dependsOn[Main(n)])
    BY SameTemplate DEF LastCopied
  <2>1. PICK p \in SameTarget(n, q) : DependDone(n, p)
    BY DEF Progress
  <2>2. p \in DOMAIN tpl.reqs[n] /\ Target(n, p) = Target(n, q)
    BY DEF SameTarget
  <2> QED
    BY <2>1, <2>2 DEF OrderInv, LastCopied
<1> QED
  BY <1>3, <1>4, <1>5, <1>6, <1>7, <1>8, <1>9, <1>10, <1>11 DEF OrderInv

\* The cursors of the actions that change nothing else.
LEMMA CursorProgress ==
    ASSUME IInv, OrderInv,
           \/ SkipVolume \/ NextNode \/ FinishNodes \/ SkipAttachment
           \/ SkipConnect \/ SkipRelated \/ FinishDepend \/ RaiseNoHost
           \/ FinishHosting \/ FinishRemove
           \/ FollowLifeCycleHosting \/ FollowConnectHosting
    PROVE  Progress /\ TypelessCopied'
<1>0. /\ tpl \in Templates /\ tpl.listing \in Seq(Node)
      /\ pos \in Nat \ {0} /\ req \in Nat
      /\ \A n \in Node : tpl.reqs[n] \in Seq(Requirement)
      /\ \A n \in Node : \E i \in DOMAIN tpl.listing : tpl.listing[i] = n
  <2>1. tpl \in Templates /\ WellFormed(tpl) /\ tpl \in Template
    BY TemplatesAssumption DEF IInv, WellFormed
  <2>2. ToSet(tpl.listing) = Node
    BY <2>1 DEF WellFormed
  <2> QED
    BY <2>1, <2>2 DEF IInv, TypeOK, Template, ToSet
<1>1. \A n \in Node : \A q \in DOMAIN tpl.reqs[n] : q \in SameTarget(n, q)
  BY DEF SameTarget
<1>2. \A n \in Node : Main(n) \in Resource /\ Main(n).part = "main"
  BY ResourceFacts
<1>3. CASE SkipVolume \/ (NextNode /\ phase = "nodes") \/ FinishNodes
  <2>1. /\ UNCHANGED <<tpl, hot, resources, dependsOn>> /\ phase = "nodes"
        /\ phase' \in {"nodes", "lifecycle"}
        /\ phase' = "lifecycle" => pos > Len(tpl.listing) /\ pos' = 1
    BY <1>3 DEF SkipVolume, NextNode, FinishNodes, AtRequirement, links,
                NextRequirement, NextPosition, EnterPhase
  <2>2. ASSUME NEW n \in Node
        PROVE  /\ MainCopied(n)' => MainCopied(n)
               /\ phase' # "nodes" => MainCopied(n)
    <3>1. CASE SkipVolume
      BY <1>0, <2>1, <3>1 DEF SkipVolume, AtRequirement, NextRequirement, MainCopied
    <3>2. CASE NextNode
      <4>1. pos' = pos + 1 /\ req' = 0 /\ phase' = "nodes" /\ req > Len(tpl.reqs[AtNode])
        BY <2>1, <3>2 DEF NextNode, NextPosition
      <4>2. pos <= Len(tpl.listing) /\ AtNode \in Node
        BY <3>2, AtFacts DEF NextNode
      <4>3. req > 0
        BY <1>0, <4>1, <4>2
      <4> QED
        BY <1>0, <2>1, <4>1, <4>3 DEF MainCopied
    <3>3. CASE FinishNodes
      <4>1. pos > Len(tpl.listing)
        BY <3>3 DEF FinishNodes
      <4> QED
        BY <1>0, <2>1, <4>1 DEF MainCopied
    <3> QED
      BY <1>3, <3>1, <3>2, <3>3
  <2>3. \A n \in Node : ~ LifeCycleHandled(n)'
    BY <1>0, <2>1 DEF LifeCycleHandled, IInv, TypeOK
  <2>4. \A n, q : ~ DependDone(n, q)'
    BY <2>1 DEF DependDone, Removing
  <2>5. Progress
    BY <2>1, <2>2, <2>3, <2>4 DEF Progress, Removing
  <2>6. TypelessCopied'
    BY <2>1 DEF OrderInv, TypelessCopied, Typed
  <2> QED
    BY <2>5, <2>6
<1>4. CASE FollowLifeCycleHosting \/ FollowConnectHosting
  <2>1. UNCHANGED <<tpl, phase, pos, req, hot, resources, dependsOn>>
    BY <1>4 DEF FollowLifeCycleHosting, FollowConnectHosting, FollowHosting, links
  <2>2. phase \in {"lifecycle", "connect"}
    BY <1>4 DEF FollowLifeCycleHosting, FollowConnectHosting, AtRequirement
  <2>3. Progress
    BY <2>1, <2>2, <1>1 DEF Progress, MainCopied, LifeCycleHandled, DependDone, Removing
  <2>4. TypelessCopied'
    BY <2>1, <2>2 DEF OrderInv, TypelessCopied, Typed
  <2> QED
    BY <2>3, <2>4
<1>5. CASE SkipAttachment
  <2>1. /\ UNCHANGED <<tpl, phase, hot, resources, dependsOn>> /\ phase = "lifecycle"
        /\ pos' = pos + 1 /\ resources[pos].part = "attachment"
    BY <1>5 DEF SkipAttachment, NextPosition, links, AtResource
  <2>2. ASSUME NEW n \in Node, LifeCycleHandled(n)' PROVE LifeCycleHandled(n)
    <3>1. PICK i \in DOMAIN resources : i < pos + 1 /\ resources[i] = Main(n)
      BY <2>1, <2>2 DEF LifeCycleHandled
    <3>2. i # pos
      BY <1>2, <2>1, <3>1
    <3>3. i \in Nat
      BY DEF IInv, TypeOK
    <3> QED
      BY <1>0, <2>1, <3>1, <3>2, <3>3 DEF LifeCycleHandled
  <2>3. Progress
    BY <2>1, <2>2 DEF Progress, MainCopied, DependDone, Removing
  <2>4. TypelessCopied'
    BY <2>1 DEF OrderInv, TypelessCopied, Typed
  <2> QED
    BY <2>3, <2>4
<1>6. CASE SkipConnect \/ (NextNode /\ phase = "connect")
  <2>1. /\ UNCHANGED <<tpl, phase, hot, resources, dependsOn>> /\ phase = "connect"
    BY <1>6 DEF SkipConnect, NextNode, NextPosition, NextRequirement, AtRequirement, links
  <2>2. Progress
    BY <2>1 DEF Progress, MainCopied, LifeCycleHandled, DependDone, Removing
  <2>3. TypelessCopied'
    BY <2>1 DEF OrderInv, TypelessCopied, Typed
  <2> QED
    BY <2>2, <2>3
<1>7. CASE SkipRelated \/ (NextNode /\ phase = "depend")
  <2>1. /\ UNCHANGED <<tpl, phase, hot, resources, dependsOn>> /\ phase = "depend"
        /\ pos \in DOMAIN tpl.listing /\ AtNode \in Node
    BY <1>0, <1>7, AtFacts
       DEF SkipRelated, NextNode, NextPosition, NextRequirement, AtRequirement, links
  <2>2. CASE SkipRelated
    <3>1. /\ pos' = pos /\ req' = req + 1 /\ NamedBefore(AtNode, req)
      BY <2>2 DEF SkipRelated, NextRequirement
    <3>2. PICK o \in SameTarget(AtNode, req) : o < req
      BY <3>1 DEF NamedBefore
    <3>3. ASSUME NEW n \in Node, NEW q \in DOMAIN tpl.reqs[n], DependDone(n, q)'
          PROVE  \E p \in SameTarget(n, q) : DependDone(n, p)
      <4>1. q \in Nat
        BY <1>0
      <4>2. CASE DependDone(n, q)
        BY <1>1, <4>2
      <4>3. CASE n = AtNode /\ q = req
        BY <2>1, <3>2, <4>3 DEF DependDone, AtNode
      <4>4. PICK i \in DOMAIN tpl.listing :
                tpl.listing[i] = n /\ (i < pos \/ (i = pos /\ q < req + 1))
        BY <2>1, <3>1, <3>3 DEF DependDone, Removing
      <4>5. DependDone(n, q) \/ (n = AtNode /\ q = req)
        BY <1>0, <2>1, <4>1, <4>4 DEF DependDone, AtNode
      <4> QED
        BY <4>2, <4>3, <4>5
    <3>4. Progress
      BY <2>1, <3>3 DEF Progress, MainCopied, LifeCycleHandled, Removing
    <3>5. \A p \in 1..(req - 1) : p \in 1..(req' - 1)
      BY <1>0, <3>1
    <3>6. TypelessCopied'
      BY <2>1, <3>1, <3>5 DEF OrderInv, TypelessCopied, Typed, Target
    <3> QED
      BY <3>4, <3>6
  <2>3. CASE NextNode
    <3>1. pos' = pos + 1 /\ req' = 1 /\ req > Len(tpl.reqs[AtNode])
      BY <2>1, <2>3 DEF NextNode, NextPosition
    <3>2. ASSUME NEW n \in Node, NEW q \in DOMAIN tpl.reqs[n], DependDone(n, q)'
          PROVE  DependDone(n, q)
      <4>1. q \in 1..Len(tpl.reqs[n]) /\ Len(tpl.reqs[n]) \in Nat
        BY <1>0
      <4>2. PICK i \in DOMAIN tpl.listing : tpl.listing[i] = n /\ i < pos + 1
        BY <1>0, <2>1, <3>1, <3>2, <4>1 DEF DependDone, Removing
      <4>3. CASE i = pos
        <5>1. q < req
          BY <1>0, <3>1, <4>1, <4>2, <4>3 DEF AtNode
        <5> QED
          BY <2>1, <4>2, <4>3, <5>1 DEF DependDone
      <4>4. CASE i < pos
        BY <2>1, <4>2, <4>4 DEF DependDone
      <4> QED
        BY <1>0, <4>2, <4>3, <4>4
    <3>3. Progress
      BY <1>1, <2>1, <3>2 DEF Progress, MainCopied, LifeCycleHandled, Removing
    <3>4. \A i \in DOMAIN tpl.listing : i >= pos' => i >= pos /\ i # pos
      BY <1>0, <3>1
    <3>5. TypelessCopied'
      BY <2>1, <3>4 DEF OrderInv, TypelessCopied, Typed, Target
    <3> QED
      BY <3>3, <3>5
  <2> QED
    BY <1>7, <2>2, <2>3
<1>8. CASE FinishDepend
  <2>1. /\ UNCHANGED <<tpl, hot, resources, dependsOn>> /\ phase = "depend"
        /\ phase' = "hosting" /\ pos > Len(tpl.listing)
    BY <1>8 DEF FinishDepend, EnterPhase, links
  <2>2. \A n \in Node : \A q : DependDone(n, q)
    BY <1>0, <2>1 DEF DependDone
  <2>3. Progress
    BY <1>1, <2>1, <2>2 DEF Progress, MainCopied, LifeCycleHandled, Removing
  <2> QED
    BY <2>1, <2>3 DEF TypelessCopied
<1>9. CASE RaiseNoHost \/ FinishHosting \/ FinishRemove
  <2>1. phase \in {"hosting", "remove"} /\ phase' \in {"remove", "done", "failed"}
    BY <1>9 DEF RaiseNoHost, FinishHosting, FinishRemove, EnterPhase
  <2>2. Progress
    BY <1>1, <2>1 DEF Progress, MainCopied, LifeCycleHandled, DependDone, Removing
  <2> QED
    BY <2>1, <2>2 DEF TypelessCopied
<1> QED
  BY <1>3, <1>4, <1>5, <1>6, <1>7, <1>8, <1>9 DEF NextNode

LEMMA CursorOrderStep ==
    ASSUME IInv, OrderInv,
           \/ SkipVolume \/ NextNode \/ FinishNodes \/ SkipAttachment
           \/ SkipConnect \/ SkipRelated \/ FinishDepend \/ RaiseNoHost
           \/ FinishHosting \/ FinishRemove
           \/ FollowLifeCycleHosting \/ FollowConnectHosting
    PROVE  OrderInv'
<1>1. UNCHANGED <<tpl, resources, expanded, hot, dependsOn, chain, lastDeploy>>
  BY DEF links, SkipVolume, NextNode, FinishNodes, SkipAttachment, SkipConnect,
         SkipRelated, FinishDepend, RaiseNoHost, FinishHosting, FinishRemove,
         FollowLifeCycleHosting, FollowConnectHosting, FollowHosting
<1> QED
  BY <1>1, CursorProgress, QuietStep

\* The deployments of a node: of its operations, and of its roles.
LEMMA DeploymentsFacts ==
    ASSUME tpl \in Templates, NEW n \in Node
    PROVE  /\ Deployments(n) \subseteq Resource
           /\ \A r \in Deployments(n) : r.node = n /\ r.part # "connect"
           /\ \A op \in Declared(n) : OpDeploy(n, op) \in Deployments(n)
           /\ tpl.roles[n] => Roles(n) \in Deployments(n)
           /\ Declared(n) # {} =>
                /\ FirstOp(n) \in Declared(n)
                /\ LastOp(n) \in Declared(n)
<1>1. Declared(n) \subseteq Operation
  BY TemplateFacts
<1>2. \A op \in Declared(n) :
        /\ OpDeploy(n, op) \in Resource /\ OpDeploy(n, op).node = n
        /\ OpDeploy(n, op).part # "connect"
  BY <1>1, ResourceFacts DEF Operation
<1>3. /\ Roles(n) \in Resource /\ Roles(n).node = n /\ Roles(n).part # "connect"
  BY ResourceFacts
<1>4. Declared(n) # {} => FirstOp(n) \in Declared(n) /\ LastOp(n) \in Declared(n)
  BY <1>1, FirstOpFacts, LastOpFacts
<1> QED
  BY <1>2, <1>3, <1>4 DEF Deployments, OpDeploys

\* Pass "hosting" changes servers only.
LEMMA HostingOrderStep ==
    ASSUME IInv, OrderInv, HandleHosting
    PROVE  OrderInv'
<1>1. /\ AtResource \in Resource /\ phase = "hosting" /\ phase' = "hosting"
      /\ UNCHANGED <<tpl, resources, expanded, dependsOn, chain, lastDeploy>>
  BY AtFacts DEF HandleHosting, NextPosition, links
<1>2. \A r \in Resource : hot[r] \in HotAttributes /\ hot \in [Resource -> HotAttributes]
  BY DEF IInv, TypeOK
<1>3. \A r \in Resource : hot'[r].type = hot[r].type
  <2>1. hot' = [hot EXCEPT ![AtResource] =
                    IF IsDeployment(AtResource) /\ HostServer(AtResource).form = "map"
                    THEN [Pruned(AtResource) EXCEPT !.servers = HostServer(AtResource)]
                    ELSE Pruned(AtResource)]
    BY DEF HandleHosting
  <2>2. Pruned(AtResource) \in HotAttributes
    BY <1>1, <1>2 DEF Pruned, HotAttributes
  <2>3. Pruned(AtResource).type = hot[AtResource].type
    BY <1>1, <1>2 DEF Pruned, HotAttributes
  <2>4. \A v : [Pruned(AtResource) EXCEPT !.servers = v].type = hot[AtResource].type
    BY <2>2, <2>3 DEF HotAttributes
  <2> QED
    BY <1>1, <1>2, <2>1, <2>3, <2>4
<1>4. \A n \in Node : \A q \in DOMAIN tpl.reqs[n] : q \in SameTarget(n, q)
  BY DEF SameTarget
<1>5. Progress /\ TypelessCopied'
  BY <1>1, <1>4
     DEF Progress, MainCopied, LifeCycleHandled, DependDone, Removing, TypelessCopied
<1> QED
  BY <1>1, <1>3, <1>5, QuietStep

\* The resources that a pass made join the list.
LEMMA ExpandOrderStep ==
    ASSUME IInv, OrderInv, FinishLifeCycle \/ FinishConnect
    PROVE  OrderInv'
<1>1. /\ resources' = resources \o expanded /\ expanded' = <<>>
      /\ UNCHANGED <<tpl, hot, dependsOn, chain, lastDeploy>>
      /\ phase \in {"lifecycle", "connect"} /\ phase' \in {"connect", "depend"}
      /\ phase = "lifecycle" => pos > Len(resources)
      /\ phase' = "depend" => phase = "connect"
      /\ pos' = 1 /\ req' = 1
  BY DEF FinishLifeCycle, FinishConnect, EnterPhase, links
<1>2. /\ resources \in Seq(Resource) /\ expanded \in Seq(Resource)
      /\ tpl \in Templates /\ pos \in Nat
  BY DEF IInv, TypeOK
<1>3. /\ ToSet(resources') = ToSet(resources) \cup ToSet(expanded)
      /\ ToSet(expanded') = {}
  <2>1. ToSet(resources \o expanded) = ToSet(resources) \cup ToSet(expanded)
    BY <1>2, ConcatElements
  <2>2. ToSet(<<>>) = {}
    BY DEF ToSet
  <2> QED
    BY <1>1, <2>1, <2>2
<1>4. Listed' = Listed
  BY <1>3 DEF Listed
<1>5. \A r : (Typed(r)' <=> Typed(r)) /\ (IsDeployment(r)' <=> IsDeployment(r))
  BY <1>1 DEF Typed, IsDeployment
<1>6. \A n \in Node : MainCopied(n) /\ Main(n) \in ToSet(resources)
  BY <1>1 DEF OrderInv, MainsListed, MainCopied
<1>7. \A n \in Node : LifeCycleHandled(n)
  <2> SUFFICES ASSUME NEW n \in Node, phase = "lifecycle"
               PROVE  \E i \in DOMAIN resources : i < pos /\ resources[i] = Main(n)
    BY <1>1 DEF LifeCycleHandled
  <2>1. PICK i \in DOMAIN resources : resources[i] = Main(n)
    BY <1>6 DEF ToSet
  <2> QED
    BY <1>1, <1>2, <2>1
<1>8. FreshLinks' /\ MainsListed'
  BY <1>1, <1>3, <1>6 DEF FreshLinks, MainsListed
<1>9. TypedListed' /\ TypelessOnce'
  BY <1>1, <1>4, <1>5 DEF OrderInv, TypedListed, TypelessOnce
<1>10. MainsTyped'
  BY <1>1, <1>5, <1>6, SameTemplate DEF OrderInv, MainsTyped
<1>11. LifeCycleOrder'
  BY <1>1, <1>5, <1>7, SameTemplate DEF OrderInv, LifeCycleOrder
<1>12. LinksTyped'
  BY <1>1, <1>5 DEF OrderInv, LinksTyped, Typed
<1>13. DependenciesListed'
  BY <1>1, <1>4 DEF OrderInv, DependenciesListed, Removing
<1>14. TypelessCopied'
  <2>1. \A n \in Node : \A d \in ToSet(dependsOn[Main(n)]) : Typed(d)
    BY <1>1 DEF OrderInv, TypelessCopied
  <2>2. \A i \in DOMAIN tpl.listing : tpl.listing[i] \in Node
    <3>1. tpl.listing \in Seq(Node)
      BY <1>2, TemplateFacts DEF Template
    <3> QED
      BY <3>1
  <2> QED
    BY <1>1, <1>5, <2>1, <2>2 DEF TypelessCopied
<1>15. LastCopied'
  <2>1. ASSUME NEW n \in Node, NEW q \in DOMAIN tpl.reqs[n]
        PROVE  ~ DependDone(n, q)'
    <3>1. q \in 1..MaxRequirements
      BY <1>2, TemplateFacts
    <3>2. tpl.listing \in Seq(Node)
      BY <1>2, TemplateFacts DEF Template
    <3> QED
      BY <1>1, <3>1, <3>2, BoundsAssumption DEF DependDone, Removing
  <2> QED
    BY <1>1, <2>1 DEF LastCopied
<1> QED
  BY <1>8, <1>9, <1>10, <1>11, <1>12, <1>13, <1>14, <1>15 DEF OrderInv

\* Pass "connect": a deployment that waits for the end it configures.
LEMMA ConnectOrderStep ==
    ASSUME IInv, OrderInv, HandleConnectsTo
    PROVE  OrderInv'
<1> DEFINE r == Connect(AtNode, req)
           deployment == Deployment(Visited(ConnectEnd))
           end == Main(ConnectEnd)
<1>1. /\ phase = "connect" /\ phase' = "connect" /\ tpl \in Templates
      /\ AtNode \in Node /\ req \in DOMAIN tpl.reqs[AtNode]
      /\ UNCHANGED <<tpl, resources, chain, lastDeploy>>
  <2>1. AtNode \in Node /\ req \in 1..Len(tpl.reqs[AtNode])
    BY AtFacts DEF HandleConnectsTo, AtRequirement
  <2> QED
    BY <2>1, TemplateFacts DEF HandleConnectsTo, AtRequirement, NextRequirement, IInv
<1>2. /\ r \in Resource /\ r.part = "connect" /\ ConnectEnd \in Node
  BY <1>1, TemplateFacts, ResourceFacts DEF ConnectEnd
<1>3. /\ expanded' = Append(expanded, r)
      /\ hot' = [hot EXCEPT ![r] = deployment]
      /\ dependsOn' = [dependsOn EXCEPT ![r] = <<end>>]
  BY DEF HandleConnectsTo
<1>4. deployment.type \in {SD, SDGroup}
  BY DEF Deployment, Blank
<1> HIDE DEF r, deployment
<1>5. /\ hot \in [Resource -> HotAttributes]
      /\ dependsOn \in [Resource -> Seq(Resource)]
      /\ resources \in Seq(Resource) /\ expanded \in Seq(Resource)
  BY DEF IInv, TypeOK
<1>6. Listed' = Listed \cup {r}
  BY <1>1, <1>2, <1>3, <1>5, AppendElements DEF Listed
<1>7. \A x \in Resource :
        /\ Typed(x)' <=> Typed(x) \/ x = r
        /\ IsDeployment(x) => IsDeployment(x)'
        /\ x # r => dependsOn'[x] = dependsOn[x]
  BY <1>2, <1>3, <1>4, <1>5 DEF Typed, IsDeployment, SD, SDGroup
<1>8. \A n \in Node : Main(n) \in Resource /\ Main(n) # r /\ Main(n) \in Listed
  <2>1. \A n \in Node : Main(n) \in Resource /\ Main(n).part = "main"
    BY ResourceFacts
  <2>2. \A n \in Node : Main(n) \in ToSet(resources)
    BY <1>1 DEF OrderInv, MainsListed, MainCopied
  <2> QED
    BY <1>2, <2>1, <2>2 DEF Listed
<1>9. FreshLinks' /\ MainsListed'
  BY <1>1 DEF OrderInv, FreshLinks, MainsListed, MainCopied
<1>10. TypedListed'
  BY <1>6, <1>7 DEF OrderInv, TypedListed
<1>11. MainsTyped'
  BY <1>1, <1>7, <1>8, SameTemplate DEF OrderInv, MainsTyped
<1>12. LifeCycleOrder'
  <2> SUFFICES ASSUME NEW n \in Node
               PROVE  /\ \A x \in Deployments(n) : IsDeployment(x)'
                      /\ Declared(n) # {} => lastDeploy[n] = OpDeploy(n, LastOp(n))
                      /\ \A op, later \in Declared(n) :
                          FollowsDirectly(n, op, later) =>
                          OpDeploy(n, op) \in ToSet(dependsOn'[OpDeploy(n, later)])
                      /\ tpl.roles[n] /\ Declared(n) # {} /\ FirstOp(n) # "create" =>
                          Roles(n) \in ToSet(dependsOn'[OpDeploy(n, FirstOp(n))])
    BY <1>1, SameTemplate DEF LifeCycleOrder
  <2>1. LifeCycleHandled(n)
    BY <1>1 DEF LifeCycleHandled
  <2>2. \A x \in Deployments(n) : x \in Resource /\ x # r
    BY <1>1, <1>2, DeploymentsFacts
  <2>3. \A op \in Declared(n) : dependsOn'[OpDeploy(n, op)] = dependsOn[OpDeploy(n, op)]
    BY <1>1, <1>7, <2>2, DeploymentsFacts
  <2>4. Declared(n) # {} => FirstOp(n) \in Declared(n)
    BY <1>1, DeploymentsFacts
  <2> QED
    BY <1>7, <2>1, <2>2, <2>3, <2>4 DEF OrderInv, LifeCycleOrder
<1>13. LinksTyped'
  BY <1>1, <1>7, SentinelAssumption DEF OrderInv, LinksTyped, IInv, TypeOK
<1>14. ASSUME NEW x \in Resource
       PROVE  /\ ToSet(dependsOn'[x]) \subseteq Listed
              /\ \A y \in Resource : ~ Typed(y) => Once(dependsOn'[x], y)
  <2>1. CASE x = r
    <3>1. dependsOn'[x] = <<end>> /\ end \in Listed
      BY <1>2, <1>3, <1>5, <1>8, <2>1
    <3> HIDE DEF end
    <3> QED
      BY <3>1 DEF ToSet, Once
  <2>2. CASE x # r
    <3>1. dependsOn'[x] = dependsOn[x]
      BY <1>7, <2>2
    <3> QED
      BY <1>1, <3>1 DEF OrderInv, DependenciesListed, TypelessOnce, Removing
  <2> QED
    BY <2>1, <2>2
<1>15. DependenciesListed' /\ TypelessOnce'
  BY <1>6, <1>7, <1>14 DEF DependenciesListed, TypelessOnce
<1>16. TypelessCopied'
  <2>1. \A n \in Node : ToSet(dependsOn[Main(n)]) \subseteq Resource
    BY <1>5, <1>8 DEF ToSet
  <2> QED
    BY <1>1, <1>7, <1>8, <2>1 DEF OrderInv, TypelessCopied
<1>17. LastCopied'
  BY <1>1 DEF LastCopied, DependDone, Removing
<1> QED
  BY <1>9, <1>10, <1>11, <1>12, <1>13, <1>15, <1>16, <1>17 DEF OrderInv

\* Pass "remove": a resource without a type goes, and with it the one mention
\* of it in each depends_on.
LEMMA RemoveOrderStep ==
    ASSUME IInv, OrderInv, RemoveTypeless, expanded = <<>>
    PROVE  OrderInv'
<1>1. PICK i \in Typeless :
        /\ resources' = RemoveFirst(resources, resources[i])
        /\ dependsOn' = [r \in Resource |->
                IF Stays(r) THEN RemoveFirst(dependsOn[r], resources[i])
                ELSE dependsOn[r]]
  BY DEF RemoveTypeless
<1> DEFINE gone == resources[i]
<1>2. /\ phase = "remove" /\ phase' = "remove" /\ tpl \in Templates
      /\ UNCHANGED <<tpl, expanded, hot, chain, lastDeploy>>
  BY DEF RemoveTypeless, cursors, IInv
<1>3. /\ resources \in Seq(Resource) /\ dependsOn \in [Resource -> Seq(Resource)]
  BY DEF IInv, TypeOK
<1>4. gone \in Resource /\ ~ Typed(gone)
  BY <1>3 DEF Typeless, Typed
<1>5. /\ resources' = RemoveFirst(resources, gone)
      /\ dependsOn' = [r \in Resource |->
                IF Stays(r) THEN RemoveFirst(dependsOn[r], gone) ELSE dependsOn[r]]
  BY <1>1
<1> HIDE DEF gone
<1>6. \A x \in Resource :
        (Typed(x)' <=> Typed(x)) /\ (IsDeployment(x)' <=> IsDeployment(x))
  BY <1>2 DEF Typed, IsDeployment
<1>7. Listed = ToSet(resources) /\ Listed' = ToSet(resources')
  BY <1>2 DEF Listed, ToSet
<1>8. \A x : x \in Listed /\ x # gone => x \in Listed'
  BY <1>3, <1>5, <1>7, RemoveFirstElements
<1>9. ASSUME NEW r \in Resource
      PROVE  /\ dependsOn'[r] \in Seq(Resource)
             /\ \A x \in ToSet(dependsOn[r]) : Typed(x) => x \in ToSet(dependsOn'[r])
             /\ \A x : Once(dependsOn[r], x) => Once(dependsOn'[r], x)
             /\ Typed(r) => gone \notin ToSet(dependsOn'[r])
             /\ ToSet(dependsOn'[r]) \subseteq ToSet(dependsOn[r])
  <2>1. dependsOn[r] \in Seq(Resource)
    BY <1>3
  <2>2. CASE Stays(r)
    <3>1. dependsOn'[r] = RemoveFirst(dependsOn[r], gone)
      BY <1>5, <2>2
    <3>2. Once(dependsOn[r], gone)
      BY <1>4 DEF OrderInv, TypelessOnce
    <3> QED
      BY <1>4, <2>1, <3>1, <3>2, RemoveFirstElements, RemoveFirstProperties
  <2>3. CASE ~ Stays(r)
    <3>1. dependsOn'[r] = dependsOn[r]
      BY <1>5, <2>3
    <3>2. ~ Typed(r)
      <4> SUFFICES ASSUME Typed(r) PROVE Stays(r)
        BY <2>3
      <4>1. r \in ToSet(resources)
        BY <1>7 DEF OrderInv, TypedListed
      <4>2. DOMAIN resources = 1..Len(resources)
        BY <1>3
      <4>3. Contains(resources, r)
        BY <4>1, <4>2, Zenon DEF Contains, ToSet
      <4> QED
        BY <4>3 DEF Stays, Typed
    <3> QED
      BY <2>1, <3>1, <3>2
  <2> QED
    BY <2>2, <2>3
<1>10. \A n \in Node : \A x \in Deployments(n) : x \in Resource /\ Typed(x)
  <2>1. \A n \in Node : LifeCycleHandled(n)
    BY <1>2 DEF LifeCycleHandled
  <2> QED
    BY <1>2, <2>1, DeploymentsFacts DEF OrderInv, LifeCycleOrder, IsDeployment, Typed, SD,
       SDGroup
<1>11. FreshLinks' /\ MainsListed' /\ TypelessCopied'
  BY <1>2 DEF FreshLinks, MainsListed, MainCopied, TypelessCopied
<1>12. TypedListed'
  BY <1>4, <1>6, <1>8 DEF OrderInv, TypedListed
<1>13. MainsTyped'
  BY <1>2, <1>6, ResourceFacts, SameTemplate DEF OrderInv, MainsTyped
<1>14. LifeCycleOrder'
  <2> SUFFICES ASSUME NEW n \in Node
               PROVE  /\ \A x \in Deployments(n) : IsDeployment(x)'
                      /\ Declared(n) # {} => lastDeploy[n] = OpDeploy(n, LastOp(n))
                      /\ \A op, later \in Declared(n) :
                          FollowsDirectly(n, op, later) =>
                          OpDeploy(n, op) \in ToSet(dependsOn'[OpDeploy(n, later)])
                      /\ tpl.roles[n] /\ Declared(n) # {} /\ FirstOp(n) # "create" =>
                          Roles(n) \in ToSet(dependsOn'[OpDeploy(n, FirstOp(n))])
    BY <1>2, SameTemplate DEF LifeCycleOrder
  <2>1. LifeCycleHandled(n)
    BY <1>2 DEF LifeCycleHandled
  <2>2. /\ \A x \in Deployments(n) : x \in Resource /\ Typed(x)
        /\ \A op \in Declared(n) : OpDeploy(n, op) \in Deployments(n)
        /\ tpl.roles[n] => Roles(n) \in Deployments(n)
        /\ Declared(n) # {} => FirstOp(n) \in Declared(n)
    BY <1>2, <1>10, DeploymentsFacts
  <2>3. /\ \A x \in Deployments(n) : IsDeployment(x)
        /\ Declared(n) # {} => lastDeploy[n] = OpDeploy(n, LastOp(n))
        /\ \A op, later \in Declared(n) : FollowsDirectly(n, op, later) =>
            OpDeploy(n, op) \in ToSet(dependsOn[OpDeploy(n, later)])
        /\ tpl.roles[n] /\ Declared(n) # {} /\ FirstOp(n) # "create" =>
            Roles(n) \in ToSet(dependsOn[OpDeploy(n, FirstOp(n))])
    BY <2>1 DEF OrderInv, LifeCycleOrder
  <2> QED
    BY <1>6, <1>9, <2>2, <2>3
<1>15. LinksTyped'
  BY <1>2, <1>6, SentinelAssumption DEF OrderInv, LinksTyped, IInv, TypeOK
<1>16. DependenciesListed'
  <2> SUFFICES ASSUME NEW r \in Resource, Typed(r), NEW d \in ToSet(dependsOn'[r])
               PROVE  d \in Listed'
    BY <1>2, <1>6 DEF DependenciesListed, Removing
  <2> QED
    BY <1>8, <1>9 DEF OrderInv, DependenciesListed
<1>17. TypelessOnce'
  BY <1>6, <1>9 DEF OrderInv, TypelessOnce
<1>18. LastCopied'
  <2> SUFFICES ASSUME NEW n \in Node, NEW q \in DOMAIN tpl.reqs[n],
                      Declared(Target(n, q)) # {}
               PROVE  OpDeploy(Target(n, q), LastOp(Target(n, q)))
                            \in ToSet(dependsOn'[Main(n)])
    BY <1>2, SameTemplate DEF LastCopied
  <2>1. Target(n, q) \in Node /\ Main(n) \in Resource
    BY <1>2, TemplateFacts, ResourceFacts
  <2>2. Typed(OpDeploy(Target(n, q), LastOp(Target(n, q))))
    BY <1>2, <1>10, <2>1, DeploymentsFacts
  <2>3. DependDone(n, q)
    BY <1>2 DEF DependDone, Removing
  <2> QED
    BY <1>9, <2>1, <2>2, <2>3 DEF OrderInv, LastCopied
<1> QED
  BY <1>11, <1>12, <1>13, <1>14, <1>15, <1>16, <1>17, <1>18 DEF OrderInv

\* Operations of a node have deployments of their own.
LEMMA OpDeployInjective ==
    ASSUME tpl \in Templates, NEW n \in Node,
           NEW op \in Declared(n), NEW o \in Declared(n),
           OpDeploy(n, op) = OpDeploy(n, o)
    PROVE  op = o
<1>1. Declared(n) \subseteq Operation
  BY TemplateFacts
<1>2. op # "main" /\ o # "main"
  BY <1>1 DEF Operation
<1>3. \A p \in Declared(n) :
        OpDeploy(n, p).part =
            IF tpl.kind[n] # "compute" /\ p = FirstOp(n) THEN "main" ELSE p
  BY DEF OpDeploy, Main
<1> QED
  BY <1>2, <1>3

\* handle_life_cycle gives a resource one dependency at most: on the deployment
\* of the operation before, or on the roles.
LEMMA LifeCycleDependencyUnique ==
    ASSUME tpl \in Templates, NEW n \in Node, NEW r,
           NEW x \in LifeCycleDependencies(n, r),
           NEW y \in LifeCycleDependencies(n, r)
    PROVE  x = y
<1>1. Declared(n) \subseteq Operation
  BY TemplateFacts
<1>2. /\ \A op \in Operation : OpIndex[op] \in 0..2
      /\ \A op, o \in Operation : OpIndex[op] = OpIndex[o] => op = o
  BY DEF OpIndex, Operation
<1> DEFINE Before(z) == \E o, later \in Declared(n) :
                /\ z = OpDeploy(n, o) /\ r = OpDeploy(n, later)
                /\ FollowsDirectly(n, o, later)
           First(z) == /\ z = Roles(n) /\ Declared(n) # {}
                       /\ r = OpDeploy(n, FirstOp(n))
<1>3. \A z \in LifeCycleDependencies(n, r) : Before(z) \/ First(z)
  BY DEF LifeCycleDependencies
<1>4. ASSUME Before(x), Before(y)
      PROVE  x = y
  <2>1. PICK o1, l1 \in Declared(n) :
            /\ x = OpDeploy(n, o1) /\ r = OpDeploy(n, l1)
            /\ FollowsDirectly(n, o1, l1)
    BY <1>4
  <2>2. PICK o2, l2 \in Declared(n) :
            /\ y = OpDeploy(n, o2) /\ r = OpDeploy(n, l2)
            /\ FollowsDirectly(n, o2, l2)
    BY <1>4
  <2>3. l1 = l2
    BY <2>1, <2>2, OpDeployInjective
  <2>4. OpIndex[o1] = OpIndex[o2]
    <3>1. OpIndex[o1] \in 0..2 /\ OpIndex[o2] \in 0..2
      BY <1>1, <1>2
    <3>2. ~ (OpIndex[o1] < OpIndex[o2]) /\ ~ (OpIndex[o2] < OpIndex[o1])
      BY <2>1, <2>2, <2>3 DEF FollowsDirectly
    <3> QED
      BY <3>1, <3>2
  <2> QED
    BY <1>1, <1>2, <2>1, <2>2, <2>4
<1>5. ~ (\E z, w : Before(z) /\ First(w))
  <2> SUFFICES ASSUME NEW o \in Declared(n), NEW later \in Declared(n),
                      OpDeploy(n, FirstOp(n)) = OpDeploy(n, later),
                      FollowsDirectly(n, o, later)
               PROVE  FALSE
    OBVIOUS
  <2>1. /\ FirstOp(n) \in Declared(n)
        /\ \A p \in Declared(n) : OpIndex[FirstOp(n)] <= OpIndex[p]
    BY <1>1, FirstOpFacts
  <2>2. later = FirstOp(n)
    BY <2>1, OpDeployInjective
  <2>3. OpIndex[o] \in 0..2 /\ OpIndex[later] \in 0..2
    BY <1>1, <1>2
  <2> QED
    BY <2>1, <2>2, <2>3 DEF FollowsDirectly
<1>6. First(x) /\ First(y) => x = y
  OBVIOUS
<1> HIDE DEF Before, First
<1> QED
  BY <1>3, <1>4, <1>5, <1>6

\* The dependencies after handle_life_cycle of node n.
LEMMA AppendedFacts ==
    ASSUME tpl \in Templates, dependsOn \in [Resource -> Seq(Resource)],
           NEW n \in Node, NEW r \in Resource
    PROVE  /\ ToSet(AppendLifeCycle(n, dependsOn)[r]) =
                    ToSet(dependsOn[r]) \cup LifeCycleDependencies(n, r)
           /\ \A x : x \notin Deployments(n) /\ Once(dependsOn[r], x)
                        => Once(AppendLifeCycle(n, dependsOn)[r], x)
           /\ LifeCycleDependencies(n, r) \subseteq Deployments(n)
           /\ LifeCycleDependencies(n, r) # {} => r \in Deployments(n)
<1>1. LifeCycleDependencies(n, r) \subseteq Deployments(n)
  BY DeploymentsFacts DEF LifeCycleDependencies
<1>2. LifeCycleDependencies(n, r) # {} => r \in Deployments(n)
  BY DeploymentsFacts DEF LifeCycleDependencies
<1>3. CASE LifeCycleDependencies(n, r) = {}
  <2>1. AppendLifeCycle(n, dependsOn)[r] = dependsOn[r]
    BY <1>3 DEF AppendLifeCycle
  <2> QED
    BY <1>1, <1>2, <1>3, <2>1
<1>4. CASE LifeCycleDependencies(n, r) # {}
  <2> DEFINE y == CHOOSE x \in LifeCycleDependencies(n, r) : TRUE
  <2>1. y \in LifeCycleDependencies(n, r)
    BY <1>4
  <2>2. AppendLifeCycle(n, dependsOn)[r] = Append(dependsOn[r], y)
    BY <1>4 DEF AppendLifeCycle
  <2> HIDE DEF y
  <2>3. LifeCycleDependencies(n, r) = {y}
    BY <2>1, LifeCycleDependencyUnique
  <2>4. y \in Resource /\ y \in Deployments(n)
    BY <1>1, <2>1, DeploymentsFacts
  <2>5. ToSet(Append(dependsOn[r], y)) = ToSet(dependsOn[r]) \cup {y}
    BY <2>4, AppendElements
  <2>6. \A x : x \notin Deployments(n) /\ Once(dependsOn[r], x)
                    => Once(Append(dependsOn[r], y), x)
    BY <2>4, AppendOnce
  <2> QED
    BY <1>1, <1>2, <2>2, <2>3, <2>5, <2>6
<1> QED
  BY <1>3, <1>4

\* The deployments of a node are its main resource, or added to the list.
LEMMA DeploymentsAdded ==
    ASSUME tpl \in Templates, expanded \in Seq(Resource), NEW n \in Node,
           expanded' = expanded \o AddedDeploys(n)
                            \o (IF tpl.roles[n] THEN <<Roles(n)>> ELSE <<>>)
    PROVE  /\ ToSet(expanded) \subseteq ToSet(expanded')
           /\ Deployments(n) \subseteq ToSet(expanded') \cup {Main(n)}
<1> DEFINE added == AddedDeploys(n)
           roles == IF tpl.roles[n] THEN <<Roles(n)>> ELSE <<>>
<1>1. /\ added \in Seq(Resource)
      /\ \A x \in OpDeploys(n) : x # Main(n) => x \in ToSet(added)
  BY AddedDeploysFacts
<1>2. roles \in Seq(Resource)
  BY ResourceFacts
<1>3. tpl.roles[n] => ToSet(roles) = {Roles(n)}
  BY DEF ToSet
<1>4. expanded' = (expanded \o added) \o roles
  OBVIOUS
<1> HIDE DEF added, roles
<1>5. /\ expanded \o added \in Seq(Resource)
      /\ ToSet(expanded \o added) = ToSet(expanded) \cup ToSet(added)
  BY <1>1, ConcatElements
<1> DEFINE most == expanded \o added
<1>6. most \in Seq(Resource) /\ ToSet(most) = ToSet(expanded) \cup ToSet(added)
  BY <1>5
<1>7. expanded' = most \o roles
  BY <1>4
<1> HIDE DEF most
<1>8. ToSet(most \o roles) = ToSet(most) \cup ToSet(roles)
  BY <1>2, <1>6, ConcatElements
<1> QED
  BY <1>1, <1>3, <1>6, <1>7, <1>8 DEF Deployments

\* Pass "lifecycle": the node's deployments get their types, their servers and
\* their order.
LEMMA LifeCycleOrderStep ==
    ASSUME IInv, OrderInv, HandleLifeCycle
    PROVE  OrderInv'
<1> DEFINE n == AtResource.node
           deployment == OpDeployment(n, Visited(n))
<1>1. /\ AtResource \in Resource /\ AtResource.part = "main"
      /\ pos \in DOMAIN resources /\ resources[pos] = AtResource
      /\ phase = "lifecycle" /\ phase' = "lifecycle" /\ pos' = pos + 1
      /\ tpl \in Templates /\ pos \in Nat /\ resources \in Seq(Resource)
      /\ UNCHANGED <<tpl, resources>>
  <2>1. pos \in Nat \ {0} /\ resources \in Seq(Resource)
    BY DEF IInv, TypeOK
  <2> QED
    BY <2>1, AtFacts DEF HandleLifeCycle, NextPosition, IInv, AtResource
<1>2. n \in Node /\ AtResource = Main(n)
  <2>1. n \in Node
    BY <1>1, ResourceNode
  <2>2. AtResource = [node |-> AtResource.node, part |-> "main", req |-> 0]
    BY <1>1 DEF Resource
  <2> QED
    BY <2>1, <2>2 DEF Main
<1>3. /\ expanded' = expanded \o AddedDeploys(n)
                            \o (IF tpl.roles[n] THEN <<Roles(n)>> ELSE <<>>)
      /\ hot' = [r \in Resource |->
                    IF r \in OpDeploys(n) THEN deployment
                    ELSE IF tpl.roles[n] /\ r = Roles(n)
                         THEN RolesDeployment(deployment) ELSE hot[r]]
      /\ dependsOn' = AppendLifeCycle(n, dependsOn)
      /\ lastDeploy' = IF Declared(n) = {} THEN lastDeploy
                       ELSE [lastDeploy EXCEPT ![n] = OpDeploy(n, LastOp(n))]
  BY DEF HandleLifeCycle
<1>4. \A r \in Resource :
        chain'[r] = chain[r] \/ chain'[r] \in OpDeploys(n)
  <2> DEFINE Linked(r, x) == \E op, later \in Declared(n) :
                /\ FollowsDirectly(n, op, later)
                /\ r = OpDeploy(n, op) /\ x = OpDeploy(n, later)
  <2>1. chain' = [r \in Resource |->
                IF \E op, later \in Declared(n) :
                        FollowsDirectly(n, op, later) /\ r = OpDeploy(n, op)
                THEN CHOOSE x \in OpDeploys(n) : Linked(r, x)
                ELSE chain[r]]
    BY DEF HandleLifeCycle
  <2> HIDE DEF n
  <2>2. ASSUME NEW r \in Resource,
               \E op, later \in Declared(n) :
                        FollowsDirectly(n, op, later) /\ r = OpDeploy(n, op)
        PROVE  chain'[r] \in OpDeploys(n)
    <3>1. \E x \in OpDeploys(n) : Linked(r, x)
      BY <2>2 DEF OpDeploys
    <3> HIDE DEF Linked
    <3> QED
      BY <2>1, <2>2, <3>1
  <2> QED
    BY <2>1, <2>2
<1>5. deployment.type \in {SD, SDGroup} /\ RolesDeployment(deployment).type \in {SD, SDGroup}
  <2>1. deployment.type \in {SD, SDGroup}
    BY DEF OpDeployment, Deployment, Blank
  <2>2. RolesDeployment(deployment).type \in {SD, SDGroup}
    BY DEF RolesDeployment, Blank
  <2> QED
    BY <2>1, <2>2
<1> HIDE DEF n, deployment
<1>6. /\ hot \in [Resource -> HotAttributes]
      /\ dependsOn \in [Resource -> Seq(Resource)] /\ expanded \in Seq(Resource)
      /\ lastDeploy \in [Node -> Resource \cup {NoResource}]
      /\ chain \in [Resource -> Resource]
  BY DEF IInv, TypeOK
<1>7. /\ Deployments(n) \subseteq Resource
      /\ \A r \in Deployments(n) : r.node = n
      /\ \A op \in Declared(n) : OpDeploy(n, op) \in Deployments(n)
      /\ tpl.roles[n] => Roles(n) \in Deployments(n)
      /\ Declared(n) # {} => FirstOp(n) \in Declared(n) /\ LastOp(n) \in Declared(n)
  BY <1>1, <1>2, DeploymentsFacts
<1>8. \A r \in Resource :
        /\ r \in Deployments(n) => IsDeployment(r)'
        /\ r \notin Deployments(n) => hot'[r] = hot[r]
  BY <1>3, <1>5 DEF Deployments, IsDeployment
<1>9. \A r \in Resource :
        /\ Typed(r)' <=> Typed(r) \/ r \in Deployments(n)
        /\ IsDeployment(r) => IsDeployment(r)'
  BY <1>8 DEF Typed, IsDeployment, SD, SDGroup
<1>10. /\ Listed \subseteq Listed' /\ Deployments(n) \subseteq Listed'
       /\ Main(n) \in Listed
  <2>1. Main(n) \in ToSet(resources)
    BY <1>1, <1>2 DEF ToSet
  <2>2. /\ ToSet(expanded) \subseteq ToSet(expanded')
        /\ Deployments(n) \subseteq ToSet(expanded') \cup {Main(n)}
    BY <1>1, <1>2, <1>3, <1>6, DeploymentsAdded
  <2> QED
    BY <1>1, <2>1, <2>2 DEF Listed
<1>11. \A r \in Resource :
        /\ ToSet(dependsOn'[r]) = ToSet(dependsOn[r]) \cup LifeCycleDependencies(n, r)
        /\ \A x : x \notin Deployments(n) /\ Once(dependsOn[r], x)
                    => Once(dependsOn'[r], x)
        /\ LifeCycleDependencies(n, r) \subseteq Deployments(n)
  BY <1>1, <1>2, <1>3, <1>6, AppendedFacts
<1>12. FreshLinks' /\ MainsListed' /\ LastCopied'
  BY <1>1 DEF OrderInv, FreshLinks, MainsListed, MainCopied, LastCopied, DependDone, Removing
<1>13. TypedListed'
  BY <1>9, <1>10 DEF OrderInv, TypedListed
<1>14. MainsTyped'
  BY <1>1, <1>9, ResourceFacts, SameTemplate DEF OrderInv, MainsTyped
<1>15. LifeCycleOrder'
  <2> SUFFICES ASSUME NEW m \in Node, LifeCycleHandled(m)'
               PROVE  /\ \A x \in Deployments(m) : IsDeployment(x)'
                      /\ Declared(m) # {} => lastDeploy'[m] = OpDeploy(m, LastOp(m))
                      /\ \A op, later \in Declared(m) :
                          FollowsDirectly(m, op, later) =>
                          OpDeploy(m, op) \in ToSet(dependsOn'[OpDeploy(m, later)])
                      /\ tpl.roles[m] /\ Declared(m) # {} /\ FirstOp(m) # "create" =>
                          Roles(m) \in ToSet(dependsOn'[OpDeploy(m, FirstOp(m))])
    BY <1>1, SameTemplate DEF LifeCycleOrder
  <2>1. CASE m = n
    <3>1. \A x \in Deployments(n) : IsDeployment(x)'
      BY <1>7, <1>8
    <3>2. Declared(n) # {} => lastDeploy'[n] = OpDeploy(n, LastOp(n))
      BY <1>2, <1>3, <1>6
    <3>3. ASSUME NEW op \in Declared(n), NEW later \in Declared(n),
                 FollowsDirectly(n, op, later)
          PROVE  OpDeploy(n, op) \in ToSet(dependsOn'[OpDeploy(n, later)])
      <4>1. OpDeploy(n, op) \in LifeCycleDependencies(n, OpDeploy(n, later))
        BY <3>3 DEF LifeCycleDependencies
      <4> QED
        BY <1>7, <1>11, <4>1
    <3>4. ASSUME tpl.roles[n], Declared(n) # {}, FirstOp(n) # "create"
          PROVE  Roles(n) \in ToSet(dependsOn'[OpDeploy(n, FirstOp(n))])
      <4>1. FirstOp(n) \in Operation
        BY <1>1, <1>2, <1>7, <3>4, TemplateFacts
      <4>2. OpIndex[FirstOp(n)] > 0
        BY <3>4, <4>1 DEF OpIndex, Operation
      <4>3. Roles(n) \in LifeCycleDependencies(n, OpDeploy(n, FirstOp(n)))
        BY <3>4, <4>2 DEF LifeCycleDependencies
      <4>4. OpDeploy(n, FirstOp(n)) \in Resource
        BY <1>7, <3>4
      <4> QED
        BY <1>11, <4>3, <4>4
    <3> QED
      BY <2>1, <3>1, <3>2, <3>3, <3>4
  <2>2. CASE m # n
    <3>1. LifeCycleHandled(m)
      <4>1. PICK i \in DOMAIN resources : i < pos + 1 /\ resources[i] = Main(m)
        BY <1>1 DEF LifeCycleHandled
      <4>2. Main(m).node = m /\ Main(n).node = n
        BY DEF Main
      <4>3. i # pos
        BY <1>1, <1>2, <2>2, <4>1, <4>2
      <4>4. i \in Nat
        BY <1>1
      <4> QED
        BY <1>1, <4>1, <4>3, <4>4 DEF LifeCycleHandled
    <3>2. /\ \A x \in Deployments(m) : x \in Resource
          /\ \A op \in Declared(m) : OpDeploy(m, op) \in Deployments(m)
          /\ Declared(m) # {} => FirstOp(m) \in Declared(m)
      BY <1>1, DeploymentsFacts
    <3>3. lastDeploy'[m] = lastDeploy[m]
      BY <1>3, <1>6, <2>2
    <3>4. /\ \A x \in Deployments(m) : IsDeployment(x)
          /\ Declared(m) # {} => lastDeploy[m] = OpDeploy(m, LastOp(m))
          /\ \A op, later \in Declared(m) : FollowsDirectly(m, op, later) =>
              OpDeploy(m, op) \in ToSet(dependsOn[OpDeploy(m, later)])
          /\ tpl.roles[m] /\ Declared(m) # {} /\ FirstOp(m) # "create" =>
              Roles(m) \in ToSet(dependsOn[OpDeploy(m, FirstOp(m))])
      BY <3>1 DEF OrderInv, LifeCycleOrder
    <3>5. \A x \in Resource : ToSet(dependsOn[x]) \subseteq ToSet(dependsOn'[x])
      BY <1>11
    <3> QED
      BY <1>9, <3>2, <3>3, <3>4, <3>5
  <2> QED
    BY <2>1, <2>2
<1>16. LinksTyped'
  <2>1. \A r \in Resource :
            Typed(r) \/ r \in Deployments(n) => hot'[r].type # "None"
    BY <1>9 DEF Typed
  <2>2. ASSUME NEW r \in Resource, chain'[r] # r
        PROVE  hot'[chain'[r]].type # "None"
    <3>1. CASE chain'[r] = chain[r]
      <4>1. Typed(chain[r]) /\ chain[r] \in Resource
        BY <1>6, <2>2, <3>1 DEF OrderInv, LinksTyped
      <4> QED
        BY <2>1, <3>1, <4>1
    <3>2. CASE chain'[r] \in OpDeploys(n)
      BY <1>7, <2>1, <3>2 DEF OpDeploys
    <3> QED
      BY <1>4, <3>1, <3>2
  <2>3. ASSUME NEW m \in Node, lastDeploy'[m] # NoResource
        PROVE  hot'[lastDeploy'[m]].type # "None"
    <3>1. CASE m = n /\ Declared(n) # {}
      <4>1. lastDeploy'[m] = OpDeploy(n, LastOp(n))
        BY <1>2, <1>3, <1>6, <3>1
      <4> QED
        BY <1>7, <2>1, <3>1, <4>1
    <3>2. CASE ~ (m = n /\ Declared(n) # {})
      <4>1. lastDeploy'[m] = lastDeploy[m]
        BY <1>2, <1>3, <1>6, <3>2
      <4>2. Typed(lastDeploy[m]) /\ lastDeploy[m] \in Resource
        BY <1>6, <2>3, <4>1 DEF OrderInv, LinksTyped
      <4> QED
        BY <2>1, <4>1, <4>2
    <3> QED
      BY <3>1, <3>2
  <2> QED
    BY <2>2, <2>3 DEF LinksTyped, Typed
<1>17. DependenciesListed'
  <2>1. \A r \in Resource : ToSet(dependsOn[r]) \subseteq Listed
    BY <1>1 DEF OrderInv, DependenciesListed, Removing
  <2> QED
    BY <1>10, <1>11, <2>1 DEF DependenciesListed
<1>18. TypelessOnce'
  BY <1>9, <1>11 DEF OrderInv, TypelessOnce
<1>19. TypelessCopied'
  <2> SUFFICES ASSUME NEW m \in Node, NEW d \in ToSet(dependsOn'[Main(m)])
               PROVE  Typed(d)'
    BY <1>1 DEF TypelessCopied
  <2>1. Main(m) \in Resource
    BY ResourceFacts
  <2>2. CASE d \in ToSet(dependsOn[Main(m)])
    <3>1. Typed(d)
      BY <1>1, <2>2 DEF OrderInv, TypelessCopied
    <3>2. d \in Resource
      BY <1>6, <2>1, <2>2 DEF ToSet
    <3> QED
      BY <1>9, <3>1, <3>2
  <2>3. CASE d \in Deployments(n)
    BY <1>7, <1>9, <2>3
  <2> QED
    BY <1>11, <2>1, <2>2, <2>3
<1> QED
  BY <1>12, <1>13, <1>14, <1>15, <1>16, <1>17, <1>18, <1>19 DEF OrderInv

\* What is in the list that CopyDependency writes.
LEMMA CopiedElements ==
    ASSUME IInv, NEW n \in Node, NEW q \in DOMAIN tpl.reqs[n],
           NEW on, on = dependsOn[Main(n)],
           NEW top, top = TopOfChain(Main(Target(n, q))), top \in Resource,
           NEW last, last = lastDeploy[Target(n, q)],
           NEW copied, copied = CopiedDependsOn(n, q)
    PROVE  /\ ToSet(on) \subseteq ToSet(copied)
           /\ \A d \in ToSet(copied) :
                d \in ToSet(on) \/ d = top \/ (d = last /\ last # NoResource)
           /\ last # NoResource => last \in ToSet(copied)
           /\ \A x : Once(on, x) /\ x # last /\ (x = top => x \notin ToSet(on))
                        => Once(copied, x)
<1> DEFINE topped == DependOnTop(n, q)
<1>1. on \in Seq(Resource)
  BY ResourceFacts DEF IInv, TypeOK
<1>2. last # NoResource => last \in Resource
  BY TemplateFacts DEF IInv, TypeOK
<1>3. topped = on \/ topped = Append(on, top)
  BY DEF DependOnTop
<1>4. copied = IF last # NoResource /\ ~ Contains(topped, last)
               THEN Append(topped, last) ELSE topped
  BY DEF CopiedDependsOn, AddsLast
<1> HIDE DEF topped
<1>5. /\ topped \in Seq(Resource)
      /\ ToSet(on) \subseteq ToSet(topped) /\ ToSet(topped) \subseteq ToSet(on) \cup {top}
      /\ \A x : Once(on, x) /\ (x = top => x \notin ToSet(on)) => Once(topped, x)
  <2>1. /\ Append(on, top) \in Seq(Resource)
        /\ ToSet(Append(on, top)) = ToSet(on) \cup {top}
    BY <1>1, AppendElements
  <2>2. \A x : Once(on, x) /\ (x = top => x \notin ToSet(on)) => Once(Append(on, top), x)
    BY <1>1, AppendOnce
  <2> QED
    BY <1>1, <1>3, <2>1, <2>2
<1>6. CASE last # NoResource /\ ~ Contains(topped, last)
  <2>1. copied = Append(topped, last) /\ last \in Resource
    BY <1>2, <1>4, <1>6
  <2>2. ToSet(copied) = ToSet(topped) \cup {last}
    BY <1>5, <2>1, AppendElements
  <2>3. \A x : Once(topped, x) /\ x # last => Once(copied, x)
    BY <1>5, <2>1, AppendOnce
  <2> QED
    BY <1>5, <1>6, <2>2, <2>3
<1>7. CASE ~ (last # NoResource /\ ~ Contains(topped, last))
  <2>1. copied = topped
    BY <1>4, <1>7
  <2>2. last # NoResource => last \in ToSet(topped)
    BY <1>5, <1>7 DEF Contains, ToSet
  <2> QED
    BY <1>5, <2>1, <2>2
<1> QED
  BY <1>6, <1>7

\* The end of a chain is in the list, and has a type or is its start.
LEMMA TopFacts ==
    ASSUME IInv, OrderInv, phase = "depend", NEW t \in Node
    PROVE  /\ TopOfChain(Main(t)) \in Resource /\ TopOfChain(Main(t)) \in Listed
           /\ Typed(TopOfChain(Main(t))) \/ TopOfChain(Main(t)) = Main(t)
<1> DEFINE next == chain[Main(t)]
<1>1. Main(t) \in Resource /\ Main(t) \in ToSet(resources)
  BY ResourceFacts DEF OrderInv, MainsListed, MainCopied
<1>2. \A r \in Resource : chain[r] \in Resource /\ (chain[r] = r \/ Typed(chain[r]))
  BY DEF IInv, TypeOK, OrderInv, LinksTyped
<1>3. TopOfChain(Main(t)) = chain[next]
  BY DEF TopOfChain
<1>4. next \in Resource /\ (next = Main(t) \/ Typed(next))
  BY <1>1, <1>2
<1> HIDE DEF next
<1>5. chain[next] \in Resource /\ (chain[next] = Main(t) \/ Typed(chain[next]))
  BY <1>2, <1>4
<1>6. \A r \in Resource : Typed(r) => r \in Listed
  BY DEF OrderInv, TypedListed
<1> QED
  BY <1>1, <1>3, <1>5, <1>6 DEF Listed

\* Pass "depend": the node waits for the end of the target's chain and for its
\* last deployment.
LEMMA CopyOrderStep ==
    ASSUME IInv, OrderInv, CopyDependency
    PROVE  OrderInv'
<1> DEFINE n == AtNode
           t == Target(n, req)
           main == Main(n)
           top == TopOfChain(Main(t))
           last == lastDeploy[t]
           copied == CopiedDependsOn(n, req)
<1>1. /\ phase = "depend" /\ phase' = "depend" /\ pos' = pos /\ req' = req + 1
      /\ tpl \in Templates /\ n \in Node /\ req \in DOMAIN tpl.reqs[n]
      /\ req \in Nat \ {0} /\ pos \in DOMAIN tpl.listing
      /\ UNCHANGED <<tpl, resources, expanded, chain, lastDeploy>>
      /\ ~ NamedBefore(n, req)
  <2>1. n \in Node /\ req \in 1..Len(tpl.reqs[n])
    BY AtFacts DEF CopyDependency, AtRequirement
  <2>2. tpl \in Templates /\ tpl.listing \in Seq(Node) /\ pos \in Nat \ {0}
    BY TemplateFacts DEF IInv, TypeOK, Template
  <2> QED
    BY <2>1, <2>2, TemplateFacts DEF CopyDependency, AtRequirement, NextRequirement
<1>2. /\ hot' = IF HostedOnCompute(n, req)
                THEN [hot EXCEPT ![main].server = Reference({t})] ELSE hot
      /\ dependsOn' = [dependsOn EXCEPT ![main] = copied]
  BY DEF CopyDependency
<1>3. t \in Node /\ tpl.listing[pos] = n
  BY <1>1, TemplateFacts DEF AtNode
<1>4. /\ top \in Resource /\ top \in Listed /\ (Typed(top) \/ top = Main(t))
  BY <1>1, <1>3, TopFacts
<1>5. last # NoResource => last \in Resource /\ Typed(last)
  BY <1>3 DEF IInv, TypeOK, OrderInv, LinksTyped
<1>6. /\ ToSet(dependsOn[main]) \subseteq ToSet(copied)
      /\ \A d \in ToSet(copied) :
            d \in ToSet(dependsOn[main]) \/ d = top \/ (d = last /\ last # NoResource)
      /\ last # NoResource => last \in ToSet(copied)
      /\ \A x :
            Once(dependsOn[main], x) /\ x # last
                    /\ (x = top => x \notin ToSet(dependsOn[main]))
                => Once(copied, x)
  BY <1>1, <1>4, CopiedElements
<1>7. main \in Resource /\ main.node = n
  BY <1>1, ResourceFacts
<1>8. \A d \in ToSet(dependsOn[main]) :
        Typed(d) \/ \E p \in 1..(req - 1) : d.node = Target(n, p)
  <2>1. pos \in Nat /\ pos >= pos /\ main = Main(tpl.listing[pos])
    BY <1>3 DEF IInv, TypeOK
  <2>2. \A d \in ToSet(dependsOn[Main(tpl.listing[pos])]) :
            Typed(d) \/ \E p \in 1..(req - 1) : d.node = Target(tpl.listing[pos], p)
    BY <1>1, <2>1 DEF OrderInv, TypelessCopied
  <2> QED
    BY <1>3, <2>1, <2>2
<1>9. \A p \in 1..(req - 1) : Target(n, p) # t
  <2>1. \A p \in 1..(req - 1) : p \in DOMAIN tpl.reqs[n] /\ p < req
    <3>1. tpl.reqs[n] \in Seq(Requirement)
      BY <1>1, TemplateFacts
    <3> QED
      BY <1>1, <3>1
  <2> QED
    BY <1>1, <2>1 DEF NamedBefore, SameTarget
<1>10. Main(t).node = t
  BY DEF Main
<1>11. Declared(t) # {} => last = OpDeploy(t, LastOp(t)) /\ last # NoResource
  <2> HIDE DEF t
  <2>1. LifeCycleHandled(t)
    BY <1>1 DEF LifeCycleHandled
  <2>2. Declared(t) # {} => OpDeploy(t, LastOp(t)) \in Resource
    BY <1>1, <1>3, DeploymentsFacts
  <2> QED
    BY <1>3, <2>1, <2>2, SentinelAssumption DEF OrderInv, LifeCycleOrder
<1> HIDE DEF n, t, main, top, last, copied
<1>12. /\ hot \in [Resource -> HotAttributes]
       /\ dependsOn \in [Resource -> Seq(Resource)]
  BY DEF IInv, TypeOK
<1>13. \A r \in Resource :
        /\ (Typed(r)' <=> Typed(r)) /\ (IsDeployment(r)' <=> IsDeployment(r))
        /\ dependsOn'[r] = IF r = main THEN copied ELSE dependsOn[r]
  <2>1. \A r \in Resource : hot'[r].type = hot[r].type
    <3>1. hot[main] \in HotAttributes
      BY <1>7, <1>12
    <3>2. [hot[main] EXCEPT !.server = Reference({t})].type = hot[main].type
      BY <3>1 DEF HotAttributes
    <3> QED
      BY <1>2, <1>7, <1>12, <3>2
  <2> QED
    BY <1>2, <1>12, <2>1 DEF Typed, IsDeployment
<1>14. Listed' = Listed
  BY <1>1 DEF Listed
<1>15. FreshLinks' /\ MainsListed'
  BY <1>1 DEF OrderInv, FreshLinks, MainsListed, MainCopied
<1>16. TypedListed'
  BY <1>13, <1>14 DEF OrderInv, TypedListed
<1>17. MainsTyped'
  BY <1>1, <1>13, ResourceFacts, SameTemplate DEF OrderInv, MainsTyped
<1>18. \A r \in Resource : ToSet(dependsOn[r]) \subseteq ToSet(dependsOn'[r])
  BY <1>6, <1>13
<1>19. LifeCycleOrder'
  <2> SUFFICES ASSUME NEW m \in Node
               PROVE  /\ \A x \in Deployments(m) : IsDeployment(x)'
                      /\ Declared(m) # {} => lastDeploy[m] = OpDeploy(m, LastOp(m))
                      /\ \A op, later \in Declared(m) :
                          FollowsDirectly(m, op, later) =>
                          OpDeploy(m, op) \in ToSet(dependsOn'[OpDeploy(m, later)])
                      /\ tpl.roles[m] /\ Declared(m) # {} /\ FirstOp(m) # "create" =>
                          Roles(m) \in ToSet(dependsOn'[OpDeploy(m, FirstOp(m))])
    BY <1>1, SameTemplate DEF LifeCycleOrder
  <2>1. LifeCycleHandled(m)
    BY <1>1 DEF LifeCycleHandled
  <2>2. /\ \A x \in Deployments(m) : x \in Resource
        /\ \A op \in Declared(m) : OpDeploy(m, op) \in Deployments(m)
        /\ Declared(m) # {} => FirstOp(m) \in Declared(m)
    BY <1>1, DeploymentsFacts
  <2> QED
    BY <1>13, <1>18, <2>1, <2>2 DEF OrderInv, LifeCycleOrder
<1>20. LinksTyped'
  BY <1>1, <1>13, SentinelAssumption DEF OrderInv, LinksTyped, IInv, TypeOK
<1>21. DependenciesListed'
  <2>1. \A r \in Resource : ToSet(dependsOn[r]) \subseteq Listed
    BY <1>1 DEF OrderInv, DependenciesListed, Removing
  <2>2. last # NoResource => last \in Listed
    BY <1>5 DEF OrderInv, TypedListed
  <2>3. ToSet(copied) \subseteq Listed
    BY <1>4, <1>6, <1>7, <2>1, <2>2
  <2> QED
    BY <1>13, <1>14, <2>1, <2>3 DEF DependenciesListed
<1>22. TypelessOnce'
  <2> SUFFICES ASSUME NEW x \in Resource, ~ Typed(x)
               PROVE  Once(copied, x)
    BY <1>13 DEF OrderInv, TypelessOnce
  <2>1. Once(dependsOn[main], x)
    BY <1>7 DEF OrderInv, TypelessOnce
  <2>2. x # last \/ last = NoResource
    BY <1>5
  <2>3. x # last
    BY <2>2, SentinelAssumption
  <2>4. x = top => x \notin ToSet(dependsOn[main])
    BY <1>4, <1>8, <1>9, <1>10
  <2> QED
    BY <1>6, <2>1, <2>3, <2>4
<1>23. TypelessCopied'
  <2> SUFFICES ASSUME NEW i \in DOMAIN tpl.listing, i >= pos,
                      NEW d \in ToSet(dependsOn'[Main(tpl.listing[i])])
               PROVE  \/ Typed(d)'
                      \/ /\ i = pos
                         /\ \E p \in 1..req : d.node = Target(tpl.listing[i], p)
    BY <1>1, SameTemplate DEF TypelessCopied
  <2>1. /\ tpl.listing \in Seq(Node) /\ pos \in Nat
        /\ \A k, l \in DOMAIN tpl.listing : tpl.listing[k] = tpl.listing[l] => k = l
    <3>1. WellFormed(tpl)
      BY <1>1, TemplatesAssumption
    <3> QED
      BY <3>1 DEF WellFormed, Template, IsInjective, IInv, TypeOK
  <2>2. tpl.listing[i] \in Node /\ Main(tpl.listing[i]) \in Resource
    BY <2>1, ResourceFacts
  <2>3. d \in Resource
    <3>1. ToSet(copied) \subseteq Resource
      <4>1. ToSet(dependsOn[main]) \subseteq Resource
        BY <1>7, <1>12 DEF ToSet
      <4> QED
        BY <1>4, <1>5, <1>6, <4>1
    <3> QED
      BY <1>12, <1>13, <2>2, <3>1 DEF ToSet
  <2>4. CASE i = pos
    <3>1. Main(tpl.listing[i]) = main
      BY <1>3, <2>4 DEF main
    <3>2. d \in ToSet(copied)
      BY <1>7, <1>13, <3>1
    <3>3. \A p \in 1..(req - 1) : p \in 1..req
      BY <1>1
    <3>4. req \in 1..req
      BY <1>1
    <3>5. Typed(d) \/ \E p \in 1..req : d.node = Target(n, p)
      BY <1>4, <1>5, <1>6, <1>8, <1>10, <3>2, <3>3, <3>4 DEF t
    <3> QED
      BY <1>3, <1>13, <2>3, <2>4, <3>5
  <2>5. CASE i # pos
    <3>1. tpl.listing[i] # n
      BY <1>1, <1>3, <2>1, <2>5
    <3>2. Main(tpl.listing[i]) # main
      BY <1>7, <3>1 DEF Main
    <3>3. d \in ToSet(dependsOn[Main(tpl.listing[i])])
      BY <1>13, <2>2, <3>2
    <3> QED
      BY <1>1, <1>13, <2>3, <2>5, <3>3 DEF OrderInv, TypelessCopied
  <2> QED
    BY <2>4, <2>5
<1>24. LastCopied'
  <2> SUFFICES ASSUME NEW m \in Node, NEW q \in DOMAIN tpl.reqs[m], DependDone(m, q)',
                      Declared(Target(m, q)) # {}
               PROVE  OpDeploy(Target(m, q), LastOp(Target(m, q)))
                            \in ToSet(dependsOn'[Main(m)])
    BY <1>1, SameTemplate DEF LastCopied
  <2>1. Main(m) \in Resource
    BY ResourceFacts
  <2>2. CASE m = n /\ q = req
    <3>1. Target(m, q) = t /\ Main(m) = main
      BY <2>2 DEF t, main
    <3> QED
      BY <1>6, <1>7, <1>11, <1>13, <3>1
  <2>3. CASE DependDone(m, q)
    BY <1>18, <2>1, <2>3 DEF OrderInv, LastCopied
  <2>4. (m = n /\ q = req) \/ DependDone(m, q)
    <3>1. q \in Nat
      <4>1. tpl.reqs[m] \in Seq(Requirement)
        BY <1>1, TemplateFacts
      <4> QED
        BY <4>1
    <3>2. PICK i \in DOMAIN tpl.listing :
            tpl.listing[i] = m /\ (i < pos \/ (i = pos /\ q < req + 1))
      BY <1>1 DEF DependDone, Removing
    <3>3. CASE i = pos /\ q = req
      BY <1>3, <3>2, <3>3
    <3>4. CASE i < pos \/ (i = pos /\ q < req)
      BY <1>1, <3>2, <3>4 DEF DependDone
    <3> QED
      BY <1>1, <3>1, <3>2, <3>3, <3>4
  <2> QED
    BY <2>2, <2>3, <2>4
<1> QED
  BY <1>15, <1>16, <1>17, <1>19, <1>20, <1>21, <1>22, <1>23, <1>24 DEF OrderInv

\* Every step keeps the second invariant; the pass "remove" starts when no
\* resource is left to join the list.
LEMMA NextOrderInv ==
    ASSUME IInv, OrderInv, [Next]_vars, phase = "remove" => expanded = <<>>
    PROVE  OrderInv'
<1>1. CASE CopyNode \/ AttachVolume
  <2>1. (tpl \in Templates)'
    BY NextIInv DEF IInv
  <2> QED
    BY <1>1, <2>1, NodesOrderStep
<1>2. CASE \/ SkipVolume \/ NextNode \/ FinishNodes \/ SkipAttachment
           \/ SkipConnect \/ SkipRelated \/ FinishDepend \/ RaiseNoHost
           \/ FinishHosting \/ FinishRemove
           \/ FollowLifeCycleHosting \/ FollowConnectHosting
  BY <1>2, CursorOrderStep
<1>3. CASE HandleLifeCycle
  BY <1>3, LifeCycleOrderStep
<1>4. CASE FinishLifeCycle \/ FinishConnect
  BY <1>4, ExpandOrderStep
<1>5. CASE HandleConnectsTo
  BY <1>5, ConnectOrderStep
<1>6. CASE CopyDependency
  BY <1>6, CopyOrderStep
<1>7. CASE HandleHosting
  BY <1>7, HostingOrderStep
<1>8. CASE RemoveTypeless
  <2>1. expanded = <<>>
    BY <1>8 DEF RemoveTypeless
  <2> QED
    BY <1>8, <2>1, RemoveOrderStep
<1>9. CASE UNCHANGED vars
  <2>1. UNCHANGED <<tpl, phase, pos, req, resources, expanded, hot, dependsOn, chain, lastDeploy>>
    BY <1>9 DEF vars, cursors, links
  <2>2. \A n \in Node : \A q \in DOMAIN tpl.reqs[n] : q \in SameTarget(n, q)
    BY DEF SameTarget
  <2>3. phase = "nodes" => phase' = "nodes"
    BY <2>1
  <2>4. Progress
    BY <2>1, <2>2 DEF Progress, MainCopied, LifeCycleHandled, DependDone
  <2>5. TypelessCopied'
    BY <2>1 DEF OrderInv, TypelessCopied, Typed, Target
  <2> QED
    BY <2>1, <2>4, <2>5, QuietStep
<1> QED
  BY <1>1, <1>2, <1>3, <1>4, <1>5, <1>6, <1>7, <1>8, <1>9 DEF Next

\* At the end of pass "remove" the list has every resource, all with a type.
Collected ==
    /\ phase \in {"nodes", "depend", "hosting", "remove", "done"} => expanded = <<>>
    /\ phase = "done" => Typeless = {}

LEMMA NextCollected ==
    ASSUME Collected, [Next]_vars
    PROVE  Collected'
<1>1. CASE \/ CopyNode \/ AttachVolume \/ SkipVolume
           \/ SkipConnect \/ SkipRelated \/ FinishDepend \/ FinishHosting
           \/ CopyDependency \/ HandleHosting \/ NextNode
           \/ FinishLifeCycle \/ FinishConnect \/ RemoveTypeless
  BY <1>1 DEF Collected, CopyNode, AttachVolume, SkipVolume, NextNode,
     SkipConnect, SkipRelated, FinishDepend, FinishHosting,
     CopyDependency, HandleHosting, FinishLifeCycle, FinishConnect, RemoveTypeless,
     AtRequirement, NextPosition, NextRequirement, EnterPhase, cursors
<1>2. CASE \/ FinishNodes \/ RaiseNoHost \/ SkipAttachment \/ HandleLifeCycle
           \/ HandleConnectsTo \/ FollowLifeCycleHosting \/ FollowConnectHosting
  <2>1. phase' \in {"lifecycle", "connect", "failed"}
    BY <1>2 DEF FinishNodes, RaiseNoHost, SkipAttachment, HandleLifeCycle,
       HandleConnectsTo, FollowLifeCycleHosting, FollowConnectHosting, FollowHosting,
       AtRequirement, NextPosition, NextRequirement, EnterPhase
  <2> QED
    BY <2>1 DEF Collected
<1>3. CASE FinishRemove \/ UNCHANGED vars
  <2>1. /\ UNCHANGED <<resources, expanded, hot>>
        /\ (phase = "remove" /\ Typeless = {}) \/ phase' = phase
    BY <1>3 DEF FinishRemove, vars, cursors
  <2>2. Typeless' = Typeless
    BY <2>1 DEF Typeless
  <2>3. phase' \in {"nodes", "depend", "hosting", "remove", "done"} =>
            phase \in {"nodes", "depend", "hosting", "remove", "done"}
    BY <1>3 DEF FinishRemove, EnterPhase, vars, cursors
  <2> QED
    BY <2>1, <2>2, <2>3 DEF Collected
<1> QED
  BY <1>1, <1>2, <1>3 DEF Next

LEMMA OrderInvariance == Spec => [](OrderInv /\ Collected)
<1>1. Init => OrderInv /\ Collected
  BY InitOrderInv DEF Init, Collected
<1>2. IInv /\ OrderInv /\ Collected /\ [Next]_vars => OrderInv' /\ Collected'
  <2>1. Collected => (phase = "remove" => expanded = <<>>)
    BY DEF Collected
  <2> QED
    BY <2>1, NextOrderInv, NextCollected
<1> QED
  BY <1>1, <1>2, Invariance, PTL DEF Spec

\* Every resource that a resource of the finished list waits for has a type,
\* so it is in the list.
LEMMA NothingDangles ==
    ASSUME IInv, OrderInv, phase = "done", expanded = <<>>, Typeless = {}
    PROVE  \A r \in ToSet(resources) : WaitsFor(r) \subseteq ToSet(resources)
<1>1. resources \in Seq(Resource)
  BY DEF IInv, TypeOK
<1>2. Listed = ToSet(resources)
  BY DEF Listed, ToSet
<1> SUFFICES ASSUME NEW r \in ToSet(resources)
             PROVE  WaitsFor(r) \subseteq Listed
  BY <1>2
<1>3. r \in Resource /\ Typed(r)
  BY <1>1 DEF ToSet, Typeless, Typed
<1>4. ToSet(dependsOn[r]) \subseteq Listed
  BY <1>3 DEF OrderInv, DependenciesListed
<1>5. ASSUME NEW s \in RunsOn(r)
      PROVE  Main(s) \in Listed
  <2>1. s \in Node /\ tpl.kind[s] = "compute"
    BY <1>3 DEF IInv, ServersBelow
  <2>2. MainType(s) # "None"
    BY <2>1 DEF MainType
  <2> QED
    BY <2>1, <2>2, ResourceFacts DEF OrderInv, MainsTyped, TypedListed
<1> QED
  BY <1>4, <1>5 DEF WaitsFor

\* Whatever the template, the resources and servers that a resource of the
\* output waits for are in the output: removing the resources without a type
\* leaves no reference to them behind.
THEOREM ReferencesResolve == Spec => []NoDanglingReference
<1>1. IInv /\ OrderInv /\ Collected => NoDanglingReference
  <2> SUFFICES ASSUME IInv, OrderInv, Collected, phase = "done"
               PROVE  \A r \in ToSet(resources) : WaitsFor(r) \subseteq ToSet(resources)
    BY DEF NoDanglingReference
  <2> QED
    BY NothingDangles DEF Collected
<1> QED
  BY <1>1, Invariance, OrderInvariance, PTL

\* Whatever the template, the first deployment of a node waits for the
\* deployment of its roles, if that operation is not create.
LEMMA RolesFirst == OrderInv => RolesBeforeFirstDeploy
<1> SUFFICES ASSUME OrderInv, phase = "done", NEW n \in Node, tpl.roles[n],
                    Declared(n) # {}, FirstOp(n) # "create"
             PROVE  Roles(n) \in ToSet(dependsOn[OpDeploy(n, FirstOp(n))])
  BY DEF RolesBeforeFirstDeploy
<1>1. LifeCycleHandled(n)
  BY DEF LifeCycleHandled
<1> QED
  BY <1>1 DEF OrderInv, LifeCycleOrder

\* Whatever the template, the Ansible roles of a node are deployed before its first
\* operation, if that is another than create (handle_life_cycle).
THEOREM RolesComeFirst == Spec => []RolesBeforeFirstDeploy
  BY RolesFirst, OrderInvariance, PTL

-----------------------------------------------------------------------------
(* The passes of NodeTranslation and of PropertyPass keep IInv.            *)

\* No step changes the template.
LEMMA NextTemplate == Next => UNCHANGED tpl
<1> SUFFICES ASSUME Next PROVE tpl' = tpl
  OBVIOUS
<1>1. CASE CopyNode \/ AttachVolume \/ SkipVolume \/ NextNode \/ FinishNodes
  BY <1>1 DEF CopyNode, AttachVolume, SkipVolume, NextNode, FinishNodes
<1>2. CASE \/ FollowLifeCycleHosting \/ HandleLifeCycle \/ SkipAttachment
           \/ FinishLifeCycle
  BY <1>2 DEF FollowLifeCycleHosting, HandleLifeCycle, SkipAttachment,
              FinishLifeCycle, FollowHosting
<1>3. CASE FollowConnectHosting \/ HandleConnectsTo \/ SkipConnect \/ FinishConnect
  BY <1>3 DEF FollowConnectHosting, HandleConnectsTo, SkipConnect,
              FinishConnect, FollowHosting
<1>4. CASE CopyDependency \/ SkipRelated \/ FinishDepend \/ HandleHosting
  BY <1>4 DEF CopyDependency, SkipRelated, FinishDepend, HandleHosting
<1>5. CASE RaiseNoHost \/ FinishHosting \/ RemoveTypeless \/ FinishRemove
  BY <1>5 DEF RaiseNoHost, FinishHosting, RemoveTypeless, FinishRemove
<1> QED
  BY <1>1, <1>2, <1>3, <1>4, <1>5 DEF Next

\* A resource loses its servers and some dependencies go: every handler.
LEMMA OverwriteStep ==
    ASSUME IInv, NEW r \in Resource, NEW type \in HotType,
           hot' = [hot EXCEPT ![r] = Blank(type)],
           resources' \in Seq(Resource), expanded' \in Seq(Resource),
           dependsOn' \in [Resource -> Seq(Resource)],
           \A x \in Resource :
                /\ ToSet(dependsOn'[x]) \subseteq ToSet(dependsOn[x])
                /\ x.part = "connect" => dependsOn'[x] = dependsOn[x],
           UNCHANGED <<tpl, dependsOnNodes, chain, lastDeploy>>,
           CursorTypeOK', SearchDescends'
    PROVE  IInv'
<1>1. Blank(type) \in HotAttributes /\ ServersOf(Blank(type)) = {}
  BY DEF Blank, HotAttributes, ServersOf
<1>2. TypeOK'
  BY <1>1, TypeParts DEF IInv, DataTypeOK
<1>3. ServersBelow'
  <2>1. ASSUME NEW x \in Resource
        PROVE  RunsOn(x)' = IF x = r THEN {} ELSE RunsOn(x)
    BY <1>1 DEF RunsOn, IInv, TypeOK
  <2> QED
    BY <2>1 DEF IInv, ServersBelow
<1>4. LinksStayInNode'
  BY DEF IInv, LinksStayInNode
<1>5. DependenciesBelow'
  <2>1. \A x, d : (Rank(d) < Rank(x))' <=> Rank(d) < Rank(x)
    BY DEF Rank, PartRank
  <2> QED
    BY <2>1 DEF IInv, DependenciesBelow
<1>6. ConnectAliased'
  BY DEF IInv, ConnectAliased
<1>7. NodesCoverDependencies'
  BY DEF IInv, NodesCoverDependencies
<1> QED
  BY <1>2, <1>3, <1>4, <1>5, <1>6, <1>7 DEF IInv

\* The same, when the resource lists and the cursors do not change.
LEMMA HandlerStep ==
    ASSUME IInv, phase = "remove", NEW r \in Resource, Overwrite(r),
           UNCHANGED <<tpl, cursors, resources, expanded, links>>
    PROVE  IInv'
<1>1. hot[r].type \in HotType
  BY DEF IInv, TypeOK, HotAttributes
<1>2. CursorTypeOK' /\ SearchDescends'
  BY TypeParts DEF IInv, CursorTypeOK, SearchDescends, cursors
<1> QED
  BY <1>1, <1>2, OverwriteStep DEF Overwrite, links, IInv, TypeOK

\* The resource of the innermost call.
LEMMA SelfFacts ==
    ASSUME PassTypeOK, calls # <<>>
    PROVE  /\ Self \in Resource /\ Self.node \in Node
           /\ Top.next \in Nat \ {0} /\ Top = calls[Len(calls)]
           /\ Len(calls) \in Nat \ {0}
<1>1. Last(calls) \in Call /\ Len(calls) \in Nat \ {0}
  BY FrontProperties DEF PassTypeOK
<1> QED
  BY <1>1, ResourceNode DEF Call, Self, Top, Last

\* A port refers to nodes of the template.
LEMMA FirstTargetType ==
    ASSUME tpl \in Templates, NEW n \in Node, NEW relation
    PROVE  FirstTarget(n, relation) \in Node \cup {NoNode}
<1> DEFINE related ==
        {q \in DOMAIN tpl.reqs[n] : tpl.reqs[n][q].relation = relation}
<1>1. CASE related = {}
  BY <1>1 DEF FirstTarget
<1>2. CASE related # {}
  <2>1. related \in SUBSET Nat /\ \A q \in related : Target(n, q) \in Node
    BY TemplateFacts
  <2>2. FirstTarget(n, relation) =
            Target(n, CHOOSE q \in related : \A p \in related : q <= p)
    BY <1>2 DEF FirstTarget
  <2> HIDE DEF related
  <2>3. \E q \in related : \A p \in related : q <= p
    BY <1>2, <2>1, MinProperty
  <2>4. (CHOOSE q \in related : \A p \in related : q <= p) \in related
    BY <2>3
  <2> QED
    BY <2>1, <2>2, <2>4
<1> QED
  BY <1>1, <1>2

\* A port only loses dependencies.
LEMMA DropLinksProperties ==
    ASSUME NEW d \in Seq(Resource), NEW n
    PROVE  /\ DropLinks(d, n) \in Seq(Resource)
           /\ ToSet(DropLinks(d, n)) \subseteq ToSet(d)
<1>1. /\ DropLink(d, n) \in Seq(Resource)
      /\ ToSet(DropLink(d, n)) \subseteq ToSet(d)
  BY RemoveFirstProperties DEF DropLink
<1> QED
  BY <1>1, RemoveFirstProperties DEF DropLinks

\* A handled port loses at most the entry of its other end.
LEMMA HandlePortStep ==
    ASSUME IInv, PassTypeOK, HandlePort
    PROVE  IInv'
<1>1. calls # <<>> /\ phase = "remove" /\ KindOfSelf = "port"
  BY DEF HandlePort, DependenciesWalked, InCall, Running
<1>2. Self \in Resource
  BY <1>1, SelfFacts
<1>3. Self.part # "connect"
  BY <1>1 DEF KindOfSelf
<1>4. /\ hot' = [hot EXCEPT ![Self] = Blank(hot[Self].type)]
      /\ dependsOn' =
            [dependsOn EXCEPT ![Self] = DropLinks(dependsOn[Self], Self.node)]
      /\ UNCHANGED <<tpl, phase, pos, req, visiting, resources, expanded,
                     dependsOnNodes, chain, lastDeploy>>
  BY DEF HandlePort, Overwrite, cursors
<1>5. hot[Self].type \in HotType
  BY <1>2 DEF IInv, TypeOK, HotAttributes
<1>6. CursorTypeOK' /\ SearchDescends'
  BY <1>1, <1>4, TypeParts DEF IInv, CursorTypeOK, SearchDescends
<1> DEFINE r == Self  n == Self.node
<1> HIDE DEF r
<1>7. dependsOn \in [Resource -> Seq(Resource)] /\ r \in Resource
  BY <1>2 DEF IInv, TypeOK, r
<1>8. dependsOn' = [dependsOn EXCEPT ![r] = DropLinks(dependsOn[r], n)]
  BY <1>4 DEF r
<1> HIDE DEF n
<1>9. /\ DropLinks(dependsOn[r], n) \in Seq(Resource)
      /\ ToSet(DropLinks(dependsOn[r], n)) \subseteq ToSet(dependsOn[r])
  BY <1>7, DropLinksProperties
<1>10. /\ dependsOn' \in [Resource -> Seq(Resource)]
       /\ \A x \in Resource :
            /\ ToSet(dependsOn'[x]) \subseteq ToSet(dependsOn[x])
            /\ x.part = "connect" => dependsOn'[x] = dependsOn[x]
  BY <1>3, <1>7, <1>8, <1>9 DEF r
<1> QED
  BY <1>2, <1>4, <1>5, <1>6, <1>10, OverwriteStep DEF IInv, TypeOK

\* A network brings a subnet of its own, listed once.
LEMMA ExpandNetworkStep ==
    ASSUME IInv, ExpandNetwork
    PROVE  IInv'
<1> DEFINE r == Subnet(AtResource.node)
<1>1. r \in Resource
  BY AtFacts, ResourceNode DEF ExpandNetwork, Expanding, Subnet, Resource
<1>2. /\ expanded' = Append(expanded, r)
      /\ hot' = [hot EXCEPT ![r] = Blank("OS::Neutron::Subnet")]
      /\ UNCHANGED <<tpl, resources, dependsOn, dependsOnNodes, chain, lastDeploy>>
  BY DEF ExpandNetwork, links
<1>3. CursorTypeOK' /\ SearchDescends'
  BY TypeParts, CursorSteps DEF ExpandNetwork, IInv
<1>4. "OS::Neutron::Subnet" \in HotType
  BY DEF HotType
<1> HIDE DEF r
<1>5. /\ expanded' \in Seq(Resource) /\ resources' \in Seq(Resource)
      /\ dependsOn' \in [Resource -> Seq(Resource)]
  BY <1>1, <1>2 DEF IInv, TypeOK
<1> QED
  BY <1>1, <1>2, <1>3, <1>4, <1>5, OverwriteStep

\* The two passes move a cursor through the list, or add to it.
LEMMA PassCursorStep ==
    ASSUME IInv,
           \/ WalkResource \/ FinishProperties \/ RaiseHalfRange
           \/ SkipExpansion \/ FinishExpansion
    PROVE  IInv'
<1>1. CASE WalkResource \/ SkipExpansion \/ RaiseHalfRange
  <2>1. UNCHANGED data
    BY <1>1 DEF WalkResource, SkipExpansion, RaiseHalfRange, data
  <2>2. NextPosition \/ \E p \in Phase : EnterPhase(p)
    BY <1>1 DEF WalkResource, SkipExpansion, RaiseHalfRange, Phase
  <2> QED
    BY <2>1, <2>2, TypeParts, CursorSteps, IdleStep DEF IInv
<1>2. CASE FinishProperties
  <2>1. /\ UNCHANGED data
        /\ phase = "remove" /\ pos' = 1 /\ UNCHANGED <<phase, req, visiting>>
    BY <1>2 DEF FinishProperties, Running, data
  <2>2. CursorTypeOK' /\ SearchDescends'
    BY <2>1, TypeParts DEF IInv, CursorTypeOK, SearchDescends
  <2> QED
    BY <2>1, <2>2, IdleStep
<1>3. CASE FinishExpansion
  <2>1. /\ resources' = resources \o expanded /\ expanded' = <<>>
        /\ phase = "remove"
        /\ UNCHANGED <<tpl, phase, pos, req, visiting, hot, links>>
    BY <1>3 DEF FinishExpansion, Running, cursors
  <2>2. CursorTypeOK' /\ SearchDescends'
    BY <2>1, TypeParts DEF IInv, CursorTypeOK, SearchDescends
  <2>3. resources' \in Seq(Resource) /\ expanded' \in Seq(Resource)
    BY <2>1 DEF IInv, TypeOK
  <2>4. TypeOK'
    BY <2>1, <2>2, <2>3, TypeParts DEF IInv, DataTypeOK, links
  <2> QED
    BY <2>1, <2>2, <2>4, KeepLinks, KeepServers DEF IInv
<1> QED
  BY <1>1, <1>2, <1>3

\* Every step keeps the invariant of NodeTranslation.
LEMMA PassKeepsIInv ==
    ASSUME IInv, PassTypeOK, [PassNext]_allVars
    PROVE  IInv'
<1>1. CASE OtherPass \/ UNCHANGED allVars
  BY <1>1, NextIInv DEF OtherPass, allVars
<1>2. CASE \/ WalkResource \/ FinishProperties \/ RaiseHalfRange
           \/ SkipExpansion \/ FinishExpansion
  BY <1>2, PassCursorStep
<1>3. CASE WalkDependency \/ HandleOther \/ Bisect \/ InsertPort
  <2>1. UNCHANGED vars
    BY <1>3 DEF WalkDependency, HandleOther, Bisect, InsertPort
  <2> QED
    BY <2>1, NextIInv
<1>4. CASE HandleServer \/ HandleVolume \/ HandleNetwork
  <2>1. /\ calls # <<>> /\ phase = "remove" /\ Overwrite(Self)
        /\ UNCHANGED <<tpl, cursors, resources, expanded, links>>
    BY <1>4 DEF HandleServer, HandleVolume, HandleNetwork, DependenciesWalked,
                InCall, Running
  <2>2. Self \in Resource
    BY <2>1, SelfFacts
  <2> QED
    BY <2>1, <2>2, HandlerStep
<1>5. CASE HandlePort
  BY <1>5, HandlePortStep
<1>6. CASE ExpandNetwork
  BY <1>6, ExpandNetworkStep
<1> QED
  BY <1>1, <1>2, <1>3, <1>4, <1>5, <1>6 DEF PassNext

-----------------------------------------------------------------------------
(* The walk and the insertion.                                             *)

\* Calls run in the property pass only.
CallsRunning ==
    calls # <<>> => phase = "remove" /\ stage \in {"properties", "insertion"}

\* Each call is for a dependency of the call below it.
CallsDescend ==
    \A i, j \in 1..Len(calls) :
        i < j => Rank(calls[j].resource) < Rank(calls[i].resource)

\* A call went through the dependencies before its next one.
CallsWalked ==
    \A i \in 1..Len(calls) : \A k \in DOMAIN dependsOnNodes[calls[i].resource] :
        k < calls[i].next => dependsOnNodes[calls[i].resource][k] \in processed

\* A processed resource was handled, or a call is about to.
ProcessedRunning ==
    \A r \in processed : r \in handled \/ \E i \in 1..Len(calls) : calls[i].resource = r

WalkInv == CallsRunning /\ CallsDescend /\ CallsWalked /\ ProcessedRunning

\* The binary insertion: ports up to lo come no later, ports beyond hi later.
InsertionInv ==
    stage = "insertion" =>
        /\ phase = "remove" /\ calls # <<>>
        /\ Top.next > Len(dependsOnNodes[Self])
        /\ BindsTo(Port) \in Node
        /\ lo <= hi /\ hi <= Len(Ports)
        /\ \A i \in DOMAIN Ports :
            /\ i <= lo => tpl.order[Ports[i]] <= tpl.order[Port]
            /\ i > hi => tpl.order[Port] < tpl.order[Ports[i]]

\* The inductive invariant of both passes.
PInv == IInv /\ PassTypeOK /\ WalkInv /\ InsertionInv /\ PortsSorted

\* The walk has not begun at first.
LEMMA InitPInv == PassInit => PInv
<1> SUFFICES ASSUME PassInit PROVE PInv
  OBVIOUS
<1>1. IInv
  BY InitIInv DEF PassInit
<1>2. PassTypeOK
  BY DEF PassInit, PassTypeOK
<1>3. WalkInv
  BY DEF PassInit, WalkInv, CallsRunning, CallsDescend, CallsWalked, ProcessedRunning
<1>4. InsertionInv /\ PortsSorted
  BY DEF PassInit, InsertionInv, PortsSorted
<1> QED
  BY <1>1, <1>2, <1>3, <1>4 DEF PInv

\* A handler returns from the innermost call.
LEMMA ReturnFacts ==
    ASSUME PassTypeOK, calls # <<>>, Return
    PROVE  /\ calls' \in Seq(Call) /\ Len(calls') = Len(calls) - 1
           /\ Len(calls) \in Nat \ {0}
           /\ \A i \in 1..(Len(calls) - 1) : calls'[i] = calls[i]
           /\ handled' = handled \cup {Self} /\ processed' = processed
           /\ Self = calls[Len(calls)].resource /\ Self \in Resource
<1>1. calls \in Seq(Call)
  BY DEF PassTypeOK
<1>2. /\ Len(calls) \in Nat \ {0}
      /\ Front(calls) \in Seq(Call) /\ Len(Front(calls)) = Len(calls) - 1
      /\ \A i \in 1..(Len(calls) - 1) : Front(calls)[i] = calls[i]
  BY <1>1, FrontProperties
<1> QED
  BY <1>2, SelfFacts DEF Return, Self

\* The innermost call takes its next dependency.
LEMMA WalkDependencyFacts ==
    ASSUME IInv, PassTypeOK, WalkDependency,
           NEW d, d = dependsOnNodes[Self][Top.next]
    PROVE  /\ calls # <<>> /\ Len(calls) \in Nat \ {0}
           /\ Top.next \in DOMAIN dependsOnNodes[Self]
           /\ d \in Resource /\ d \in ToSet(dependsOnNodes[Self])
           /\ processed' = processed \cup {d}
           /\ calls' \in Seq(Call)
           /\ \A i \in 1..Len(calls) :
                /\ calls'[i].resource = calls[i].resource
                /\ calls'[i].next =
                    IF i = Len(calls) THEN calls[i].next + 1 ELSE calls[i].next
           /\ \/ d \in processed /\ Len(calls') = Len(calls)
              \/ Len(calls') = Len(calls) + 1 /\ calls'[Len(calls')] = Begin(d)
           /\ UNCHANGED <<vars, stage, handled, network, search>>
<1>1. /\ calls # <<>> /\ Top.next <= Len(dependsOnNodes[Self])
      /\ UNCHANGED <<vars, stage, handled, network, search>>
      /\ processed' = processed \cup {d}
  BY DEF WalkDependency, InCall, ToWalk
<1> DEFINE rest == [calls EXCEPT ![Len(calls)].next = @ + 1]
<1>2. calls' = IF d \in processed THEN rest ELSE Append(rest, Begin(d))
  BY DEF WalkDependency, ToWalk
<1>3. /\ Self \in Resource /\ Top.next \in Nat \ {0} /\ Top = calls[Len(calls)]
      /\ Len(calls) \in Nat \ {0}
  BY <1>1, SelfFacts
<1>4. dependsOnNodes[Self] \in Seq(Resource)
  BY <1>3 DEF IInv, TypeOK
<1>5. Top.next \in DOMAIN dependsOnNodes[Self]
  BY <1>1, <1>3, <1>4
<1>6. d \in Resource /\ d \in ToSet(dependsOnNodes[Self])
  BY <1>4, <1>5 DEF ToSet
<1>7. calls \in Seq(Call) /\ Begin(d) \in Call
  BY <1>6 DEF PassTypeOK, Call, Begin
<1>8. /\ rest \in Seq(Call) /\ Len(rest) = Len(calls)
      /\ \A i \in 1..Len(calls) :
            /\ rest[i].resource = calls[i].resource
            /\ rest[i].next =
                IF i = Len(calls) THEN calls[i].next + 1 ELSE calls[i].next
  <2> DEFINE top == [calls[Len(calls)] EXCEPT !.next = @ + 1]
  <2>1. calls[Len(calls)] \in Call
    BY <1>3, <1>7
  <2>2. /\ top \in Call /\ top.resource = calls[Len(calls)].resource
        /\ top.next = calls[Len(calls)].next + 1
    BY <2>1 DEF Call
  <2>3. rest = [calls EXCEPT ![Len(calls)] = top]
    OBVIOUS
  <2> HIDE DEF top, rest
  <2> QED
    BY <1>3, <1>7, <2>2, <2>3
<1> HIDE DEF rest
<1>9. CASE d \in processed
  BY <1>1, <1>2, <1>3, <1>5, <1>6, <1>8, <1>9
<1>10. CASE d \notin processed
  <2>1. /\ calls' \in Seq(Call) /\ Len(calls') = Len(calls) + 1
        /\ \A i \in 1..Len(calls) : calls'[i] = rest[i]
        /\ calls'[Len(calls')] = Begin(d)
    BY <1>2, <1>3, <1>7, <1>8, <1>10
  <2> QED
    BY <1>1, <1>3, <1>5, <1>6, <1>8, <2>1
<1> QED
  BY <1>9, <1>10

\* The port goes to the place that the search found.
LEMMA InsertPortFacts ==
    ASSUME PassTypeOK, InsertionInv, InsertPort
    PROVE  /\ calls # <<>> /\ Return /\ stage' = "properties"
           /\ BindsTo(Port) \in Node /\ Port \in Node
           /\ Top.next > Len(dependsOnNodes[Self])
           /\ lo = hi /\ lo \in Nat /\ lo + 1 \in 1..(Len(Ports) + 1)
           /\ Ports \in Seq(Node) /\ InsertAt(Ports, lo + 1, Port) \in Seq(Node)
           /\ portsOf' = [portsOf EXCEPT ![BindsTo(Port)] =
                                InsertAt(Ports, lo + 1, Port)]
           /\ networks' = [networks EXCEPT ![BindsTo(Port)] =
                                InsertAt(Ports, lo + 1, Port)]
           /\ UNCHANGED <<vars, linked, hidden, search>>
<1>1. /\ stage = "insertion" /\ lo >= hi /\ Return /\ stage' = "properties"
      /\ UNCHANGED <<vars, linked, hidden, search>>
      /\ portsOf' = [portsOf EXCEPT ![BindsTo(Port)] =
                            InsertAt(Ports, lo + 1, Port)]
      /\ networks' = [networks EXCEPT ![BindsTo(Port)] =
                            InsertAt(Ports, lo + 1, Port)]
  BY DEF InsertPort, Inserting, Running
<1>2. /\ calls # <<>> /\ BindsTo(Port) \in Node
      /\ Top.next > Len(dependsOnNodes[Self])
      /\ lo <= hi /\ hi <= Len(Ports)
  BY <1>1 DEF InsertionInv
<1>3. Port \in Node
  BY <1>2, SelfFacts DEF Port
<1>4. Ports \in Seq(Node) /\ lo \in Nat /\ hi \in Nat
  BY <1>2 DEF Ports, PassTypeOK
<1>5. lo = hi /\ lo + 1 \in 1..(Len(Ports) + 1)
  BY <1>1, <1>2, <1>4
<1>6. InsertAt(Ports, lo + 1, Port) \in Seq(Node)
  BY <1>3, <1>4, <1>5, InsertAtProperties
<1> QED
  BY <1>1, <1>2, <1>3, <1>4, <1>5, <1>6

\* Every step keeps the type.
LEMMA PassTypeStep ==
    ASSUME IInv, PassTypeOK, InsertionInv, [PassNext]_allVars
    PROVE  PassTypeOK'
<1>1. CASE \/ OtherPass \/ ExpandNetwork \/ RaiseHalfRange \/ SkipExpansion
           \/ UNCHANGED allVars
  <2>1. UNCHANGED passVars
    BY <1>1 DEF OtherPass, ExpandNetwork, RaiseHalfRange, SkipExpansion, allVars
  <2> QED
    BY <2>1 DEF passVars, walk, network, search, PassTypeOK
<1>2. CASE WalkResource
  <2>1. AtResource \in Resource
    BY <1>2, AtFacts DEF WalkResource
  <2>2. Begin(AtResource) \in Call
    BY <2>1 DEF Begin, Call
  <2> QED
    BY <1>2, <2>1, <2>2 DEF WalkResource, network, search, PassTypeOK
<1>3. CASE WalkDependency
  BY <1>3, WalkDependencyFacts DEF network, search, PassTypeOK
<1>4. CASE HandleServer \/ HandleVolume \/ HandleOther \/ HandleNetwork
  <2>1. /\ calls # <<>> /\ Return /\ UNCHANGED <<stage, portsOf, linked, search>>
        /\ networks' = networks \/ networks' = [networks EXCEPT ![Self.node] = <<>>]
        /\ hidden' = hidden \/ hidden' = hidden \cup {Self.node}
    BY <1>4 DEF HandleServer, HandleVolume, HandleOther, HandleNetwork, network,
                DependenciesWalked, InCall
  <2>2. Self.node \in Node
    BY <2>1, SelfFacts
  <2>3. networks' \in [Node -> Seq(Node)]
    <3>1. networks \in [Node -> Seq(Node)] /\ <<>> \in Seq(Node)
      BY DEF PassTypeOK
    <3> QED
      BY <2>1, <2>2, <3>1
  <2>4. hidden' \subseteq Node
    BY <2>1, <2>2 DEF PassTypeOK
  <2>5. /\ UNCHANGED <<stage, portsOf, linked, lo, hi>>
        /\ calls' \in Seq(Call)
        /\ handled' \subseteq Resource /\ processed' \subseteq Resource
    BY <2>1, ReturnFacts DEF search, PassTypeOK
  <2> QED
    BY <2>3, <2>4, <2>5 DEF PassTypeOK
<1>5. CASE HandlePort
  <2>1. calls # <<>>
    BY <1>5 DEF HandlePort, DependenciesWalked, InCall
  <2>2. Self.node \in Node
    BY <2>1, SelfFacts
  <2>3. /\ BindsTo(Self.node) \in Node \cup {NoNode}
        /\ Link(Self.node) \in Node \cup {NoNode}
    BY <2>2, FirstTargetType DEF IInv, BindsTo, LinksTo, Link
  <2>4. linked' \in [Node -> Node \cup {NoNode}]
    BY <1>5, <2>2, <2>3 DEF HandlePort, PassTypeOK
  <2>5. CASE BindsTo(Self.node) = NoNode
    <3>1. Return /\ UNCHANGED <<stage, search, portsOf, networks, hidden>>
      BY <1>5, <2>5 DEF HandlePort
    <3> QED
      BY <2>1, <2>4, <3>1, ReturnFacts DEF search, PassTypeOK
  <2>6. CASE BindsTo(Self.node) # NoNode
    <3>1. /\ stage' = "insertion" /\ lo' = 0
          /\ hi' = Len(portsOf[BindsTo(Self.node)])
          /\ UNCHANGED <<processed, calls, handled, portsOf, networks, hidden>>
      BY <1>5, <2>6 DEF HandlePort
    <3>2. hi' \in Nat
      BY <2>3, <2>6, <3>1 DEF PassTypeOK
    <3> QED
      BY <2>4, <3>1, <3>2 DEF PassTypeOK
  <2> QED
    BY <2>5, <2>6
<1>6. CASE Bisect
  <2>1. /\ lo' \in Nat /\ hi' \in Nat
    <3>1. lo \in Nat /\ hi \in Nat
      BY DEF PassTypeOK
    <3>2. (lo + hi) \div 2 \in Nat
      BY <3>1
    <3> QED
      BY <1>6, <3>1, <3>2 DEF Bisect
  <2> QED
    BY <1>6, <2>1 DEF Bisect, walk, network, PassTypeOK
<1>7. CASE FinishProperties
  BY <1>7 DEF FinishProperties, network, search, PassTypeOK
<1>8. CASE FinishExpansion
  BY <1>8 DEF FinishExpansion, network, search, PassTypeOK
<1>9. CASE InsertPort
  BY <1>9, InsertPortFacts, ReturnFacts DEF search, PassTypeOK
<1> QED
  BY <1>1, <1>2, <1>3, <1>4, <1>5, <1>6, <1>7, <1>8, <1>9 DEF PassNext

\* Without calls the walk stands still.
LEMMA NoCalls ==
    ASSUME WalkInv, calls = <<>>, UNCHANGED <<calls, processed, handled>>
    PROVE  WalkInv'
<1>1. Len(calls') = 0
  OBVIOUS
<1>2. \A i : i \notin 1..Len(calls')
  BY <1>1
<1>3. processed \subseteq handled
  <2>1. \A i : i \notin 1..Len(calls)
    OBVIOUS
  <2> QED
    BY <2>1 DEF WalkInv, ProcessedRunning
<1> QED
  BY <1>2, <1>3 DEF WalkInv, CallsRunning, CallsDescend, CallsWalked,
                    ProcessedRunning

\* A handler returns: the innermost resource is handled.
LEMMA ReturnStep ==
    ASSUME PassTypeOK, WalkInv, calls # <<>>, Return,
           UNCHANGED <<tpl, phase, dependsOnNodes>>,
           stage' \in {stage, "properties"}
    PROVE  WalkInv'
<1>1. /\ Len(calls) \in Nat \ {0} /\ Len(calls') = Len(calls) - 1
      /\ \A i \in 1..(Len(calls) - 1) : calls'[i] = calls[i]
      /\ handled' = handled \cup {Self} /\ processed' = processed
      /\ Self = calls[Len(calls)].resource
  BY ReturnFacts
<1>2. CallsRunning'
  BY DEF WalkInv, CallsRunning
<1>3. CallsDescend'
  BY <1>1 DEF WalkInv, CallsDescend, Rank, PartRank
<1>4. CallsWalked'
  BY <1>1 DEF WalkInv, CallsWalked
<1>5. ProcessedRunning'
  <2> SUFFICES ASSUME NEW r \in processed, r \notin handled, r # Self
               PROVE  \E i \in 1..Len(calls') : calls'[i].resource = r
    BY <1>1 DEF ProcessedRunning
  <2>1. PICK i \in 1..Len(calls) : calls[i].resource = r
    BY DEF WalkInv, ProcessedRunning
  <2>2. i \in 1..Len(calls')
    BY <1>1, <2>1
  <2> QED
    BY <1>1, <2>1, <2>2
<1> QED
  BY <1>2, <1>3, <1>4, <1>5 DEF WalkInv

\* The call for a dependency has a smaller rank than the calls below.
LEMMA WalkDependencyStep ==
    ASSUME IInv, PassTypeOK, WalkInv, WalkDependency
    PROVE  WalkInv'
<1> DEFINE d == dependsOnNodes[Self][Top.next]
<1>1. /\ calls # <<>> /\ Len(calls) \in Nat \ {0}
      /\ Top.next \in DOMAIN dependsOnNodes[Self]
      /\ d \in Resource /\ d \in ToSet(dependsOnNodes[Self])
      /\ processed' = processed \cup {d}
      /\ calls' \in Seq(Call)
      /\ \A i \in 1..Len(calls) :
            /\ calls'[i].resource = calls[i].resource
            /\ calls'[i].next =
                IF i = Len(calls) THEN calls[i].next + 1 ELSE calls[i].next
      /\ \/ d \in processed /\ Len(calls') = Len(calls)
         \/ Len(calls') = Len(calls) + 1 /\ calls'[Len(calls')] = Begin(d)
      /\ UNCHANGED <<vars, stage, handled, network, search>>
  BY WalkDependencyFacts
<1>2. UNCHANGED <<tpl, phase, stage, dependsOnNodes, handled>>
  BY <1>1 DEF vars, cursors, links
<1>3. /\ Self = calls[Len(calls)].resource /\ Top.next = calls[Len(calls)].next
      /\ Top.next \in Nat \ {0} /\ Self \in Resource
  BY <1>1, SelfFacts DEF Self
<1>4. Rank(d) < Rank(Self)
  BY <1>1, <1>3 DEF IInv, DependenciesBelow
<1>5. d = dependsOnNodes[calls[Len(calls)].resource][calls[Len(calls)].next]
  BY <1>3
<1>6. Rank(d) \in Int /\ Rank(Self) \in Int
  BY <1>1, <1>3, RankBounds DEF Node
<1> HIDE DEF d
<1>7. CallsRunning'
  BY <1>1, <1>2 DEF WalkInv, CallsRunning
<1>8. CallsDescend'
  <2> SUFFICES ASSUME NEW i \in 1..Len(calls'), NEW j \in 1..Len(calls'), i < j
               PROVE  (Rank(calls[j].resource) < Rank(calls[i].resource))'
    BY DEF CallsDescend
  <2>1. CASE j <= Len(calls)
    BY <1>1, <1>2, <2>1 DEF WalkInv, CallsDescend, Rank, PartRank
  <2>2. CASE j > Len(calls)
    <3>1. /\ i \in 1..Len(calls) /\ calls'[j].resource = d
          /\ calls'[i].resource = calls[i].resource
      BY <1>1, <2>2 DEF Begin
    <3>2. i = Len(calls) \/ Rank(Self) < Rank(calls[i].resource)
      BY <1>1, <1>3, <3>1 DEF WalkInv, CallsDescend
    <3>3. calls[i].resource \in Resource
      <4>1. calls[i] \in Call
        BY <3>1 DEF PassTypeOK
      <4> QED
        BY <4>1 DEF Call
    <3>4. Rank(calls[i].resource) \in Int
      BY <3>3, RankBounds DEF Node
    <3>5. Rank(d) < Rank(calls[i].resource)
      BY <1>3, <1>4, <1>6, <3>2, <3>4
    <3>6. /\ Rank(calls[j].resource)' = Rank(d)
          /\ Rank(calls[i].resource)' = Rank(calls[i].resource)
      BY <1>2, <3>1 DEF Rank, PartRank
    <3> QED
      BY <3>5, <3>6
  <2> QED
    BY <1>1, <2>1, <2>2
<1>9. CallsWalked'
  <2> SUFFICES ASSUME NEW i \in 1..Len(calls'),
                      NEW k \in DOMAIN dependsOnNodes'[calls'[i].resource],
                      k < calls'[i].next
               PROVE  dependsOnNodes'[calls'[i].resource][k] \in processed'
    BY DEF CallsWalked
  <2>1. CASE i <= Len(calls)
    <3>1. calls[i] \in Call /\ calls[i].resource \in Resource
      <4>1. i \in 1..Len(calls) /\ calls \in Seq(Call)
        BY <1>1, <2>1 DEF PassTypeOK
      <4>2. calls[i] \in Call
        BY <4>1
      <4> QED
        BY <4>2 DEF Call
    <3>2. dependsOnNodes[calls[i].resource] \in Seq(Resource)
      BY <3>1 DEF IInv, TypeOK
    <3>3. k \in Nat /\ calls[i].next \in Nat
      BY <1>1, <1>2, <2>1, <3>1, <3>2 DEF Call
    <3>4. CASE k < calls[i].next
      BY <1>1, <1>2, <2>1, <3>4 DEF WalkInv, CallsWalked
    <3>5. CASE ~ k < calls[i].next
      <4>1. i = Len(calls) /\ k = calls[i].next
        BY <1>1, <2>1, <3>3, <3>5
      <4> QED
        BY <1>1, <1>2, <1>5, <4>1
    <3> QED
      BY <3>4, <3>5
  <2>2. CASE i > Len(calls)
    <3>1. calls'[i] = Begin(d)
      BY <1>1, <2>2
    <3>2. k < 1 /\ k \in DOMAIN dependsOnNodes[d]
      BY <1>2, <3>1 DEF Begin
    <3>3. dependsOnNodes[d] \in Seq(Resource)
      BY <1>1 DEF IInv, TypeOK
    <3> QED
      BY <3>2, <3>3
  <2> QED
    BY <1>1, <2>1, <2>2
<1>10. ProcessedRunning'
  <2> SUFFICES ASSUME NEW r \in processed', r \notin handled
               PROVE  \E i \in 1..Len(calls') : calls'[i].resource = r
    BY <1>2 DEF ProcessedRunning
  <2>1. CASE r \in processed
    <3>1. PICK i \in 1..Len(calls) : calls[i].resource = r
      BY <2>1 DEF WalkInv, ProcessedRunning
    <3> QED
      BY <1>1, <3>1
  <2>2. CASE r \notin processed
    <3>1. r = d /\ Len(calls') = Len(calls) + 1 /\ calls'[Len(calls')] = Begin(d)
      BY <1>1, <2>2
    <3>2. Len(calls') \in 1..Len(calls')
      BY <1>1, <3>1
    <3> QED
      BY <3>1, <3>2 DEF Begin
  <2> QED
    BY <2>1, <2>2
<1> QED
  BY <1>7, <1>8, <1>9, <1>10 DEF WalkInv

\* Every step keeps the invariant of the walk.
LEMMA WalkStep ==
    ASSUME IInv, PassTypeOK, WalkInv, InsertionInv, [PassNext]_allVars
    PROVE  WalkInv'
<1>1. CASE \/ OtherPass \/ ExpandNetwork \/ RaiseHalfRange \/ SkipExpansion
           \/ FinishProperties \/ FinishExpansion
  <2>1. UNCHANGED <<calls, processed, handled>>
    BY <1>1 DEF OtherPass, ExpandNetwork, RaiseHalfRange, SkipExpansion,
                FinishProperties, FinishExpansion, passVars, walk
  <2>2. calls = <<>>
    BY <1>1 DEF OtherPass, ExpandNetwork, RaiseHalfRange, SkipExpansion,
                FinishProperties, FinishExpansion, Expanding, Running,
                WalkInv, CallsRunning
  <2> QED
    BY <2>1, <2>2, NoCalls
<1>2. CASE WalkResource
  <2>1. /\ calls = <<>> /\ phase = "remove" /\ stage = "properties"
        /\ calls' = IF AtResource \in processed THEN <<>> ELSE <<Begin(AtResource)>>
        /\ processed' = processed \cup {AtResource}
        /\ UNCHANGED <<phase, stage, handled, dependsOnNodes>>
        /\ AtResource \in Resource
    BY <1>2, AtFacts DEF WalkResource, Running, NextPosition, links
  <2>2. CASE AtResource \in processed
    <3>1. UNCHANGED <<calls, processed, handled>>
      BY <2>1, <2>2
    <3> QED
      BY <2>1, <3>1, NoCalls
  <2>3. CASE AtResource \notin processed
    <3>1. /\ Len(calls') = 1 /\ calls'[1].resource = AtResource
          /\ calls'[1].next = 1
      BY <2>1, <2>3 DEF Begin
    <3>2. CallsRunning' /\ CallsDescend'
      BY <2>1, <3>1 DEF CallsRunning, CallsDescend
    <3>3. CallsWalked'
      <4>1. dependsOnNodes[AtResource] \in Seq(Resource)
        BY <2>1 DEF IInv, TypeOK
      <4> QED
        BY <2>1, <3>1, <4>1 DEF CallsWalked
    <3>4. ProcessedRunning'
      <4>1. \A x \in processed : x \in handled
        <5>1. \A i : i \notin 1..Len(calls)
          BY <2>1
        <5> QED
          BY <5>1 DEF WalkInv, ProcessedRunning
      <4> QED
        BY <2>1, <3>1, <4>1 DEF ProcessedRunning
    <3> QED
      BY <3>2, <3>3, <3>4 DEF WalkInv
  <2> QED
    BY <2>2, <2>3
<1>3. CASE WalkDependency
  BY <1>3, WalkDependencyStep
<1>4. CASE HandleServer \/ HandleVolume \/ HandleOther \/ HandleNetwork
  <2>1. calls # <<>> /\ Return /\ UNCHANGED <<tpl, phase, dependsOnNodes, stage>>
    BY <1>4 DEF HandleServer, HandleVolume, HandleOther, HandleNetwork,
                DependenciesWalked, InCall, vars, cursors, links
  <2> QED
    BY <2>1, ReturnStep
<1>5. CASE HandlePort
  <2>1. /\ calls # <<>> /\ phase = "remove"
        /\ UNCHANGED <<tpl, phase, dependsOnNodes>>
        /\ \/ Return /\ UNCHANGED stage
           \/ stage' = "insertion" /\ UNCHANGED <<processed, calls, handled>>
    BY <1>5 DEF HandlePort, DependenciesWalked, InCall, Running, cursors
  <2>2. CASE Return /\ UNCHANGED stage
    BY <2>1, <2>2, ReturnStep
  <2>3. CASE stage' = "insertion" /\ UNCHANGED <<processed, calls, handled>>
    BY <2>1, <2>3 DEF WalkInv, CallsRunning, CallsDescend, CallsWalked,
                      ProcessedRunning, Rank, PartRank
  <2> QED
    BY <2>1, <2>2, <2>3
<1>6. CASE Bisect \/ UNCHANGED allVars
  <2>1. UNCHANGED <<tpl, phase, stage, dependsOnNodes, processed, calls, handled>>
    BY <1>6 DEF Bisect, allVars, passVars, walk, vars, cursors, links
  <2> QED
    BY <2>1 DEF WalkInv, CallsRunning, CallsDescend, CallsWalked,
                ProcessedRunning, Rank, PartRank
<1>7. CASE InsertPort
  <2>1. /\ calls # <<>> /\ Return /\ stage' = "properties"
        /\ UNCHANGED <<tpl, phase, dependsOnNodes>>
    BY <1>7, InsertPortFacts DEF vars, cursors, links
  <2> QED
    BY <2>1, ReturnStep
<1> QED
  BY <1>1, <1>2, <1>3, <1>4, <1>5, <1>6, <1>7 DEF PassNext

\* Orders are numbers.
LEMMA OrderType ==
    ASSUME IInv
    PROVE  \A n \in Node : tpl.order[n] \in Nat
  BY TemplateFacts DEF IInv, Template

\* What the insertion is about does not change while it searches.
LEMMA SameInsertion ==
    ASSUME UNCHANGED <<tpl, phase, dependsOnNodes, calls, portsOf>>
    PROVE  /\ Top' = Top /\ Self' = Self /\ Port' = Port /\ Ports' = Ports
           /\ BindsTo(Port)' = BindsTo(Port)
  BY DEF Top, Self, Port, Ports, BindsTo, FirstTarget, Target, Last

\* The binary search keeps its bounds around the place of the port.
LEMMA BisectStep ==
    ASSUME IInv, PassTypeOK, InsertionInv, PortsSorted, Bisect
    PROVE  InsertionInv'
<1> DEFINE mid == (lo + hi) \div 2
<1>1. /\ stage = "insertion" /\ lo < hi
      /\ IF GoesBefore(mid) THEN hi' = mid /\ UNCHANGED lo
                            ELSE lo' = mid + 1 /\ UNCHANGED hi
      /\ UNCHANGED <<tpl, phase, dependsOnNodes, calls, portsOf>>
  BY DEF Bisect, Inserting, Running, vars, cursors, links, walk, network
<1>2. /\ phase = "remove" /\ calls # <<>>
      /\ Top.next > Len(dependsOnNodes[Self])
      /\ BindsTo(Port) \in Node /\ hi <= Len(Ports)
      /\ \A i \in DOMAIN Ports :
            /\ i <= lo => tpl.order[Ports[i]] <= tpl.order[Port]
            /\ i > hi => tpl.order[Port] < tpl.order[Ports[i]]
  BY <1>1 DEF InsertionInv
<1>3. Ports \in Seq(Node) /\ lo \in Nat /\ hi \in Nat /\ Port \in Node
  BY <1>2, SelfFacts DEF Ports, Port, PassTypeOK
<1>4. mid \in Nat /\ lo <= mid /\ mid < hi
  BY <1>1, <1>3
<1> HIDE DEF mid
<1>5. mid + 1 \in DOMAIN Ports /\ DOMAIN Ports = 1..Len(Ports)
  BY <1>2, <1>3, <1>4
<1>6. \A i, j \in DOMAIN Ports : i < j => tpl.order[Ports[i]] <= tpl.order[Ports[j]]
  BY <1>2 DEF PortsSorted, Ports
<1>7. /\ tpl.order[Port] \in Nat
      /\ \A i \in DOMAIN Ports : tpl.order[Ports[i]] \in Nat
  BY <1>3, <1>5, OrderType
<1>8. CASE GoesBefore(mid)
  <2>1. hi' = mid /\ lo' = lo /\ tpl.order[Port] < tpl.order[Ports[mid + 1]]
    BY <1>1, <1>8 DEF GoesBefore
  <2>2. ASSUME NEW i \in DOMAIN Ports, i > mid
        PROVE  tpl.order[Port] < tpl.order[Ports[i]]
    <3>1. i = mid + 1 \/ tpl.order[Ports[mid + 1]] <= tpl.order[Ports[i]]
      BY <1>4, <1>5, <1>6, <2>2
    <3> QED
      BY <1>5, <1>7, <2>1, <3>1
  <2> QED
    BY <1>1, <1>2, <1>3, <1>4, <2>1, <2>2, SameInsertion DEF InsertionInv
<1>9. CASE ~ GoesBefore(mid)
  <2>1. lo' = mid + 1 /\ hi' = hi /\ ~ tpl.order[Port] < tpl.order[Ports[mid + 1]]
    BY <1>1, <1>9 DEF GoesBefore
  <2>2. ASSUME NEW i \in DOMAIN Ports, i <= mid + 1
        PROVE  tpl.order[Ports[i]] <= tpl.order[Port]
    <3>1. i = mid + 1 \/ tpl.order[Ports[i]] <= tpl.order[Ports[mid + 1]]
      BY <1>4, <1>5, <1>6, <2>2
    <3> QED
      BY <1>5, <1>7, <2>1, <3>1
  <2> QED
    BY <1>1, <1>2, <1>3, <1>4, <2>1, <2>2, SameInsertion DEF InsertionInv
<1> QED
  BY <1>8, <1>9

\* A port at the place found by the search leaves the list sorted.
LEMMA InsertPortStep ==
    ASSUME IInv, PassTypeOK, InsertionInv, PortsSorted, InsertPort
    PROVE  PortsSorted'
<1> DEFINE list == InsertAt(Ports, lo + 1, Port)
           s    == BindsTo(Port)
<1>1. /\ s \in Node /\ Port \in Node /\ Ports \in Seq(Node)
      /\ lo \in Nat /\ lo = hi /\ lo + 1 \in 1..(Len(Ports) + 1)
      /\ portsOf' = [portsOf EXCEPT ![s] = list] /\ tpl' = tpl
  BY InsertPortFacts DEF vars
<1>2. \A i \in DOMAIN Ports :
            /\ i <= lo => tpl.order[Ports[i]] <= tpl.order[Port]
            /\ i > lo => tpl.order[Port] < tpl.order[Ports[i]]
  BY <1>1 DEF InsertionInv, InsertPort, Inserting, Running
<1>3. /\ DOMAIN list = 1..(Len(Ports) + 1)
      /\ \A i \in 1..(Len(Ports) + 1) :
            list[i] = IF i < lo + 1 THEN Ports[i]
                      ELSE IF i = lo + 1 THEN Port ELSE Ports[i - 1]
  <2> DEFINE k == lo + 1
  <2>1. k \in 1..(Len(Ports) + 1)
    BY <1>1
  <2> HIDE DEF k
  <2>2. /\ DOMAIN InsertAt(Ports, k, Port) = 1..(Len(Ports) + 1)
        /\ \A i \in 1..(Len(Ports) + 1) :
            InsertAt(Ports, k, Port)[i] =
                IF i < k THEN Ports[i] ELSE IF i = k THEN Port ELSE Ports[i - 1]
    BY <1>1, <2>1, InsertAtProperties
  <2> QED
    BY <2>2 DEF k
<1>4. \A i, j \in DOMAIN Ports : i < j => tpl.order[Ports[i]] <= tpl.order[Ports[j]]
  BY <1>1 DEF PortsSorted, Ports
<1>5. /\ tpl.order[Port] \in Nat
      /\ \A i \in DOMAIN Ports : tpl.order[Ports[i]] \in Nat
      /\ DOMAIN Ports = 1..Len(Ports)
  BY <1>1, OrderType
<1> HIDE DEF list
<1>6. ASSUME NEW i \in DOMAIN list, NEW j \in DOMAIN list, i < j
      PROVE  tpl.order[list[i]] <= tpl.order[list[j]]
  <2>1. CASE j < lo + 1
    BY <1>1, <1>3, <1>4, <1>5, <1>6, <2>1
  <2>2. CASE j = lo + 1
    BY <1>1, <1>2, <1>3, <1>5, <1>6, <2>2
  <2>3. CASE j > lo + 1 /\ i < lo + 1
    <3>1. i \in DOMAIN Ports /\ j - 1 \in DOMAIN Ports /\ i <= j - 1
      BY <1>1, <1>3, <1>5, <1>6, <2>3
    <3>2. list[i] = Ports[i] /\ list[j] = Ports[j - 1]
      BY <1>1, <1>3, <2>3
    <3>3. i < j - 1
      BY <1>1, <1>3, <2>3
    <3> QED
      BY <1>4, <3>1, <3>2, <3>3
  <2>4. CASE j > lo + 1 /\ i = lo + 1
    <3>1. j - 1 \in DOMAIN Ports /\ j - 1 > lo
      BY <1>1, <1>3, <1>5, <2>4
    <3>2. list[i] = Port /\ list[j] = Ports[j - 1]
      BY <1>1, <1>3, <2>4
    <3> QED
      BY <1>2, <1>5, <3>1, <3>2
  <2>5. CASE j > lo + 1 /\ i > lo + 1
    <3>1. i - 1 \in DOMAIN Ports /\ j - 1 \in DOMAIN Ports /\ i - 1 < j - 1
      BY <1>1, <1>3, <1>5, <1>6, <2>5
    <3>2. list[i] = Ports[i - 1] /\ list[j] = Ports[j - 1]
      BY <1>1, <1>3, <2>5
    <3> QED
      BY <1>4, <3>1, <3>2
  <2> QED
    BY <1>1, <1>3, <2>1, <2>2, <2>3, <2>4, <2>5
<1>7. \A x \in Node : portsOf'[x] = IF x = s THEN list ELSE portsOf[x]
  BY <1>1 DEF PassTypeOK
<1> HIDE DEF s
<1> QED
  BY <1>1, <1>6, <1>7 DEF PortsSorted

\* Every step keeps the invariant of the insertion and the order.
LEMMA InsertionStep ==
    ASSUME IInv, PassTypeOK, InsertionInv, PortsSorted, [PassNext]_allVars
    PROVE  InsertionInv' /\ PortsSorted'
<1>1. CASE \/ OtherPass \/ WalkResource \/ WalkDependency
           \/ HandleServer \/ HandleVolume \/ HandleOther \/ HandleNetwork
           \/ FinishProperties \/ FinishExpansion
           \/ ExpandNetwork \/ RaiseHalfRange \/ SkipExpansion
  <2>1. UNCHANGED <<tpl, portsOf>>
    BY <1>1, NextTemplate
       DEF OtherPass, WalkResource, WalkDependency, HandleServer, HandleVolume,
           HandleOther, HandleNetwork, FinishProperties, FinishExpansion,
           ExpandNetwork, RaiseHalfRange, SkipExpansion, vars, passVars, network
  <2>2. stage' # "insertion"
    BY <1>1
       DEF OtherPass, WalkResource, WalkDependency, HandleServer, HandleVolume,
           HandleOther, HandleNetwork, FinishProperties, FinishExpansion,
           ExpandNetwork, RaiseHalfRange, SkipExpansion, passVars, walk, Running,
           InCall, DependenciesWalked, Expanding, InsertionInv
  <2> QED
    BY <2>1, <2>2 DEF InsertionInv, PortsSorted
<1>2. CASE HandlePort
  <2>1. /\ stage = "properties" /\ phase = "remove" /\ calls # <<>>
        /\ Top.next > Len(dependsOnNodes[Self])
        /\ UNCHANGED <<tpl, phase, dependsOnNodes, portsOf>>
    BY <1>2 DEF HandlePort, DependenciesWalked, InCall, Running, ToWalk, cursors
  <2>2. PortsSorted'
    BY <2>1 DEF PortsSorted
  <2>3. CASE BindsTo(Self.node) = NoNode
    BY <1>2, <2>1, <2>2, <2>3 DEF HandlePort, InsertionInv
  <2>4. CASE BindsTo(Self.node) # NoNode
    <3>1. /\ lo' = 0 /\ hi' = Len(Ports) /\ UNCHANGED calls
      BY <1>2, <2>4 DEF HandlePort, Ports, Port
    <3>2. BindsTo(Port) \in Node
      BY <2>1, <2>4, SelfFacts, FirstTargetType DEF IInv, BindsTo, Port
    <3>3. Ports \in Seq(Node)
      BY <3>2 DEF Ports, PassTypeOK
    <3>4. DOMAIN Ports = 1..Len(Ports) /\ Len(Ports) \in Nat
      BY <3>3
    <3>5. /\ Top' = Top /\ Self' = Self /\ Port' = Port /\ Ports' = Ports
          /\ BindsTo(Port)' = BindsTo(Port)
      BY <2>1, <3>1, SameInsertion
    <3>6. InsertionInv'
      BY <2>1, <3>1, <3>2, <3>4, <3>5 DEF InsertionInv
    <3> QED
      BY <2>2, <3>6
  <2> QED
    BY <2>3, <2>4
<1>3. CASE Bisect
  <2>1. UNCHANGED <<tpl, portsOf>>
    BY <1>3 DEF Bisect, vars, network
  <2> QED
    BY <1>3, <2>1, BisectStep DEF PortsSorted
<1>4. CASE InsertPort
  <2>1. stage' = "properties"
    BY <1>4 DEF InsertPort
  <2> QED
    BY <1>4, <2>1, InsertPortStep DEF InsertionInv
<1>5. CASE UNCHANGED allVars
  <2>1. UNCHANGED <<tpl, phase, stage, dependsOnNodes, calls, portsOf, lo, hi>>
    BY <1>5 DEF allVars, passVars, walk, network, search, vars, cursors, links
  <2> QED
    BY <2>1, SameInsertion DEF InsertionInv, PortsSorted
<1> QED
  BY <1>1, <1>2, <1>3, <1>4, <1>5 DEF PassNext

\* The invariant of the walk and of the binary insertion.
LEMMA PassInvariance == PassSpec => []PInv
<1>1. PInv /\ [PassNext]_allVars => PInv'
  BY PassKeepsIInv, PassTypeStep, WalkStep, InsertionStep DEF PInv
<1> QED
  BY <1>1, InitPInv, PTL DEF PassSpec

-----------------------------------------------------------------------------
(* What follows from the first invariant.                                  *)

\* The state of the two passes always has its type: in particular the binary
\* insertion never leaves its list, and a port is bound to a node.
THEOREM PassTypeCorrect == PassSpec => []PassTypeOK
<1>1. PInv => PassTypeOK
  BY DEF PInv
<1> QED
  BY <1>1, PassInvariance, PTL

\* The two passes in between, which take dependencies and servers away, leave
\* depends_on and the server properties without a cycle, as the others do.
THEOREM PassDependenciesAcyclic == PassSpec => []NoCircularDependency
<1>1. PInv => NoCircularDependency
  BY RanksDescend DEF PInv
<1> QED
  BY <1>1, PassInvariance, PTL

\* However many ports a server has, whatever their orders and the order in
\* which they are handled, its list of ports is sorted at any time.
THEOREM PortsStaySorted == PassSpec => []PortsSorted
<1>1. PInv => PortsSorted
  BY DEF PInv
<1> QED
  BY <1>1, PassInvariance, PTL

\* The loop of a call ends once all that its resource depends on is handled: a
\* dependency found in processed_resources has returned, for the running calls
\* descend towards the dependencies.
LEMMA WalkedHandled ==
    ASSUME PInv, calls # <<>>, Top.next > Len(dependsOnNodes[Self])
    PROVE  ToSet(dependsOnNodes[Self]) \subseteq handled
<1>1. /\ Len(calls) \in Nat \ {0} /\ Self = calls[Len(calls)].resource
      /\ Self \in Resource /\ Top = calls[Len(calls)] /\ Top.next \in Nat
  BY SelfFacts DEF PInv, Self
<1>2. dependsOnNodes[Self] \in Seq(Resource)
  BY <1>1 DEF PInv, IInv, TypeOK
<1>3. ASSUME NEW k \in DOMAIN dependsOnNodes[Self],
             dependsOnNodes[Self][k] \notin handled
      PROVE  FALSE
  <2> DEFINE d == dependsOnNodes[Self][k]
  <2>1. k < Top.next
    BY <1>1, <1>2
  <2>2. d \in processed
    BY <1>1, <2>1 DEF PInv, WalkInv, CallsWalked
  <2>3. PICK i \in 1..Len(calls) : calls[i].resource = d
    BY <1>3, <2>2 DEF PInv, WalkInv, ProcessedRunning
  <2>4. d \in Resource /\ d \in ToSet(dependsOnNodes[Self])
    BY <1>2 DEF ToSet
  <2> HIDE DEF d
  <2>5. Rank(d) < Rank(Self)
    BY <1>1, <2>4 DEF PInv, IInv, DependenciesBelow
  <2>6. i = Len(calls) \/ Rank(Self) < Rank(d)
    BY <1>1, <2>3 DEF PInv, WalkInv, CallsDescend
  <2>7. Rank(d) \in Int /\ Rank(Self) \in Int
    <3>1. \A x \in Resource : Rank(x) \in Int
      BY RankBounds DEF Node
    <3> QED
      BY <1>1, <2>4, <3>1
  <2> QED
    BY <1>1, <2>3, <2>5, <2>6, <2>7
<1> QED
  BY <1>3 DEF ToSet

\* A resource is handled after all that is in its depends_on_nodes.
LEMMA HandledAfterDependencies ==
    ASSUME PInv, [PassNext]_allVars, NEW r \in handled' \ handled
    PROVE  ToSet(dependsOnNodes[r]) \subseteq handled
<1>1. calls # <<>> /\ Return /\ Top.next > Len(dependsOnNodes[Self])
  <2>1. CASE \/ OtherPass \/ WalkResource \/ WalkDependency \/ Bisect
             \/ FinishProperties \/ FinishExpansion
             \/ ExpandNetwork \/ RaiseHalfRange \/ SkipExpansion
             \/ UNCHANGED allVars
    <3>1. handled' = handled
      BY <2>1 DEF OtherPass, WalkResource, WalkDependency, Bisect,
                  FinishProperties, FinishExpansion, ExpandNetwork,
                  RaiseHalfRange, SkipExpansion, allVars, passVars, walk
    <3> QED
      BY <3>1
  <2>2. CASE HandleServer \/ HandleVolume \/ HandleOther \/ HandleNetwork
    BY <2>2 DEF HandleServer, HandleVolume, HandleOther, HandleNetwork,
                DependenciesWalked, InCall, ToWalk
  <2>3. CASE HandlePort
    BY <2>3 DEF HandlePort, DependenciesWalked, InCall, ToWalk
  <2>4. CASE InsertPort
    BY <2>4, InsertPortFacts DEF PInv
  <2> QED
    BY <2>1, <2>2, <2>3, <2>4 DEF PassNext
<1>2. /\ Len(calls) \in Nat \ {0} /\ Self = calls[Len(calls)].resource
      /\ Self \in Resource /\ handled' = handled \cup {Self}
      /\ Top = calls[Len(calls)] /\ Top.next \in Nat
  BY <1>1, ReturnFacts, SelfFacts DEF PInv
<1>3. r = Self
  BY <1>2
<1>4. ToSet(dependsOnNodes[Self]) \subseteq handled
  BY <1>1, WalkedHandled
<1> QED
  BY <1>3, <1>4

\* Whatever the template, the walk handles the properties of every resource
\* after those of all the resources it depends on, for all that a resource
\* found in processed_resources is passed over whether or not it was handled.
THEOREM DependenciesFirst == PassSpec => DependenciesHandledFirst
<1>1. PInv /\ [PassNext]_allVars =>
        [\A r \in handled' \ handled : ToSet(dependsOnNodes[r]) \subseteq handled]_allVars
  BY HandledAfterDependencies
<1> QED
  BY <1>1, PassInvariance, PTL DEF PassSpec, DependenciesHandledFirst

-----------------------------------------------------------------------------
(* The second invariant of NodeTranslation, through the two passes.        *)

\* A step between hosting and remove that takes dependencies away at most, and
\* none on an operation.
LEMMA RemovingStep ==
    ASSUME IInv, OrderInv, phase = "remove", phase' \in Removing,
           UNCHANGED <<tpl, chain, lastDeploy>>, Listed \subseteq Listed',
           \A r \in Resource :
                /\ ToSet(dependsOn'[r]) \subseteq ToSet(dependsOn[r])
                /\ \A x \in Resource : Once(dependsOn[r], x) => Once(dependsOn'[r], x)
                /\ Typed(r) => Typed(r)'
                /\ Typed(r)' => Typed(r) \/ (r \in Listed' /\ ToSet(dependsOn[r]) = {}),
           \A n \in Node :
                /\ \A r \in Deployments(n) : IsDeployment(r) => IsDeployment(r)'
                /\ \A op \in Declared(n) :
                    dependsOn'[OpDeploy(n, op)] = dependsOn[OpDeploy(n, op)],
           \A n \in Node : \A q \in DOMAIN tpl.reqs[n] :
                LET t == Target(n, q) IN
                Declared(t) # {} /\ OpDeploy(t, LastOp(t)) \in ToSet(dependsOn[Main(n)])
                    => OpDeploy(t, LastOp(t)) \in ToSet(dependsOn'[Main(n)])
    PROVE  OrderInv'
<1>1. FreshLinks' /\ MainsListed' /\ TypelessCopied'
  BY DEF FreshLinks, MainsListed, MainCopied, TypelessCopied, Removing
<1>2. TypedListed'
  BY DEF OrderInv, TypedListed
<1>3. MainsTyped'
  <2> SUFFICES ASSUME NEW n \in Node, MainType(n) # "None"
               PROVE  Typed(Main(n))'
    BY SameTemplate DEF MainsTyped
  <2>1. Main(n) \in Resource /\ Typed(Main(n))
    BY ResourceFacts DEF OrderInv, MainsTyped
  <2> QED
    BY <2>1
<1>4. LifeCycleOrder'
  <2> SUFFICES ASSUME NEW n \in Node
               PROVE  /\ \A r \in Deployments(n) : IsDeployment(r)'
                      /\ Declared(n) # {} => lastDeploy[n] = OpDeploy(n, LastOp(n))
                      /\ \A op, later \in Declared(n) : FollowsDirectly(n, op, later) =>
                          OpDeploy(n, op) \in ToSet(dependsOn'[OpDeploy(n, later)])
                      /\ tpl.roles[n] /\ Declared(n) # {} /\ FirstOp(n) # "create" =>
                          Roles(n) \in ToSet(dependsOn'[OpDeploy(n, FirstOp(n))])
    BY SameTemplate DEF LifeCycleOrder
  <2>1. LifeCycleHandled(n)
    BY DEF LifeCycleHandled
  <2>2. Declared(n) # {} => FirstOp(n) \in Declared(n)
    BY FirstOpFacts, TemplateFacts DEF IInv
  <2> QED
    BY <2>1, <2>2 DEF OrderInv, LifeCycleOrder
<1>5. LinksTyped'
  <2>1. \A r \in Resource : chain[r] \in Resource
    BY DEF IInv, TypeOK
  <2>2. \A n \in Node : lastDeploy[n] # NoResource => lastDeploy[n] \in Resource
    BY DEF IInv, TypeOK
  <2>3. \A r \in Resource : Typed(r) => Typed(r)'
    OBVIOUS
  <2>4. \A r \in Resource : chain[r] = r \/ Typed(chain[r])
    BY DEF OrderInv, LinksTyped
  <2>5. \A n \in Node : lastDeploy[n] # NoResource => Typed(lastDeploy[n])
    BY DEF OrderInv, LinksTyped
  <2>6. \A r \in Resource : chain[r] = r \/ Typed(chain[r])'
    BY <2>1, <2>3, <2>4 DEF Typed
  <2>7. \A n \in Node : lastDeploy[n] # NoResource => Typed(lastDeploy[n])'
    BY <2>2, <2>3, <2>5 DEF Typed
  <2> QED
    BY <2>6, <2>7 DEF LinksTyped, Typed
<1>6. DependenciesListed'
  <2> SUFFICES ASSUME NEW r \in Resource, Typed(r)'
               PROVE  ToSet(dependsOn'[r]) \subseteq Listed'
    BY DEF DependenciesListed
  <2>1. CASE Typed(r)
    BY <2>1 DEF OrderInv, DependenciesListed
  <2>2. CASE ToSet(dependsOn[r]) = {}
    BY <2>2
  <2> QED
    BY <2>1, <2>2
<1>7. TypelessOnce'
  BY DEF OrderInv, TypelessOnce
<1>8. LastCopied'
  <2> SUFFICES ASSUME NEW n \in Node, NEW q \in DOMAIN tpl.reqs[n],
                      Declared(Target(n, q)) # {}
               PROVE  OpDeploy(Target(n, q), LastOp(Target(n, q)))
                            \in ToSet(dependsOn'[Main(n)])
    BY SameTemplate DEF LastCopied
  <2>1. DependDone(n, q)
    BY DEF DependDone, Removing
  <2> QED
    BY <2>1 DEF OrderInv, LastCopied
<1> QED
  BY <1>1, <1>2, <1>3, <1>4, <1>5, <1>6, <1>7, <1>8 DEF OrderInv

\* The handlers that write properties only, and the cursors.
LEMMA PropertyOrderStep ==
    ASSUME IInv, OrderInv, phase = "remove", phase' \in Removing,
           UNCHANGED <<tpl, resources, expanded, dependsOn, chain, lastDeploy>>,
           \A r \in Resource : hot'[r].type = hot[r].type
    PROVE  OrderInv'
<1>1. \A r \in Resource :
        (Typed(r)' <=> Typed(r)) /\ (IsDeployment(r)' <=> IsDeployment(r))
  BY DEF Typed, IsDeployment
<1>2. Listed' = Listed
  BY DEF Listed
<1>3. \A n \in Node : Deployments(n) \subseteq Resource
  BY TemplateFacts, ResourceFacts DEF Deployments, OpDeploys, IInv
<1>4. \A n \in Node : \A r \in Deployments(n) : IsDeployment(r) => IsDeployment(r)'
  BY <1>1, <1>3
<1> QED
  BY <1>1, <1>2, <1>4, RemovingStep

\* A port does not wait for operations of the network it links to, nor of the
\* server it binds to, by their main resources.
LEMMA FirstTargetKind ==
    ASSUME tpl \in Templates, NEW n \in Node
    PROVE  /\ LinksTo(n) # NoNode =>
                /\ LinksTo(n) \in Node /\ tpl.kind[LinksTo(n)] = "network"
                /\ \E q \in DOMAIN tpl.reqs[n] : Target(n, q) = LinksTo(n)
           /\ BindsTo(n) # NoNode =>
                /\ BindsTo(n) \in Node /\ tpl.kind[BindsTo(n)] = "compute"
                /\ tpl.kind[n] = "port"
                /\ \E q \in DOMAIN tpl.reqs[n] : Target(n, q) = BindsTo(n)
<1>1. ASSUME NEW relation, FirstTarget(n, relation) # NoNode
      PROVE  \E q \in DOMAIN tpl.reqs[n] :
                /\ tpl.reqs[n][q].relation = relation
                /\ Target(n, q) = FirstTarget(n, relation)
  <2> DEFINE related ==
        {q \in DOMAIN tpl.reqs[n] : tpl.reqs[n][q].relation = relation}
  <2>1. related # {}
    BY <1>1 DEF FirstTarget
  <2>2. related \in SUBSET Nat
    BY TemplateFacts
  <2>3. FirstTarget(n, relation) =
            Target(n, CHOOSE q \in related : \A p \in related : q <= p)
    BY <2>1 DEF FirstTarget
  <2>4. \A q \in related : q \in DOMAIN tpl.reqs[n] /\ tpl.reqs[n][q].relation = relation
    OBVIOUS
  <2> HIDE DEF related
  <2>5. \E q \in related : \A p \in related : q <= p
    BY <2>1, <2>2, MinProperty
  <2> QED
    BY <2>3, <2>4, <2>5
<1>2. WellFormed(tpl)
  BY TemplatesAssumption
<1>3. ASSUME NEW q \in DOMAIN tpl.reqs[n]
      PROVE  /\ Target(n, q) \in Node
             /\ tpl.reqs[n][q].relation = "LinksTo" => tpl.kind[Target(n, q)] = "network"
             /\ tpl.reqs[n][q].relation = "BindsTo" =>
                    tpl.kind[n] = "port" /\ tpl.kind[Target(n, q)] = "compute"
  <2>1. q \in 1..Len(tpl.reqs[n]) /\ Target(n, q) \in Node
    BY TemplateFacts
  <2> QED
    BY <1>2, <2>1 DEF WellFormed, Target
<1>4. ASSUME LinksTo(n) # NoNode
      PROVE  /\ LinksTo(n) \in Node /\ tpl.kind[LinksTo(n)] = "network"
             /\ \E q \in DOMAIN tpl.reqs[n] : Target(n, q) = LinksTo(n)
  BY <1>1, <1>3, <1>4 DEF LinksTo
<1>5. ASSUME BindsTo(n) # NoNode
      PROVE  /\ BindsTo(n) \in Node /\ tpl.kind[BindsTo(n)] = "compute"
             /\ tpl.kind[n] = "port"
             /\ \E q \in DOMAIN tpl.reqs[n] : Target(n, q) = BindsTo(n)
  BY <1>1, <1>3, <1>5 DEF BindsTo
<1> QED
  BY <1>4, <1>5

\* What a port no longer waits for is no deployment of an operation.
LEMMA DropLinksElements ==
    ASSUME tpl \in Templates, NEW n \in Node, NEW d \in Seq(Resource)
    PROVE  /\ \A x \in Resource : Once(d, x) => Once(DropLinks(d, n), x)
           /\ \A t \in Node : \A op \in Declared(t) :
                OpDeploy(t, op) \in ToSet(d) => OpDeploy(t, op) \in ToSet(DropLinks(d, n))
<1>1. WellFormed(tpl)
  BY TemplatesAssumption
<1>2. ASSUME NEW t \in Node, NEW op \in Declared(t), NEW m \in Node,
             tpl.kind[m] \in {"network", "compute"}
      PROVE  OpDeploy(t, op) # Main(m)
  <2>1. tpl.kind[t] # "network"
    BY <1>1, <1>2 DEF WellFormed, Declared, ToSet
  <2>2. op # "main"
    BY TemplateFacts DEF Operation
  <2> QED
    BY <1>2, <2>1, <2>2 DEF OpDeploy, Main
<1>3. DropLink(d, n) \in Seq(Resource)
  BY RemoveFirstProperties DEF DropLink
<1>4. ASSUME NEW x \in Resource, Once(d, x)
      PROVE  Once(DropLinks(d, n), x)
  <2>1. Once(DropLink(d, n), x)
    BY <1>4, RemoveFirstElements DEF DropLink
  <2> QED
    BY <1>3, <2>1, RemoveFirstElements DEF DropLinks
<1>5. ASSUME NEW t \in Node, NEW op \in Declared(t), OpDeploy(t, op) \in ToSet(d)
      PROVE  OpDeploy(t, op) \in ToSet(DropLinks(d, n))
  <2>1. OpDeploy(t, op) \in ToSet(DropLink(d, n))
    <3>1. LinksTo(n) # NoNode => OpDeploy(t, op) # Main(LinksTo(n))
      BY <1>2, FirstTargetKind
    <3> QED
      BY <1>5, <3>1, RemoveFirstElements DEF DropLink
  <2>2. BindsTo(n) # NoNode => OpDeploy(t, op) # Main(BindsTo(n))
    BY <1>2, FirstTargetKind
  <2> QED
    BY <1>3, <2>1, <2>2, RemoveFirstElements DEF DropLinks
<1> QED
  BY <1>4, <1>5

\* The entry a port loses is that of an end, never of an operation or a role.
LEMMA HandlePortOrderStep ==
    ASSUME IInv, OrderInv, PassTypeOK, HandlePort
    PROVE  OrderInv'
<1>1. calls # <<>> /\ phase = "remove" /\ KindOfSelf = "port"
  BY DEF HandlePort, DependenciesWalked, InCall, Running
<1>2. Self \in Resource /\ Self.node \in Node
  BY <1>1, SelfFacts
<1>3. Self.part = "main" /\ tpl.kind[Self.node] = "port" /\ Self = Main(Self.node)
  <2>1. Self.part # "port" /\ (Self.part = "main" => Self.req = 0)
    BY <1>2 DEF Resource, Operation
  <2> QED
    BY <1>1, <1>2, <2>1 DEF KindOfSelf, Main, Resource
<1>4. /\ hot' = [hot EXCEPT ![Self] = Blank(hot[Self].type)]
      /\ dependsOn' =
            [dependsOn EXCEPT ![Self] = DropLinks(dependsOn[Self], Self.node)]
      /\ UNCHANGED <<tpl, phase, resources, expanded, chain, lastDeploy>>
  BY DEF HandlePort, Overwrite, cursors
<1>5. \A r \in Resource : hot'[r].type = hot[r].type
  BY <1>2, <1>4 DEF IInv, TypeOK, Blank
<1>6. \A r \in Resource :
        (Typed(r)' <=> Typed(r)) /\ (IsDeployment(r)' <=> IsDeployment(r))
  BY <1>5 DEF Typed, IsDeployment
<1>7. Listed' = Listed
  BY <1>4 DEF Listed
<1>8. dependsOn[Self] \in Seq(Resource) /\ tpl \in Templates
  BY <1>2 DEF IInv, TypeOK
<1>9. \A r \in Resource : dependsOn'[r] =
        IF r = Self THEN DropLinks(dependsOn[Self], Self.node) ELSE dependsOn[r]
  BY <1>2, <1>4 DEF IInv, TypeOK
<1>10. ASSUME NEW r \in Resource
       PROVE  /\ ToSet(dependsOn'[r]) \subseteq ToSet(dependsOn[r])
              /\ \A x \in Resource : Once(dependsOn[r], x) => Once(dependsOn'[r], x)
  BY <1>2, <1>8, <1>9, DropLinksProperties, DropLinksElements
<1>11. ASSUME NEW n \in Node
       PROVE  /\ \A r \in Deployments(n) : r \in Resource
              /\ \A op \in Declared(n) :
                    dependsOn'[OpDeploy(n, op)] = dependsOn[OpDeploy(n, op)]
  <2>1. \A r \in Deployments(n) : r \in Resource
    BY TemplateFacts, ResourceFacts DEF Deployments, OpDeploys, IInv
  <2>2. ASSUME NEW op \in Declared(n)
        PROVE  OpDeploy(n, op) \in Resource /\ OpDeploy(n, op) # Self
    <3>1. OpDeploy(n, op) \in Resource /\ OpDeploy(n, op).node = n
      BY <1>8, TemplateFacts, ResourceFacts
    <3>2. WellFormed(tpl)
      BY <1>8, TemplatesAssumption
    <3>3. tpl.kind[n] # "port"
      BY <3>2 DEF WellFormed, Declared, ToSet
    <3> QED
      BY <1>3, <3>1, <3>3
  <2> QED
    BY <1>9, <2>1, <2>2
<1>12. ASSUME NEW n \in Node, NEW q \in DOMAIN tpl.reqs[n], Declared(Target(n, q)) # {},
              OpDeploy(Target(n, q), LastOp(Target(n, q))) \in ToSet(dependsOn[Main(n)])
       PROVE  OpDeploy(Target(n, q), LastOp(Target(n, q))) \in ToSet(dependsOn'[Main(n)])
  <2>1. Target(n, q) \in Node /\ Main(n) \in Resource
    BY <1>8, TemplateFacts, ResourceFacts
  <2>2. LastOp(Target(n, q)) \in Declared(Target(n, q))
    BY <1>8, <1>12, <2>1, TemplateFacts, LastOpFacts
  <2> QED
    BY <1>2, <1>8, <1>9, <1>12, <2>1, <2>2, DropLinksElements
<1>13. phase' \in Removing
  BY <1>1, <1>4 DEF Removing
<1>14. \A n \in Node : \A r \in Deployments(n) : IsDeployment(r) => IsDeployment(r)'
  BY <1>6, <1>11
<1> QED
  BY <1>1, <1>4, <1>6, <1>7, <1>10, <1>11, <1>12, <1>13, <1>14, RemovingStep

\* Nothing gives a subnet a dependency.
SubnetsFree == \A n \in Node : dependsOn[Subnet(n)] = <<>>

\* The passes before the expansion leave the subnets alone.
LEMMA NextSubnetsFree ==
    ASSUME IInv, SubnetsFree, [Next]_vars
    PROVE  SubnetsFree'
<1> SUFFICES ASSUME NEW n \in Node PROVE dependsOn'[Subnet(n)] = <<>>
  BY DEF SubnetsFree, Subnet
<1> DEFINE r == Subnet(n)
<1>1. r \in Resource /\ r.part = "subnet" /\ dependsOn[r] = <<>>
  BY DEF Subnet, Resource, SubnetsFree
<1>2. r \notin {Main(m) : m \in Node} /\ \A m, q : r # Connect(m, q)
  BY DEF Subnet, Main, Connect
<1>3. dependsOn \in [Resource -> Seq(Resource)] /\ tpl \in Templates
  BY DEF IInv, TypeOK
<1> HIDE DEF r
<1>4. CASE UNCHANGED dependsOn
  BY <1>1, <1>4 DEF r
<1>5. CASE HandleLifeCycle
  <2>1. AtResource.node \in Node
    BY <1>5, AtFacts, ResourceNode DEF HandleLifeCycle
  <2>2. ASSUME NEW op \in Declared(AtResource.node)
        PROVE  r # OpDeploy(AtResource.node, op)
    <3>1. op \in Operation
      BY <1>3, <2>1, TemplateFacts
    <3> QED
      BY <1>1, <1>2, <2>1, <3>1 DEF OpDeploy, Operation
  <2>3. LifeCycleDependencies(AtResource.node, r) = {}
    <3>1. Declared(AtResource.node) # {} => FirstOp(AtResource.node) \in Declared(AtResource.node)
      BY <1>3, <2>1, FirstOpFacts, TemplateFacts
    <3> QED
      BY <2>2, <3>1 DEF LifeCycleDependencies
  <2>4. dependsOn'[r] = dependsOn[r]
    BY <1>1, <1>5, <2>3 DEF HandleLifeCycle, AppendLifeCycle
  <2> QED
    BY <1>1, <2>4 DEF r
<1>6. CASE HandleConnectsTo
  BY <1>1, <1>2, <1>3, <1>6 DEF HandleConnectsTo, r
<1>7. CASE CopyDependency
  <2>1. AtNode \in Node
    BY <1>7, AtFacts DEF CopyDependency, AtRequirement
  <2> QED
    BY <1>1, <1>2, <1>3, <1>7, <2>1 DEF CopyDependency, r
<1>8. CASE RemoveTypeless
  <2>1. PICK gone : dependsOn'[r] \in {dependsOn[r], RemoveFirst(dependsOn[r], gone)}
    BY <1>1, <1>8 DEF RemoveTypeless
  <2>2. RemoveFirst(<<>>, gone) = <<>>
    BY DEF RemoveFirst
  <2> QED
    BY <1>1, <2>1, <2>2 DEF r
<1>9. CASE \/ CopyNode \/ AttachVolume \/ SkipVolume \/ NextNode \/ FinishNodes
           \/ FollowLifeCycleHosting \/ SkipAttachment \/ FinishLifeCycle
           \/ FollowConnectHosting \/ SkipConnect \/ FinishConnect
           \/ SkipRelated \/ FinishDepend \/ HandleHosting \/ RaiseNoHost
           \/ FinishHosting \/ FinishRemove \/ UNCHANGED vars
  <2>1. UNCHANGED dependsOn
    BY <1>9 DEF CopyNode, AttachVolume, SkipVolume, NextNode, FinishNodes,
       FollowLifeCycleHosting, SkipAttachment, FinishLifeCycle, FollowConnectHosting,
       FollowHosting, SkipConnect, FinishConnect, SkipRelated, FinishDepend,
       HandleHosting, RaiseNoHost, FinishHosting, FinishRemove, vars, links
  <2> QED
    BY <1>4, <2>1
<1> QED
  BY <1>5, <1>6, <1>7, <1>8, <1>9 DEF Next

\* A subnet enters the list with nothing in its depends_on.
LEMMA ExpandNetworkOrderStep ==
    ASSUME IInv, OrderInv, SubnetsFree, ExpandNetwork
    PROVE  OrderInv'
<1> DEFINE r == Subnet(AtResource.node)
<1>1. r \in Resource /\ r.part = "subnet" /\ AtResource.node \in Node
  BY AtFacts, ResourceNode DEF ExpandNetwork, Expanding, Subnet, Resource
<1>2. /\ expanded' = Append(expanded, r)
      /\ hot' = [hot EXCEPT ![r] = Blank("OS::Neutron::Subnet")]
      /\ phase = "remove" /\ phase' = "remove"
      /\ UNCHANGED <<tpl, resources, dependsOn, chain, lastDeploy>>
  BY DEF ExpandNetwork, links, Expanding, Running, NextPosition
<1>3. dependsOn[r] = <<>>
  BY <1>1 DEF SubnetsFree
<1> HIDE DEF r
<1>4. ToSet(expanded') = ToSet(expanded) \cup {r}
  BY <1>1, <1>2, AppendElements DEF IInv, TypeOK
<1>5. Listed \subseteq Listed' /\ r \in Listed'
  BY <1>2, <1>4 DEF Listed
<1>6. \A x \in Resource :
        hot'[x].type = IF x = r THEN "OS::Neutron::Subnet" ELSE hot[x].type
  BY <1>1, <1>2 DEF IInv, TypeOK, Blank
<1>7. \A x \in Resource :
        /\ Typed(x) => Typed(x)'
        /\ Typed(x)' => Typed(x) \/ (x \in Listed' /\ ToSet(dependsOn[x]) = {})
  <2>1. ToSet(dependsOn[r]) = {}
    BY <1>3 DEF ToSet
  <2> QED
    BY <1>5, <1>6, <2>1 DEF Typed
<1>8. ASSUME NEW n \in Node, NEW x \in Deployments(n), IsDeployment(x)
      PROVE  IsDeployment(x)'
  <2>1. x \in Resource /\ x.part # "subnet"
    <3>1. \A op \in Declared(n) :
            OpDeploy(n, op) \in Resource /\ OpDeploy(n, op).part # "subnet"
      <4>1. \A op \in Declared(n) : op \in Operation /\ op # "subnet"
        BY TemplateFacts DEF Operation, IInv
      <4>2. Main(n).part # "subnet"
        BY ResourceFacts
      <4> QED
        BY <4>1, <4>2, ResourceFacts DEF OpDeploy
    <3>2. Roles(n) \in Resource /\ Roles(n).part # "subnet"
      BY ResourceFacts
    <3> QED
      BY <3>1, <3>2 DEF Deployments, OpDeploys
  <2> QED
    BY <1>1, <1>6, <1>8, <2>1 DEF IsDeployment
<1>9. phase' \in Removing
  BY <1>2 DEF Removing
<1> QED
  BY <1>2, <1>5, <1>7, <1>8, <1>9, RemovingStep

\* What the expansion brought is appended to the list.
LEMMA FinishExpansionOrderStep ==
    ASSUME IInv, OrderInv, FinishExpansion
    PROVE  OrderInv'
<1>1. /\ resources' = resources \o expanded /\ expanded' = <<>>
      /\ phase = "remove" /\ phase' = "remove"
      /\ UNCHANGED <<tpl, hot, dependsOn, chain, lastDeploy>>
  BY DEF FinishExpansion, links, cursors, Running
<1>2. ToSet(resources') = ToSet(resources) \cup ToSet(expanded)
  BY <1>1, ConcatElements DEF IInv, TypeOK
<1>3. Listed \subseteq Listed'
  BY <1>2 DEF Listed
<1>4. \A r \in Resource : (Typed(r)' <=> Typed(r)) /\ (IsDeployment(r)' <=> IsDeployment(r))
  BY <1>1 DEF Typed, IsDeployment
<1>5. \A n \in Node : \A r \in Deployments(n) : IsDeployment(r) => IsDeployment(r)'
  BY <1>1 DEF IsDeployment
<1>6. phase' \in Removing
  BY <1>1 DEF Removing
<1> QED
  BY <1>1, <1>3, <1>4, <1>5, <1>6, RemovingStep

\* The passes in their order, and what has joined the list by then.
PassCollected ==
    /\ phase \notin Removing => stage = "properties"
    /\ phase = "done" => stage = "finished" /\ Typeless = {}
    /\ \/ phase \in {"nodes", "depend", "hosting", "done"}
       \/ phase = "remove" /\ stage # "expansion"
       => expanded = <<>>

PassOrderInv == OrderInv /\ SubnetsFree /\ PassCollected

\* The phases of NodeTranslation do not go back.
LEMMA NextRemoving ==
    ASSUME Next
    PROVE  /\ phase \in Removing => phase' \in Removing
           /\ phase' \in {"remove", "done"} => phase \in {"hosting", "remove"}
           /\ phase' = "done" => phase = "remove"
           /\ phase # "remove" /\ phase' = "remove" => FinishHosting
<1>1. CASE CopyNode \/ AttachVolume \/ SkipVolume \/ FinishNodes \/ NextNode
  BY <1>1 DEF CopyNode, AttachVolume, SkipVolume, FinishNodes, NextNode,
     AtRequirement, NextPosition, NextRequirement, EnterPhase, Removing
<1>2. CASE FollowLifeCycleHosting \/ HandleLifeCycle \/ SkipAttachment \/ FinishLifeCycle
  BY <1>2 DEF FollowLifeCycleHosting, FollowHosting, HandleLifeCycle, SkipAttachment,
     FinishLifeCycle, NextPosition, EnterPhase, Removing
<1>3. CASE FollowConnectHosting \/ HandleConnectsTo \/ SkipConnect \/ FinishConnect
  BY <1>3 DEF FollowConnectHosting, FollowHosting, HandleConnectsTo, SkipConnect,
     FinishConnect, AtRequirement, NextRequirement, EnterPhase, Removing
<1>4. CASE CopyDependency \/ SkipRelated \/ FinishDepend \/ HandleHosting
  BY <1>4 DEF CopyDependency, SkipRelated, FinishDepend, HandleHosting,
     AtRequirement, NextRequirement, NextPosition, EnterPhase, Removing
<1>5. CASE RaiseNoHost \/ FinishHosting \/ RemoveTypeless \/ FinishRemove
  BY <1>5 DEF RaiseNoHost, FinishHosting, RemoveTypeless, FinishRemove,
     EnterPhase, Removing, cursors
<1> QED
  BY <1>1, <1>2, <1>3, <1>4, <1>5 DEF Next

\* A step of NodeTranslation, before or after the two passes.
LEMMA OtherPassOrderStep ==
    ASSUME IInv, PassOrderInv, OtherPass
    PROVE  PassOrderInv'
<1>1. Next /\ UNCHANGED passVars /\ (phase = "remove" => stage = "finished")
  BY DEF OtherPass
<1>2. stage' = stage
  BY <1>1 DEF passVars, walk
<1>3. Collected
  BY <1>1 DEF PassOrderInv, PassCollected, Collected
<1>4. Collected' /\ OrderInv' /\ SubnetsFree'
  BY <1>1, <1>3, NextCollected, NextOrderInv, NextSubnetsFree DEF PassOrderInv, Collected
<1>5. PassCollected'
  BY <1>1, <1>2, <1>4, NextRemoving DEF PassOrderInv, PassCollected, Collected
<1> QED
  BY <1>4, <1>5 DEF PassOrderInv

\* The steps of the two passes keep the invariant of the order.
LEMMA PassKeepsOrderInv ==
    ASSUME PInv, PassOrderInv, [PassNext]_allVars
    PROVE  PassOrderInv'
<1> USE DEF PInv
<1>1. CASE OtherPass
  BY <1>1, OtherPassOrderStep
<1>2. CASE \/ WalkResource \/ WalkDependency \/ Bisect \/ InsertPort
           \/ HandleServer \/ HandleVolume \/ HandleOther \/ HandleNetwork
           \/ FinishProperties \/ RaiseHalfRange \/ SkipExpansion
  <2>1. /\ phase = "remove" /\ phase' \in {"remove", "failed"}
        /\ UNCHANGED <<tpl, resources, expanded, dependsOn, chain, lastDeploy>>
        /\ stage' = "expansion" \/ stage # "expansion" \/ phase' = "failed"
    <3>1. CASE WalkResource \/ FinishProperties \/ RaiseHalfRange \/ SkipExpansion
      BY <3>1 DEF WalkResource, FinishProperties, RaiseHalfRange, SkipExpansion,
         Expanding, Running, NextPosition, EnterPhase, links, passVars, walk
    <3>2. CASE WalkDependency \/ Bisect \/ InsertPort \/ HandleOther
      BY <3>2 DEF WalkDependency, Bisect, InsertPort, HandleOther, DependenciesWalked,
         InCall, Inserting, Running, vars, cursors, links
    <3>3. CASE HandleServer \/ HandleVolume \/ HandleNetwork
      BY <3>3 DEF HandleServer, HandleVolume, HandleNetwork, DependenciesWalked,
         InCall, Running, cursors, links
    <3> QED
      BY <1>2, <3>1, <3>2, <3>3
  <2>2. \A r \in Resource : hot'[r].type = hot[r].type
    <3>1. CASE HandleServer \/ HandleVolume \/ HandleNetwork
      <4>1. calls # <<>> /\ hot' = [hot EXCEPT ![Self] = Blank(hot[Self].type)]
        BY <3>1 DEF HandleServer, HandleVolume, HandleNetwork, Overwrite,
           DependenciesWalked, InCall
      <4>2. Self \in Resource
        BY <4>1, SelfFacts
      <4> QED
        BY <4>1, <4>2 DEF IInv, TypeOK, Blank
    <3>2. CASE UNCHANGED hot
      BY <3>2
    <3> QED
      BY <1>2, <3>1, <3>2 DEF WalkResource, WalkDependency, Bisect, InsertPort,
         HandleOther, FinishProperties, RaiseHalfRange, SkipExpansion, vars
  <2>3. phase' \in Removing
    BY <2>1 DEF Removing
  <2>4. OrderInv' /\ SubnetsFree'
    BY <2>1, <2>2, <2>3, PropertyOrderStep DEF PassOrderInv, SubnetsFree, Subnet
  <2>5. PassCollected'
    BY <2>1, <2>3 DEF PassOrderInv, PassCollected
  <2> QED
    BY <2>4, <2>5 DEF PassOrderInv
<1>3. CASE HandlePort
  <2>1. OrderInv'
    BY <1>3, HandlePortOrderStep DEF PassOrderInv
  <2>2. /\ calls # <<>> /\ phase = "remove" /\ phase' = "remove"
        /\ stage = "properties" /\ expanded' = expanded
        /\ dependsOn' = [dependsOn EXCEPT ![Self] = DropLinks(dependsOn[Self], Self.node)]
        /\ KindOfSelf = "port"
    BY <1>3 DEF HandlePort, DependenciesWalked, InCall, Running, cursors
  <2>3. \A n \in Node : Subnet(n) \in Resource /\ Subnet(n).part = "subnet"
    BY DEF Subnet, Resource
  <2>4. Self.part # "subnet"
    BY <2>2 DEF KindOfSelf
  <2>5. SubnetsFree'
    <3>1. \A n \in Node : dependsOn'[Subnet(n)] = dependsOn[Subnet(n)]
      BY <2>2, <2>3, <2>4 DEF IInv, TypeOK
    <3> QED
      BY <3>1 DEF PassOrderInv, SubnetsFree, Subnet
  <2>6. PassCollected'
    BY <2>2 DEF PassOrderInv, PassCollected, Removing
  <2> QED
    BY <2>1, <2>5, <2>6 DEF PassOrderInv
<1>4. CASE ExpandNetwork
  <2>1. OrderInv' /\ UNCHANGED dependsOn
    BY <1>4, ExpandNetworkOrderStep DEF PassOrderInv, ExpandNetwork, links
  <2>2. phase' = "remove" /\ stage' = "expansion"
    BY <1>4 DEF ExpandNetwork, Expanding, Running, NextPosition, passVars, walk
  <2> QED
    BY <2>1, <2>2 DEF PassOrderInv, SubnetsFree, PassCollected, Subnet, Removing
<1>5. CASE FinishExpansion
  <2>1. OrderInv' /\ UNCHANGED dependsOn
    BY <1>5, FinishExpansionOrderStep DEF PassOrderInv, FinishExpansion, links
  <2>2. phase' = "remove" /\ expanded' = <<>>
    BY <1>5 DEF FinishExpansion, Running, cursors
  <2> QED
    BY <2>1, <2>2 DEF PassOrderInv, SubnetsFree, PassCollected, Subnet, Removing
<1>6. CASE UNCHANGED allVars
  <2>1. UNCHANGED <<vars, stage>>
    BY <1>6 DEF allVars, passVars, walk
  <2>2. OrderInv' /\ SubnetsFree'
    <3>1. CASE phase = "remove" /\ stage = "expansion"
      BY <2>1, <3>1, PropertyOrderStep
         DEF PassOrderInv, SubnetsFree, Subnet, Removing, vars, cursors, links
    <3>2. CASE ~ (phase = "remove" /\ stage = "expansion")
      BY <2>1, <3>2, NextOrderInv, NextSubnetsFree DEF PassOrderInv, PassCollected
    <3> QED
      BY <3>1, <3>2
  <2>3. Typeless' = Typeless
    BY <2>1 DEF Typeless, vars
  <2>4. PassCollected'
    BY <2>1, <2>3 DEF PassOrderInv, PassCollected, vars, cursors
  <2> QED
    BY <2>2, <2>4 DEF PassOrderInv
<1> QED
  BY <1>1, <1>2, <1>3, <1>4, <1>5, <1>6 DEF PassNext

\* The list is empty at first.
LEMMA InitPassOrderInv == PassInit => PassOrderInv
<1> SUFFICES ASSUME PassInit PROVE PassOrderInv
  OBVIOUS
<1>1. OrderInv
  BY InitOrderInv DEF PassInit
<1>2. SubnetsFree
  BY DEF PassInit, Init, SubnetsFree, Subnet, Resource
<1>3. PassCollected
  BY DEF PassInit, Init, PassCollected
<1> QED
  BY <1>1, <1>2, <1>3 DEF PassOrderInv

\* The invariant of the order, through all passes.
LEMMA PassOrderInvariance == PassSpec => []PassOrderInv
  BY PassKeepsOrderInv, InitPassOrderInv, PassInvariance, PTL DEF PassSpec

\* Whatever the template, the resources and servers that a resource of the
\* output waits for are in the output, subnets and ports included.
THEOREM PassReferencesResolve == PassSpec => []NoDanglingReference
<1>1. PInv /\ PassOrderInv => NoDanglingReference
  <2> SUFFICES ASSUME PInv, PassOrderInv, phase = "done"
               PROVE  \A r \in ToSet(resources) : WaitsFor(r) \subseteq ToSet(resources)
    BY DEF NoDanglingReference
  <2> QED
    BY NothingDangles DEF PInv, PassOrderInv, PassCollected
<1> QED
  BY <1>1, PassInvariance, PassOrderInvariance, PTL

\* Whatever the template, no handler of properties takes away that the first
\* deployment of a node waits for its roles.
THEOREM PassRolesComeFirst == PassSpec => []RolesBeforeFirstDeploy
<1>1. PassOrderInv => RolesBeforeFirstDeploy
  BY RolesFirst DEF PassOrderInv
<1> QED
  BY <1>1, PassOrderInvariance, PTL

-----------------------------------------------------------------------------
(* A port is handled after the server and the network that it connects.    *)

IsEnd(n) == tpl.kind[n] \in {"compute", "network"}

\* No deployment follows the server, or the network, itself.
EndsAlone == \A s \in Node : IsEnd(s) => chain[Main(s)] = Main(s)

\* A node that requires one has its resource in depends_on_nodes.
EndsCopied ==
    \A n \in Node : \A q \in DOMAIN tpl.reqs[n] :
        DependDone(n, q) /\ IsEnd(Target(n, q)) =>
            Main(Target(n, q)) \in ToSet(dependsOnNodes[Main(n)])

EndsFirst == EndsAlone /\ EndsCopied

\* Longer lists of dependencies keep the ends that were copied.
LEMMA KeptEndsCopied ==
    ASSUME EndsCopied, UNCHANGED tpl,
           \A n \in Node : \A q \in DOMAIN tpl.reqs[n] :
                DependDone(n, q)' =>
                    /\ \E p \in SameTarget(n, q) : DependDone(n, p)
                    /\ ToSet(dependsOnNodes[Main(n)]) \subseteq ToSet(dependsOnNodes'[Main(n)])
    PROVE  EndsCopied'
<1> SUFFICES ASSUME NEW n \in Node, NEW q \in DOMAIN tpl.reqs[n],
                    DependDone(n, q)', IsEnd(Target(n, q))
             PROVE  Main(Target(n, q)) \in ToSet(dependsOnNodes'[Main(n)])
  BY DEF EndsCopied, IsEnd, Target
<1>1. PICK p \in SameTarget(n, q) : DependDone(n, p)
  OBVIOUS
<1>2. p \in DOMAIN tpl.reqs[n] /\ Target(n, p) = Target(n, q) /\ IsEnd(Target(n, p))
  BY DEF SameTarget, IsEnd
<1> QED
  BY <1>1, <1>2 DEF EndsCopied

\* What a requirement copies has its end first.
LEMMA CopyEndsFirst ==
    ASSUME IInv, OrderInv, EndsFirst, CopyDependency
    PROVE  EndsFirst'
<1> DEFINE n == AtNode
           t == Target(n, req)
           main == Main(n)
           copied == CopiedDependsOnNodes(n, req)
<1>1. /\ phase = "depend" /\ phase' = "depend" /\ pos' = pos /\ req' = req + 1
      /\ tpl \in Templates /\ n \in Node /\ req \in DOMAIN tpl.reqs[n]
      /\ req \in Nat \ {0} /\ pos \in DOMAIN tpl.listing
      /\ UNCHANGED <<tpl, chain>>
      /\ dependsOnNodes' = [dependsOnNodes EXCEPT ![main] = copied]
  <2>1. n \in Node /\ req \in 1..Len(tpl.reqs[n])
    BY AtFacts DEF CopyDependency, AtRequirement
  <2>2. tpl \in Templates /\ tpl.listing \in Seq(Node) /\ pos \in Nat \ {0}
    BY TemplateFacts DEF IInv, TypeOK, Template
  <2> QED
    BY <2>1, <2>2, TemplateFacts DEF CopyDependency, AtRequirement, NextRequirement
<1>2. main \in Resource /\ t \in Node /\ dependsOnNodes[main] \in Seq(Resource)
  BY <1>1, ResourceFacts, TemplateFacts DEF IInv, TypeOK
<1>3. TopOfChain(Main(t)) \in Resource
  BY <1>1, <1>2, TopFacts
<1>4. /\ ToSet(dependsOnNodes[main]) \subseteq ToSet(copied)
      /\ TopOfChain(Main(t)) \in ToSet(copied)
  <2> DEFINE nodes == Append(dependsOnNodes[main], TopOfChain(Main(t)))
  <2>1. /\ nodes \in Seq(Resource)
        /\ ToSet(nodes) = ToSet(dependsOnNodes[main]) \cup {TopOfChain(Main(t))}
    BY <1>2, <1>3, AppendElements
  <2>2. copied = IF AddsLast(n, req) THEN Append(nodes, lastDeploy[t]) ELSE nodes
    BY DEF CopiedDependsOnNodes
  <2>3. AddsLast(n, req) => lastDeploy[t] \in Resource
    BY <1>2 DEF AddsLast, IInv, TypeOK
  <2> HIDE DEF nodes, copied
  <2>4. AddsLast(n, req) => ToSet(copied) = ToSet(nodes) \cup {lastDeploy[t]}
    BY <2>1, <2>2, <2>3, AppendElements
  <2> QED
    BY <2>1, <2>2, <2>4
<1>5. EndsAlone'
  BY <1>1 DEF EndsFirst, EndsAlone, IsEnd
<1>6. IsEnd(t) => Main(t) \in ToSet(copied)
  BY <1>2, <1>4 DEF EndsFirst, EndsAlone, TopOfChain
<1>7. \A m \in Node : dependsOnNodes'[Main(m)] =
                            IF m = n THEN copied ELSE dependsOnNodes[Main(m)]
  <2>1. \A m \in Node : Main(m) \in Resource /\ (Main(m) = main => m = n)
    BY ResourceFacts DEF Main
  <2> QED
    BY <1>1, <2>1 DEF IInv, TypeOK
<1>8. EndsCopied'
  <2> SUFFICES ASSUME NEW m \in Node, NEW q \in DOMAIN tpl.reqs[m],
                      DependDone(m, q)', IsEnd(Target(m, q))
               PROVE  Main(Target(m, q)) \in ToSet(dependsOnNodes'[Main(m)])
    BY <1>1 DEF EndsCopied, IsEnd, Target
  <2>1. CASE m = n /\ q = req
    BY <1>6, <1>7, <2>1
  <2>2. CASE DependDone(m, q)
    BY <1>4, <1>7, <2>2 DEF EndsFirst, EndsCopied
  <2>3. (m = n /\ q = req) \/ DependDone(m, q)
    <3>1. q \in Nat
      <4>1. tpl.reqs[m] \in Seq(Requirement)
        BY <1>1, TemplateFacts
      <4> QED
        BY <4>1
    <3>2. PICK i \in DOMAIN tpl.listing :
            tpl.listing[i] = m /\ (i < pos \/ (i = pos /\ q < req + 1))
      BY <1>1 DEF DependDone, Removing
    <3>3. CASE i = pos /\ q = req
      BY <3>2, <3>3 DEF AtNode
    <3>4. CASE i < pos \/ (i = pos /\ q < req)
      BY <1>1, <3>2, <3>4 DEF DependDone
    <3> QED
      BY <1>1, <3>1, <3>2, <3>3, <3>4
  <2> QED
    BY <2>1, <2>2, <2>3
<1> QED
  BY <1>5, <1>8 DEF EndsFirst

\* The steps of NodeTranslation keep the end of a requirement first.
LEMMA NextEndsFirst ==
    ASSUME IInv, OrderInv, EndsFirst, [Next]_vars
    PROVE  EndsFirst'
<1>1. UNCHANGED tpl
  BY NextTemplate DEF vars
<1>2. \A n \in Node : Main(n) \in Resource
  BY ResourceFacts
<1>3. \A n \in Node : \A q \in DOMAIN tpl.reqs[n] : q \in SameTarget(n, q)
  BY DEF SameTarget
<1>4. CASE HandleLifeCycle
  <2>1. EndsCopied'
    BY <1>1, <1>4, KeptEndsCopied
       DEF HandleLifeCycle, NextPosition, DependDone, Removing, EndsFirst
  <2>2. AtResource.node \in Node
    BY <1>4, AtFacts, ResourceNode DEF HandleLifeCycle
  <2>3. ASSUME NEW s \in Node, IsEnd(s)
        PROVE  chain'[Main(s)] = Main(s)
    <3>1. ASSUME NEW op \in Declared(AtResource.node),
                 Main(s) = OpDeploy(AtResource.node, op)
          PROVE  FALSE
      <4>1. op # "main"
        BY <2>2, TemplateFacts DEF Operation, IInv
      <4>2. s = AtResource.node
        BY <3>1, ResourceFacts, TemplateFacts DEF OpDeploy, Main
      <4>3. WellFormed(tpl)
        BY TemplatesAssumption DEF IInv
      <4>4. tpl.kind[s] = "network" => Declared(s) = {}
        BY <2>3, <4>3 DEF WellFormed, Declared, ToSet
      <4>5. tpl.kind[s] = "compute"
        BY <2>3, <3>1, <4>2, <4>4 DEF IsEnd
      <4> QED
        BY <3>1, <4>1, <4>2, <4>5 DEF OpDeploy, Main
    <3>2. chain'[Main(s)] = chain[Main(s)]
      BY <1>2, <1>4, <3>1 DEF HandleLifeCycle
    <3> QED
      BY <2>3, <3>2 DEF EndsFirst, EndsAlone
  <2> QED
    BY <1>1, <2>1, <2>3 DEF EndsFirst, EndsAlone, IsEnd, Main
<1>5. CASE \/ CopyNode \/ AttachVolume \/ HandleConnectsTo \/ FinishLifeCycle
           \/ FinishConnect
  <2>1. UNCHANGED chain /\ phase' \in {"nodes", "connect", "depend"}
    BY <1>5 DEF CopyNode, AttachVolume, HandleConnectsTo, FinishLifeCycle, FinishConnect,
       AtRequirement, NextRequirement, EnterPhase, links
  <2>2. phase' = "depend" => pos' = 1 /\ req' = 1
    BY <1>5 DEF CopyNode, AttachVolume, HandleConnectsTo, FinishLifeCycle, FinishConnect,
       AtRequirement, NextRequirement, EnterPhase
  <2>3. \A n \in Node : \A q \in DOMAIN tpl.reqs[n] : ~ DependDone(n, q)'
    <3>1. tpl.listing \in Seq(Node) /\ \A n \in Node : tpl.reqs[n] \in Seq(Requirement)
      BY TemplateFacts DEF IInv, Template
    <3> QED
      BY <1>1, <2>1, <2>2, <3>1 DEF DependDone, Removing
  <2>4. EndsCopied'
    BY <1>1, <2>3, KeptEndsCopied DEF EndsFirst
  <2> QED
    BY <1>1, <2>1, <2>4 DEF EndsFirst, EndsAlone, IsEnd, Main
<1>6. CASE \/ SkipVolume \/ NextNode \/ FinishNodes \/ SkipAttachment
           \/ SkipConnect \/ SkipRelated \/ FinishDepend \/ RaiseNoHost
           \/ FinishHosting \/ FinishRemove
           \/ FollowLifeCycleHosting \/ FollowConnectHosting
  <2>1. UNCHANGED <<chain, dependsOnNodes>>
    BY <1>6 DEF SkipVolume, NextNode, FinishNodes, SkipAttachment, SkipConnect,
       SkipRelated, FinishDepend, RaiseNoHost, FinishHosting, FinishRemove,
       FollowLifeCycleHosting, FollowConnectHosting, FollowHosting, links
  <2>2. Progress
    BY <1>6, CursorProgress
  <2>3. EndsCopied'
    BY <1>1, <2>1, <2>2, KeptEndsCopied DEF EndsFirst, Progress
  <2> QED
    BY <1>1, <2>1, <2>3 DEF EndsFirst, EndsAlone, IsEnd, Main
<1>7. CASE CopyDependency
  BY <1>7, CopyEndsFirst
<1>8. CASE HandleHosting \/ RemoveTypeless
  <2>1. UNCHANGED chain /\ phase \in {"hosting", "remove"}
    BY <1>8 DEF HandleHosting, RemoveTypeless, links
  <2>2. \A n \in Node : dependsOnNodes'[Main(n)] = dependsOnNodes[Main(n)]
    BY <1>2, <1>8, ResourceFacts DEF HandleHosting, RemoveTypeless, links
  <2>3. \A n, q : DependDone(n, q)
    BY <2>1 DEF DependDone, Removing
  <2>4. EndsCopied'
    BY <1>1, <1>3, <2>2, <2>3, KeptEndsCopied DEF EndsFirst
  <2> QED
    BY <1>1, <2>1, <2>4 DEF EndsFirst, EndsAlone, IsEnd, Main
<1>9. CASE UNCHANGED vars
  <2>1. UNCHANGED <<tpl, phase, pos, req, chain, dependsOnNodes>>
    BY <1>9 DEF vars, cursors, links
  <2>2. EndsCopied'
    BY <1>3, <2>1, KeptEndsCopied DEF EndsFirst, DependDone
  <2> QED
    BY <2>1, <2>2 DEF EndsFirst, EndsAlone, IsEnd, Main
<1> QED
  BY <1>4, <1>5, <1>6, <1>7, <1>8, <1>9 DEF Next

\* Nothing was copied at first.
LEMMA InitEndsFirst == Init => EndsFirst
<1> SUFFICES ASSUME Init PROVE EndsFirst
  OBVIOUS
<1>1. \A n \in Node : Main(n) \in Resource
  BY ResourceFacts
<1>2. \A n, q : ~ DependDone(n, q)
  BY DEF Init, DependDone, Removing
<1> QED
  BY <1>1, <1>2 DEF Init, EndsFirst, EndsAlone, EndsCopied

\* Pass steps keep chain and depends_on_nodes.
LEMMA PassEndsFirstStep ==
    ASSUME PInv, OrderInv, EndsFirst, [PassNext]_allVars
    PROVE  EndsFirst'
<1>1. CASE OtherPass \/ UNCHANGED allVars
  BY <1>1, NextEndsFirst DEF PInv, OtherPass, allVars
<1>2. CASE ~ (OtherPass \/ UNCHANGED allVars)
  <2>1. /\ phase = "remove" /\ UNCHANGED <<tpl, chain, dependsOnNodes>>
    <3>1. CASE \/ WalkResource \/ FinishProperties \/ RaiseHalfRange \/ SkipExpansion
               \/ ExpandNetwork \/ FinishExpansion
      BY <3>1 DEF WalkResource, FinishProperties, RaiseHalfRange, SkipExpansion,
         ExpandNetwork, FinishExpansion, Expanding, Running, links
    <3>2. CASE WalkDependency \/ Bisect \/ InsertPort \/ HandleOther
      BY <3>2 DEF WalkDependency, Bisect, InsertPort, HandleOther, DependenciesWalked,
         InCall, Inserting, Running, vars, links
    <3>3. CASE HandleServer \/ HandleVolume \/ HandleNetwork \/ HandlePort
      BY <3>3 DEF HandleServer, HandleVolume, HandleNetwork, HandlePort,
         DependenciesWalked, InCall, Running, links
    <3> QED
      BY <1>2, <3>1, <3>2, <3>3 DEF PassNext
  <2>2. \A n, q : DependDone(n, q)
    BY <2>1 DEF DependDone, Removing
  <2>3. \A n \in Node : \A q \in DOMAIN tpl.reqs[n] : q \in SameTarget(n, q)
    BY DEF SameTarget
  <2>4. EndsCopied'
    BY <2>1, <2>2, <2>3, KeptEndsCopied DEF EndsFirst
  <2> QED
    BY <2>1, <2>4 DEF EndsFirst, EndsAlone, IsEnd, Main
<1> QED
  BY <1>1, <1>2

\* The walk handles no resource twice.
HandledOnce ==
    /\ handled \subseteq processed
    /\ \A i \in 1..Len(calls) : calls[i].resource \in processed \ handled

\* The loop over the list passes every main resource.
WalkedSoFar ==
    phase = "remove" /\ stage \in {"properties", "insertion"} =>
        /\ \A n \in Node : Main(n) \in ToSet(resources)
        /\ \A i \in DOMAIN resources : i < pos => resources[i] \in processed

AllHandled ==
    stage \in {"expansion", "finished"} => \A n \in Node : Main(n) \in handled

PortAtInsertion == stage = "insertion" => Self = Main(Port)

\* A port is handled after its server, which starts without ports.
ServersHandled ==
    \A p \in Node : BindsTo(p) # NoNode /\ Main(p) \in handled =>
        Main(BindsTo(p)) \in handled

\* A server has the ports that were handled so far.
HandledPorts(s) == {p \in Node : BindsTo(p) = s /\ Main(p) \in handled}

PortsKept ==
    \A s \in Node :
        /\ tpl.kind[s] = "compute" => networks[s] = portsOf[s]
        /\ IsInjective(portsOf[s]) /\ ToSet(portsOf[s]) = HandledPorts(s)

PortInv ==
    /\ HandledOnce /\ WalkedSoFar /\ AllHandled /\ PortAtInsertion
    /\ ServersHandled /\ PortsKept

\* A port that binds to a server is handled after the server.
LEMMA ServerBeforePort ==
    ASSUME PInv, EndsFirst, [PassNext]_allVars, phase = "remove",
           NEW p \in Node, BindsTo(p) # NoNode, Main(p) \in handled' \ handled
    PROVE  Main(BindsTo(p)) \in handled
<1>1. tpl \in Templates
  BY DEF PInv, IInv
<1>2. PICK q \in DOMAIN tpl.reqs[p] : Target(p, q) = BindsTo(p)
  BY <1>1, FirstTargetKind
<1>3. IsEnd(Target(p, q))
  BY <1>1, <1>2, FirstTargetKind DEF IsEnd
<1>4. DependDone(p, q)
  BY DEF DependDone, Removing
<1>5. Main(BindsTo(p)) \in ToSet(dependsOnNodes[Main(p)])
  BY <1>2, <1>3, <1>4 DEF EndsFirst, EndsCopied
<1> QED
  BY <1>5, HandledAfterDependencies

\* A call that returns adds its resource to the handled ones, which it was not.
LEMMA ReturnHandledOnce ==
    ASSUME PInv, HandledOnce, calls # <<>>, Return
    PROVE  HandledOnce' /\ Self \notin handled /\ Self \in Resource
           /\ handled' = handled \cup {Self} /\ processed' = processed
<1>1. /\ Len(calls') = Len(calls) - 1 /\ Len(calls) \in Nat \ {0}
      /\ \A i \in 1..(Len(calls) - 1) : calls'[i] = calls[i]
      /\ handled' = handled \cup {Self} /\ processed' = processed
      /\ Self = calls[Len(calls)].resource /\ Self \in Resource
  BY ReturnFacts DEF PInv
<1>2. Self \in processed \ handled
  BY <1>1 DEF HandledOnce
<1>3. ASSUME NEW i \in 1..(Len(calls) - 1)
      PROVE  calls[i].resource \in processed \ (handled \cup {Self})
  <2>1. i \in 1..Len(calls) /\ Len(calls) \in 1..Len(calls) /\ i < Len(calls)
    BY <1>1
  <2>2. Rank(Self) < Rank(calls[i].resource)
    BY <1>1, <2>1 DEF PInv, WalkInv, CallsDescend
  <2>3. Rank(Self) \in Int
    BY <1>1, RankBounds DEF Node
  <2>4. calls[i].resource # Self
    BY <2>2, <2>3
  <2> QED
    BY <2>1, <2>4 DEF HandledOnce
<1> QED
  BY <1>1, <1>2, <1>3 DEF HandledOnce

\* A handler that writes to no list of ports returns: of a resource that is no
\* port of a server.
LEMMA ReturnPortInv ==
    ASSUME PInv, PortInv, EndsFirst, [PassNext]_allVars,
           calls # <<>>, Return, phase = "remove", stage = "properties",
           UNCHANGED <<tpl, phase, pos, resources, stage, portsOf>>,
           KindOfSelf = "port" => BindsTo(Self.node) = NoNode,
           \A s \in Node : networks'[s] = networks[s] \/ (Self = Main(s) /\ networks'[s] = <<>>)
    PROVE  PortInv'
<1>1. /\ HandledOnce' /\ Self \notin handled /\ Self \in Resource
      /\ handled' = handled \cup {Self} /\ processed' = processed
  BY ReturnHandledOnce DEF PortInv
<1>2. WalkedSoFar' /\ AllHandled' /\ PortAtInsertion'
  BY <1>1 DEF PortInv, WalkedSoFar, AllHandled, PortAtInsertion
<1>3. tpl \in Templates
  BY DEF PInv, IInv
<1>4. ASSUME NEW p \in Node, BindsTo(p) # NoNode PROVE Main(p) # Self
  <2>1. tpl.kind[p] = "port"
    BY <1>3, <1>4, FirstTargetKind
  <2>2. Main(p).part = "main" /\ Main(p).node = p
    BY DEF Main
  <2> QED
    BY <1>4, <2>1, <2>2 DEF KindOfSelf
<1>5. \A p : BindsTo(p)' = BindsTo(p)
  BY DEF BindsTo, FirstTarget, Target
<1>6. ServersHandled'
  BY <1>1, <1>4, <1>5 DEF PortInv, ServersHandled, Main
<1>7. \A s \in Node : HandledPorts(s)' = HandledPorts(s)
  <2>1. \A s \in Node : s # NoNode
    BY DEF Node, NoNode
  <2> QED
    BY <1>1, <1>4, <1>5, <2>1 DEF HandledPorts, Main
<1>8. ASSUME NEW s \in Node, Self = Main(s) PROVE portsOf[s] = <<>>
  <2>1. HandledPorts(s) = {}
    <3>1. s # NoNode
      BY DEF Node, NoNode
    <3> QED
      BY <1>1, <1>8, <3>1 DEF PortInv, ServersHandled, HandledPorts
  <2>2. portsOf[s] \in Seq(Node) /\ ToSet(portsOf[s]) = {}
    BY <2>1 DEF PortInv, PortsKept, PInv, PassTypeOK
  <2>3. 1 \notin DOMAIN portsOf[s]
    BY <2>2 DEF ToSet
  <2> QED
    BY <2>2, <2>3, EmptySeq
<1>9. PortsKept'
  BY <1>7, <1>8 DEF PortInv, PortsKept
<1> QED
  BY <1>1, <1>2, <1>6, <1>9 DEF PortInv

\* A step that neither writes ports nor handles a resource.
LEMMA QuietPortStep ==
    ASSUME PortInv, UNCHANGED <<tpl, handled, portsOf, networks>>,
           HandledOnce', WalkedSoFar', AllHandled', PortAtInsertion'
    PROVE  PortInv'
<1>1. \A p : BindsTo(p)' = BindsTo(p)
  BY DEF BindsTo, FirstTarget, Target
<1>2. \A s \in Node : HandledPorts(s)' = HandledPorts(s)
  BY <1>1 DEF HandledPorts, Main
<1>3. ServersHandled' /\ PortsKept'
  BY <1>1, <1>2 DEF PortInv, ServersHandled, PortsKept, Main
<1> QED
  BY <1>3 DEF PortInv

\* The steps of the walk that handle nothing.
LEMMA WalkPortStep ==
    ASSUME PInv, PortInv, WalkResource \/ WalkDependency \/ Bisect \/ FinishProperties
    PROVE  PortInv'
<1>1. CASE WalkResource
  <2>1. /\ phase = "remove" /\ phase' = "remove" /\ stage = "properties"
        /\ calls = <<>> /\ pos <= Len(resources) /\ pos' = pos + 1
        /\ calls' = IF AtResource \in processed THEN <<>> ELSE <<Begin(AtResource)>>
        /\ processed' = processed \cup {AtResource}
        /\ UNCHANGED <<tpl, resources, stage, handled, portsOf, networks>>
    BY <1>1 DEF WalkResource, Running, NextPosition, network
  <2>2. HandledOnce'
    <3>1. CASE AtResource \in processed
      BY <2>1, <3>1 DEF PortInv, HandledOnce
    <3>2. CASE AtResource \notin processed
      <4>1. Len(calls') = 1 /\ calls'[1].resource = AtResource
        BY <2>1, <3>2 DEF Begin
      <4>2. AtResource \notin handled
        BY <3>2 DEF PortInv, HandledOnce
      <4>3. \A i \in 1..Len(calls') : i = 1
        BY <4>1
      <4> QED
        BY <2>1, <4>1, <4>2, <4>3 DEF PortInv, HandledOnce
    <3> QED
      BY <3>1, <3>2
  <2>3. WalkedSoFar'
    <3>1. \A i \in DOMAIN resources : i < pos + 1 => i < pos \/ i = pos
      <4>1. pos \in Nat /\ resources \in Seq(Resource)
        BY DEF PInv, IInv, TypeOK
      <4> QED
        BY <4>1
    <3> QED
      BY <2>1, <3>1 DEF PortInv, WalkedSoFar, AtResource, Main
  <2>4. AllHandled' /\ PortAtInsertion'
    BY <2>1 DEF AllHandled, PortAtInsertion
  <2> QED
    BY <2>1, <2>2, <2>3, <2>4, QuietPortStep
<1>2. CASE WalkDependency
  <2> DEFINE d == dependsOnNodes[Self][Top.next]
  <2>1. /\ Len(calls) \in Nat \ {0} /\ processed' = processed \cup {d}
        /\ \A i \in 1..Len(calls) : calls'[i].resource = calls[i].resource
        /\ \/ d \in processed /\ Len(calls') = Len(calls)
           \/ Len(calls') = Len(calls) + 1 /\ calls'[Len(calls')] = Begin(d)
        /\ UNCHANGED <<vars, stage, handled, network, search>>
    BY <1>2, WalkDependencyFacts DEF PInv
  <2>2. Len(calls') # Len(calls) => d \notin processed
    <3>1. d \in processed => Len(calls') = Len(calls)
      <4>1. d \in processed => calls' = [calls EXCEPT ![Len(calls)].next = @ + 1]
        BY <1>2 DEF WalkDependency, ToWalk
      <4>2. calls \in Seq(Call)
        BY DEF PInv, PassTypeOK
      <4> QED
        BY <4>1, <4>2
    <3> QED
      BY <3>1
  <2>3. stage = "properties" /\ phase = "remove"
    BY <1>2 DEF WalkDependency, InCall, Running
  <2> HIDE DEF d
  <2>4. HandledOnce'
    <3>1. ASSUME NEW i \in 1..Len(calls')
          PROVE  calls'[i].resource \in (processed \cup {d}) \ handled
      <4>1. CASE i \in 1..Len(calls)
        BY <2>1, <4>1 DEF PortInv, HandledOnce
      <4>2. CASE i \notin 1..Len(calls)
        <5>1. i = Len(calls') /\ Len(calls') # Len(calls)
          BY <2>1, <4>2
        <5>2. calls'[i] = Begin(d)
          BY <2>1, <5>1
        <5>3. calls'[i].resource = d
          BY <5>2 DEF Begin
        <5> QED
          BY <2>2, <5>1, <5>3 DEF PortInv, HandledOnce
      <4> QED
        BY <4>1, <4>2
    <3> QED
      BY <2>1, <3>1 DEF PortInv, HandledOnce
  <2>5. WalkedSoFar' /\ AllHandled' /\ PortAtInsertion'
    BY <2>1, <2>3
       DEF PortInv, WalkedSoFar, AllHandled, PortAtInsertion, vars, cursors, Main
  <2> QED
    BY <2>1, <2>4, <2>5, QuietPortStep DEF vars, network
<1>3. CASE Bisect
  <2>1. UNCHANGED <<tpl, phase, pos, resources, stage, processed, calls, handled, portsOf, networks>>
    BY <1>3 DEF Bisect, vars, cursors, walk, network
  <2>2. HandledOnce' /\ WalkedSoFar' /\ AllHandled'
    BY <2>1 DEF PortInv, HandledOnce, WalkedSoFar, AllHandled, Main
  <2>3. PortAtInsertion'
    BY <2>1 DEF PortInv, PortAtInsertion, Self, Port, Top, Main
  <2> QED
    BY <2>1, <2>2, <2>3, QuietPortStep
<1>4. CASE FinishProperties
  <2>1. /\ phase = "remove" /\ stage = "properties" /\ stage' = "expansion"
        /\ calls = <<>> /\ pos > Len(resources)
        /\ UNCHANGED <<tpl, phase, resources, processed, calls, handled, portsOf, networks>>
    BY <1>4 DEF FinishProperties, Running, network
  <2>2. AllHandled'
    <3> SUFFICES ASSUME NEW n \in Node PROVE Main(n) \in handled
      BY <2>1 DEF AllHandled, Main
    <3>1. PICK i \in DOMAIN resources : resources[i] = Main(n)
      BY <2>1 DEF PortInv, WalkedSoFar, ToSet
    <3>2. i < pos
      <4>1. pos \in Nat /\ resources \in Seq(Resource)
        BY DEF PInv, IInv, TypeOK
      <4> QED
        BY <2>1, <4>1
    <3>3. Main(n) \in processed
      BY <2>1, <3>1, <3>2 DEF PortInv, WalkedSoFar
    <3>4. \A k : k \notin 1..Len(calls)
      BY <2>1
    <3> QED
      BY <3>3, <3>4 DEF PInv, WalkInv, ProcessedRunning
  <2>3. HandledOnce' /\ WalkedSoFar' /\ PortAtInsertion'
    BY <2>1 DEF PortInv, HandledOnce, WalkedSoFar, PortAtInsertion
  <2> QED
    BY <2>1, <2>2, <2>3, QuietPortStep
<1> QED
  BY <1>1, <1>2, <1>3, <1>4

\* The steps after the walk, the expansion among them.
LEMMA LaterPortStep ==
    ASSUME PInv, OrderInv, PortInv,
           \/ OtherPass \/ ExpandNetwork \/ RaiseHalfRange \/ SkipExpansion
           \/ FinishExpansion \/ UNCHANGED allVars
    PROVE  PortInv'
<1>1. CASE \/ ExpandNetwork \/ RaiseHalfRange \/ SkipExpansion \/ FinishExpansion
  <2>1. /\ stage = "expansion" /\ stage' \in {"expansion", "finished"}
        /\ UNCHANGED <<tpl, processed, calls, handled, portsOf, networks>>
    BY <1>1 DEF ExpandNetwork, RaiseHalfRange, SkipExpansion, FinishExpansion,
       Expanding, Running, passVars, walk, network
  <2>2. HandledOnce' /\ WalkedSoFar' /\ AllHandled' /\ PortAtInsertion'
    BY <2>1 DEF PortInv, HandledOnce, WalkedSoFar, AllHandled, PortAtInsertion, Main
  <2> QED
    BY <2>1, <2>2, QuietPortStep
<1>2. CASE OtherPass
  <2>1. /\ Next /\ UNCHANGED tpl /\ (phase = "remove" => stage = "finished")
        /\ UNCHANGED <<stage, processed, calls, handled, portsOf, networks>>
    BY <1>2, NextTemplate DEF OtherPass, passVars, walk, network
  <2>2. HandledOnce' /\ AllHandled'
    BY <2>1 DEF PortInv, HandledOnce, AllHandled, Main
  <2>3. PortAtInsertion'
    BY <2>1 DEF PortInv, PortAtInsertion, Self, Port, Top, Main
  <2>4. WalkedSoFar'
    <3> SUFFICES ASSUME phase' = "remove", stage' \in {"properties", "insertion"}
                 PROVE  /\ \A n \in Node : Main(n) \in ToSet(resources')
                        /\ \A i \in DOMAIN resources' :
                                i < pos' => resources'[i] \in processed'
      BY DEF WalkedSoFar, Main
    <3>1. FinishHosting
      BY <2>1, NextRemoving
    <3>2. pos' = 1 /\ resources' = resources /\ phase = "hosting"
      BY <3>1 DEF FinishHosting, EnterPhase
    <3>3. \A n \in Node : Main(n) \in ToSet(resources)
      BY <3>2 DEF OrderInv, MainsListed, MainCopied
    <3>4. \A i \in DOMAIN resources : ~ (i < 1)
      BY DEF PInv, IInv, TypeOK
    <3> QED
      BY <3>2, <3>3, <3>4
  <2> QED
    BY <2>1, <2>2, <2>3, <2>4, QuietPortStep
<1>3. CASE UNCHANGED allVars
  <2>1. UNCHANGED <<tpl, phase, pos, resources, stage, processed, calls, handled, portsOf, networks>>
    BY <1>3 DEF allVars, vars, cursors, passVars, walk, network
  <2>2. HandledOnce' /\ WalkedSoFar' /\ AllHandled'
    BY <2>1 DEF PortInv, HandledOnce, WalkedSoFar, AllHandled, Main
  <2>3. PortAtInsertion'
    BY <2>1 DEF PortInv, PortAtInsertion, Self, Port, Top, Main
  <2> QED
    BY <2>1, <2>2, <2>3, QuietPortStep
<1> QED
  BY <1>1, <1>2, <1>3

\* The handlers of what is not a port.
LEMMA HandlerPortStep ==
    ASSUME PInv, PortInv, EndsFirst,
           HandleServer \/ HandleVolume \/ HandleOther \/ HandleNetwork
    PROVE  PortInv'
<1>1. /\ calls # <<>> /\ Return /\ phase = "remove" /\ stage = "properties"
      /\ UNCHANGED <<tpl, phase, pos, resources, stage, portsOf>>
      /\ KindOfSelf # "port"
      /\ \/ networks' = networks
         \/ networks' = [networks EXCEPT ![Self.node] = <<>>] /\ KindOfSelf = "compute"
  BY DEF HandleServer, HandleVolume, HandleOther, HandleNetwork, DependenciesWalked,
     InCall, Running, vars, cursors, network
<1>2. Self \in Resource
  BY <1>1, SelfFacts DEF PInv
<1>3. KindOfSelf = "compute" => Self = Main(Self.node)
  <2>1. Self.part # "compute"
    BY <1>2 DEF Resource, Operation
  <2> QED
    BY <1>2, <2>1 DEF KindOfSelf, Resource, Main, Operation
<1>4. \A s \in Node : networks'[s] = networks[s] \/ (Self = Main(s) /\ networks'[s] = <<>>)
  BY <1>1, <1>3 DEF PInv, PassTypeOK
<1>5. PassNext
  BY DEF PassNext
<1> QED
  BY <1>1, <1>4, <1>5, ReturnPortInv

\* A port with no server at its end, or the first of a server.
LEMMA HandlePortPortStep ==
    ASSUME PInv, PortInv, EndsFirst, HandlePort
    PROVE  PortInv'
<1>1. /\ calls # <<>> /\ phase = "remove" /\ stage = "properties" /\ KindOfSelf = "port"
      /\ UNCHANGED <<tpl, phase, pos, resources, portsOf, networks>>
      /\ IF BindsTo(Self.node) = NoNode
         THEN Return /\ UNCHANGED <<stage, search>>
         ELSE stage' = "insertion" /\ UNCHANGED <<processed, calls, handled>>
  BY DEF HandlePort, DependenciesWalked, InCall, Running, cursors
<1>2. Self \in Resource
  BY <1>1, SelfFacts DEF PInv
<1>3. Self = Main(Self.node)
  <2>1. Self.part # "port"
    BY <1>2 DEF Resource, Operation
  <2> QED
    BY <1>1, <1>2, <2>1 DEF KindOfSelf, Resource, Main, Operation
<1>4. CASE BindsTo(Self.node) = NoNode
  <2>1. PassNext
    BY DEF PassNext
  <2> QED
    BY <1>1, <1>4, <2>1, ReturnPortInv
<1>5. CASE BindsTo(Self.node) # NoNode
  <2>1. HandledOnce' /\ WalkedSoFar' /\ AllHandled'
    BY <1>1, <1>5 DEF PortInv, HandledOnce, WalkedSoFar, AllHandled, Main
  <2>2. PortAtInsertion'
    BY <1>1, <1>3, <1>5 DEF PortAtInsertion, Self, Port, Top, Main
  <2> QED
    BY <1>1, <1>5, <2>1, <2>2, QuietPortStep
<1> QED
  BY <1>4, <1>5

\* The insertion of a further port into the list of its server.
LEMMA InsertPortPortStep ==
    ASSUME PInv, PortInv, EndsFirst, InsertPort
    PROVE  PortInv'
<1>0. PICK s0, port, list :
        s0 = BindsTo(Port) /\ port = Port /\ list = InsertAt(Ports, lo + 1, Port)
  OBVIOUS
<1>1. /\ calls # <<>> /\ Return /\ phase = "remove" /\ stage = "insertion"
      /\ stage' = "properties" /\ s0 \in Node /\ port \in Node
      /\ lo + 1 \in 1..(Len(Ports) + 1) /\ Ports \in Seq(Node) /\ list \in Seq(Node)
      /\ portsOf' = [portsOf EXCEPT ![s0] = list]
      /\ networks' = [networks EXCEPT ![s0] = list]
      /\ UNCHANGED <<tpl, phase, pos, resources>>
  BY <1>0, InsertPortFacts DEF PInv, InsertPort, Inserting, Running, vars, cursors
<1>2. /\ HandledOnce' /\ Self \notin handled /\ Self \in Resource
      /\ handled' = handled \cup {Self} /\ processed' = processed
  BY <1>1, ReturnHandledOnce DEF PortInv
<1>3. Self = Main(port)
  BY <1>0, <1>1 DEF PortInv, PortAtInsertion
<1>4. WalkedSoFar' /\ AllHandled' /\ PortAtInsertion'
  BY <1>1, <1>2 DEF PortInv, WalkedSoFar, AllHandled, PortAtInsertion, Main
<1>5. \A p : BindsTo(p)' = BindsTo(p)
  BY <1>1 DEF BindsTo, FirstTarget, Target
<1>6. ServersHandled'
  <2> SUFFICES ASSUME NEW p \in Node, BindsTo(p) # NoNode, Main(p) \in handled'
               PROVE  Main(BindsTo(p)) \in handled'
    BY <1>5 DEF ServersHandled, Main
  <2>1. PassNext
    BY DEF PassNext
  <2>2. Main(BindsTo(p)) \in handled
    <3>1. CASE Main(p) \in handled
      BY <3>1 DEF PortInv, ServersHandled
    <3>2. CASE Main(p) \notin handled
      BY <1>1, <2>1, <3>2, ServerBeforePort
    <3> QED
      BY <3>1, <3>2
  <2> QED
    BY <1>2, <2>2
<1>7. \A p : Main(p) = Main(port) => p = port
  BY DEF Main
<1>8. HandledPorts(s0)' = HandledPorts(s0) \cup {port}
  BY <1>0, <1>1, <1>2, <1>3, <1>5, <1>7 DEF HandledPorts, Main
<1>9. ASSUME NEW s \in Node, s # s0
      PROVE  HandledPorts(s)' = HandledPorts(s)
  BY <1>0, <1>1, <1>2, <1>3, <1>5, <1>7, <1>9 DEF HandledPorts, Main
<1>10. /\ IsInjective(Ports) /\ ToSet(Ports) = HandledPorts(s0)
  BY <1>0, <1>1 DEF PortInv, PortsKept, Ports
<1>11. port \notin ToSet(Ports)
  BY <1>2, <1>3, <1>10 DEF HandledPorts
<1>12. ToSet(list) = ToSet(Ports) \cup {port} /\ IsInjective(list)
  <2> DEFINE k == lo + 1
  <2>1. k \in 1..(Len(Ports) + 1)
    BY <1>1
  <2> HIDE DEF k
  <2>2. /\ ToSet(InsertAt(Ports, k, port)) = ToSet(Ports) \cup {port}
        /\ IsInjective(InsertAt(Ports, k, port))
    BY <1>1, <1>10, <1>11, <2>1, InsertAtElements
  <2> QED
    BY <1>0, <2>2 DEF k
<1>13. \A s \in Node : /\ portsOf'[s] = IF s = s0 THEN list ELSE portsOf[s]
                       /\ networks'[s] = IF s = s0 THEN list ELSE networks[s]
  BY <1>1 DEF PInv, PassTypeOK
<1>14. PortsKept'
  <2> SUFFICES ASSUME NEW s \in Node
               PROVE  /\ tpl.kind[s] = "compute" => networks'[s] = portsOf'[s]
                      /\ IsInjective(portsOf'[s]) /\ ToSet(portsOf'[s]) = HandledPorts(s)'
    BY <1>1 DEF PortsKept
  <2>1. CASE s = s0
    BY <1>8, <1>10, <1>12, <1>13, <2>1
  <2>2. CASE s # s0
    BY <1>9, <1>13, <2>2 DEF PortInv, PortsKept
  <2> QED
    BY <2>1, <2>2
<1> QED
  BY <1>2, <1>4, <1>6, <1>14 DEF PortInv

\* No port was handled at first.
LEMMA InitPortInv == PassInit => PortInv
<1> SUFFICES ASSUME PassInit PROVE PortInv
  OBVIOUS
<1>1. /\ phase = "nodes" /\ stage = "properties" /\ processed = {} /\ calls = <<>>
      /\ handled = {} /\ \A n \in Node : portsOf[n] = <<>> /\ networks[n] = <<>>
  BY DEF PassInit, Init
<1>2. HandledOnce /\ WalkedSoFar /\ AllHandled /\ PortAtInsertion /\ ServersHandled
  BY <1>1 DEF HandledOnce, WalkedSoFar, AllHandled, PortAtInsertion, ServersHandled
<1>3. PortsKept
  <2>1. \A s \in Node : HandledPorts(s) = {}
    BY <1>1 DEF HandledPorts
  <2> QED
    BY <1>1, <2>1 DEF PortsKept, IsInjective, ToSet
<1> QED
  BY <1>2, <1>3 DEF PortInv

\* The invariant of the ports, and what it rests on.
LEMMA PortInvariance == PassSpec => [](EndsFirst /\ PortInv)
<1>1. PassInit => EndsFirst /\ PortInv
  BY InitEndsFirst, InitPortInv DEF PassInit
<1>2. PInv /\ PassOrderInv /\ EndsFirst /\ PortInv /\ [PassNext]_allVars
        => EndsFirst' /\ PortInv'
  <2> SUFFICES ASSUME PInv, OrderInv, EndsFirst, PortInv, [PassNext]_allVars
               PROVE  EndsFirst' /\ PortInv'
    BY DEF PassOrderInv
  <2>1. PortInv'
    BY WalkPortStep, LaterPortStep, HandlerPortStep, HandlePortPortStep, InsertPortPortStep
       DEF PassNext
  <2> QED
    BY <2>1, PassEndsFirstStep
<1> QED
  BY <1>1, <1>2, PassInvariance, PassOrderInvariance, PTL DEF PassSpec

\* Whatever the template and the order in which the walk finds the resources,
\* the networks of a server name at the end exactly the ports that bind to it,
\* each once and in order: no handler drops what a port wrote.
THEOREM PortsAreKept == PassSpec => []ServersKeepPorts
<1>1. PassOrderInv /\ PortInv => ServersKeepPorts
  <2> SUFFICES ASSUME PassOrderInv, PortInv, phase = "done",
                      NEW s \in Node, tpl.kind[s] = "compute"
               PROVE  /\ networks[s] = portsOf[s] /\ IsInjective(networks[s])
                      /\ ToSet(networks[s]) = {p \in Node : BindsTo(p) = s}
    BY DEF ServersKeepPorts
  <2>1. \A n \in Node : Main(n) \in handled
    BY DEF PassOrderInv, PassCollected, PortInv, AllHandled
  <2>2. HandledPorts(s) = {p \in Node : BindsTo(p) = s}
    BY <2>1 DEF HandledPorts
  <2> QED
    BY <2>2 DEF PortInv, PortsKept
<1> QED
  BY <1>1, PassOrderInvariance, PortInvariance, PTL

-----------------------------------------------------------------------------
(* What depends_on may hold.                                               *)

\* Why d is in depends_on of r: for an operation of the same node, as the
\* resource of a node that a ConnectsTo configures, or for a requirement that
\* was copied.
Because(r, d) ==
    \/ d \in Deployments(r.node)
    \/ r.part = "connect" /\ \E m \in Node : d = Main(m) /\ Configured(tpl, m)
    \/ /\ r.part = "main"
       /\ \E q \in DOMAIN tpl.reqs[r.node] :
            /\ DependDone(r.node, q) /\ Target(r.node, q) = d.node
            /\ IsEnd(d.node) /\ Declared(d.node) = {} => d = Main(d.node)

DependenciesGiven == \A r \in Resource : \A d \in ToSet(dependsOn[r]) : Because(r, d)

LastDeployed ==
    \A n \in Node : lastDeploy[n] # NoResource =>
        lastDeploy[n] \in Deployments(n) /\ Declared(n) # {}

\* A port loses a server or a network with the one entry that is removed.
EndsOnce ==
    \A n, m \in Node : IsEnd(m) => Once(dependsOn[Main(n)], Main(m))

LinkInv == DependenciesGiven /\ LastDeployed /\ EndsOnce

\* The main resource of a server or a network is no deployment.
LEMMA EndIsNoDeployment ==
    ASSUME tpl \in Templates, NEW n \in Node, NEW m \in Node, IsEnd(m)
    PROVE  Main(m) \notin Deployments(n)
<1>1. WellFormed(tpl)
  BY TemplatesAssumption
<1>2. Main(m) # Roles(n)
  BY DEF Main, Roles
<1>3. ASSUME NEW op \in Declared(n), Main(m) = OpDeploy(n, op) PROVE FALSE
  <2>1. op # "main"
    BY TemplateFacts DEF Operation
  <2>2. m = n
    BY <1>3 DEF OpDeploy, Main
  <2>3. tpl.kind[m] = "network" => Declared(m) = {}
    BY <1>1 DEF WellFormed, Declared, ToSet
  <2>4. tpl.kind[n] = "compute"
    BY <1>3, <2>2, <2>3 DEF IsEnd
  <2> QED
    BY <1>3, <2>1, <2>4 DEF OpDeploy, Main
<1> QED
  BY <1>2, <1>3 DEF Deployments, OpDeploys

\* A requirement that was translated stays so.
LEMMA DependDoneStays ==
    ASSUME IInv, [Next]_vars, NEW n \in Node, NEW q \in DOMAIN tpl.reqs[n],
           DependDone(n, q)
    PROVE  DependDone(n, q)'
<1>1. UNCHANGED tpl
  BY NextTemplate DEF vars
<1>2. pos \in Nat \ {0} /\ req \in Nat /\ tpl.listing \in Seq(Node) /\ q \in Nat
  <2>1. tpl \in Templates /\ tpl \in Template /\ pos \in Nat \ {0} /\ req \in Nat
    BY DEF IInv, TypeOK
  <2>2. tpl.reqs[n] \in Seq(Requirement)
    BY <2>1, TemplateFacts
  <2>3. tpl.listing \in Seq(Node)
    BY <2>1 DEF Template
  <2>4. q \in Nat
    BY <2>2
  <2> QED
    BY <2>1, <2>3, <2>4
<1>3. CASE phase \in Removing
  <2>1. phase' \in Removing
    BY <1>3, NextRemoving DEF vars, cursors
  <2> QED
    BY <2>1 DEF DependDone
<1>4. CASE phase = "hosting"
  <2>1. phase' \in {"hosting", "remove", "failed"}
    <3>1. CASE Next
      BY <1>4, <3>1 DEF Next, CopyNode, AttachVolume, SkipVolume, FinishNodes, NextNode,
         AtRequirement, FollowLifeCycleHosting, HandleLifeCycle, SkipAttachment,
         FinishLifeCycle, FollowConnectHosting, HandleConnectsTo, SkipConnect,
         FinishConnect, CopyDependency, SkipRelated, FinishDepend, HandleHosting,
         NextPosition, RaiseNoHost, FinishHosting, RemoveTypeless, FinishRemove,
         EnterPhase
    <3> QED
      BY <1>4, <3>1 DEF vars, cursors
  <2> QED
    BY <2>1 DEF DependDone, Removing
<1>5. CASE phase = "depend"
  <2>1. PICK i \in DOMAIN tpl.listing :
            tpl.listing[i] = n /\ (i < pos \/ (i = pos /\ q < req))
    BY <1>5 DEF DependDone, Removing
  <2>2. \/ NextNode \/ CopyDependency \/ SkipRelated \/ FinishDepend \/ UNCHANGED vars
    BY <1>5 DEF Next, CopyNode, AttachVolume, SkipVolume, FinishNodes, AtRequirement,
       FollowLifeCycleHosting, HandleLifeCycle, SkipAttachment, FinishLifeCycle,
       FollowConnectHosting, HandleConnectsTo, SkipConnect, FinishConnect,
       HandleHosting, RaiseNoHost, FinishHosting, RemoveTypeless, FinishRemove
  <2>3. CASE CopyDependency \/ SkipRelated
    <3>1. phase' = "depend" /\ pos' = pos /\ req' = req + 1
      BY <1>5, <2>3 DEF CopyDependency, SkipRelated, NextRequirement
    <3> QED
      BY <1>1, <1>2, <2>1, <3>1 DEF DependDone
  <2>4. CASE NextNode
    <3>1. phase' = "depend" /\ pos' = pos + 1
      BY <1>5, <2>4 DEF NextNode, NextPosition
    <3> QED
      BY <1>1, <1>2, <2>1, <3>1 DEF DependDone
  <2>5. CASE FinishDepend
    BY <2>5 DEF FinishDepend, EnterPhase, DependDone
  <2>6. CASE UNCHANGED vars
    BY <1>1, <1>5, <2>1, <2>6 DEF vars, cursors, DependDone
  <2> QED
    BY <2>2, <2>3, <2>4, <2>5, <2>6
<1> QED
  BY <1>3, <1>4, <1>5 DEF DependDone

\* Dependencies only go.
LEMMA FewerDependencies ==
    ASSUME LinkInv, UNCHANGED <<tpl, lastDeploy>>,
           \A r \in Resource :
                /\ ToSet(dependsOn'[r]) \subseteq ToSet(dependsOn[r])
                /\ \A x \in Resource : Once(dependsOn[r], x) => Once(dependsOn'[r], x),
           \A n \in Node : \A q \in DOMAIN tpl.reqs[n] :
                DependDone(n, q) => DependDone(n, q)'
    PROVE  LinkInv'
<1>1. \A n : /\ IsEnd(n)' <=> IsEnd(n)
             /\ Declared(n)' = Declared(n) /\ Deployments(n)' = Deployments(n)
             /\ \A q : Target(n, q)' = Target(n, q)
             /\ Configured(tpl, n)' <=> Configured(tpl, n)
  BY SameTemplate DEF IsEnd, Configured
<1>2. ASSUME NEW r \in Resource, NEW d \in ToSet(dependsOn'[r])
      PROVE  Because(r, d)'
  <2>1. Because(r, d) /\ r.node \in Node
    BY <1>2, ResourceNode DEF LinkInv, DependenciesGiven
  <2>2. CASE d \in Deployments(r.node)
    BY <1>1, <2>2 DEF Because
  <2>3. CASE r.part = "connect" /\ \E m \in Node : d = Main(m) /\ Configured(tpl, m)
    BY <1>1, <2>3 DEF Because, Main
  <2>4. CASE /\ r.part = "main"
             /\ \E q \in DOMAIN tpl.reqs[r.node] :
                    /\ DependDone(r.node, q) /\ Target(r.node, q) = d.node
                    /\ IsEnd(d.node) /\ Declared(d.node) = {} => d = Main(d.node)
    <3>1. PICK q \in DOMAIN tpl.reqs[r.node] :
                    /\ DependDone(r.node, q) /\ Target(r.node, q) = d.node
                    /\ IsEnd(d.node) /\ Declared(d.node) = {} => d = Main(d.node)
      BY <2>4
    <3>2. DependDone(r.node, q)'
      BY <2>1, <3>1
    <3> QED
      BY <1>1, <2>4, <3>1, <3>2 DEF Because, Main
  <2> QED
    BY <2>1, <2>2, <2>3, <2>4 DEF Because
<1>3. DependenciesGiven' /\ LastDeployed'
  BY <1>1, <1>2 DEF LinkInv, DependenciesGiven, LastDeployed
<1>4. EndsOnce'
  <2>1. \A n \in Node : Main(n) \in Resource
    BY ResourceFacts
  <2> QED
    BY <1>1, <2>1 DEF LinkInv, EndsOnce, Main
<1> QED
  BY <1>3, <1>4 DEF LinkInv

\* The life cycle adds to depends_on the deployments of the same node alone.
LEMMA LifeCycleLinkStep ==
    ASSUME IInv, LinkInv, HandleLifeCycle
    PROVE  LinkInv'
<1> DEFINE n == AtResource.node
<1>1. /\ n \in Node /\ phase = "lifecycle" /\ phase' = "lifecycle" /\ UNCHANGED tpl
      /\ tpl \in Templates /\ dependsOn \in [Resource -> Seq(Resource)]
      /\ lastDeploy \in [Node -> Resource \cup {NoResource}]
  BY AtFacts, ResourceNode DEF HandleLifeCycle, NextPosition, IInv, TypeOK
<1>2. /\ dependsOn' = AppendLifeCycle(n, dependsOn)
      /\ lastDeploy' = IF Declared(n) = {} THEN lastDeploy
                       ELSE [lastDeploy EXCEPT ![n] = OpDeploy(n, LastOp(n))]
  BY DEF HandleLifeCycle
<1> HIDE DEF n
<1>3. \A r \in Resource :
        /\ ToSet(dependsOn'[r]) = ToSet(dependsOn[r]) \cup LifeCycleDependencies(n, r)
        /\ \A x : x \notin Deployments(n) /\ Once(dependsOn[r], x)
                    => Once(dependsOn'[r], x)
        /\ LifeCycleDependencies(n, r) \subseteq Deployments(n)
        /\ LifeCycleDependencies(n, r) # {} => r \in Deployments(n)
  BY <1>1, <1>2, AppendedFacts
<1>4. \A m \in Node : /\ \A r \in Deployments(m) : r.node = m
                      /\ \A op \in Declared(m) : OpDeploy(m, op) \in Deployments(m)
                      /\ Declared(m) # {} => LastOp(m) \in Declared(m)
  BY <1>1, DeploymentsFacts
<1>5. \A m : /\ IsEnd(m)' <=> IsEnd(m)
             /\ Declared(m)' = Declared(m) /\ Deployments(m)' = Deployments(m)
             /\ \A q : Target(m, q)' = Target(m, q)
             /\ Configured(tpl, m)' <=> Configured(tpl, m)
  BY <1>1, SameTemplate DEF IsEnd, Configured
<1>6. DependenciesGiven'
  <2> SUFFICES ASSUME NEW r \in Resource, NEW d \in ToSet(dependsOn'[r])
               PROVE  Because(r, d)'
    BY DEF DependenciesGiven
  <2>1. CASE d \in ToSet(dependsOn[r])
    <3>1. Because(r, d) /\ \A m, q : ~ DependDone(m, q)
      BY <1>1, <2>1 DEF LinkInv, DependenciesGiven, DependDone, Removing
    <3> QED
      BY <1>5, <3>1 DEF Because, Main
  <2>2. CASE d \in LifeCycleDependencies(n, r)
    <3>1. d \in Deployments(r.node)
      BY <1>1, <1>3, <1>4, <2>2
    <3> QED
      BY <1>5, <3>1 DEF Because
  <2> QED
    BY <1>3, <2>1, <2>2
<1>7. LastDeployed'
  BY <1>1, <1>2, <1>4, <1>5 DEF LinkInv, LastDeployed
<1>8. EndsOnce'
  <2> SUFFICES ASSUME NEW m \in Node, NEW e \in Node, IsEnd(e)
               PROVE  Once(dependsOn'[Main(m)], Main(e))
    BY <1>5 DEF EndsOnce, Main
  <2>1. Main(m) \in Resource /\ Main(e) \notin Deployments(n)
    BY <1>1, ResourceFacts, EndIsNoDeployment
  <2> QED
    BY <1>3, <2>1 DEF LinkInv, EndsOnce
<1> QED
  BY <1>6, <1>7, <1>8 DEF LinkInv

\* A ConnectsTo adds to the deployment it creates the resource of its node, and
\* the deployment to the resource that it configures.
LEMMA ConnectLinkStep ==
    ASSUME IInv, LinkInv, HandleConnectsTo
    PROVE  LinkInv'
<1>0. PICK r0, end, q0 : r0 = Connect(AtNode, req) /\ end = ConnectEnd /\ q0 = req
  OBVIOUS
<1>1. /\ AtNode \in Node /\ req \in DOMAIN tpl.reqs[AtNode] /\ ~ ConfiguresNothing
      /\ phase = "connect" /\ phase' = "connect" /\ UNCHANGED <<tpl, lastDeploy>>
      /\ tpl \in Templates /\ dependsOn \in [Resource -> Seq(Resource)]
      /\ dependsOn' = [dependsOn EXCEPT ![r0] = <<Main(end)>>]
  <2>1. /\ AtNode \in Node /\ req \in 1..Len(tpl.reqs[AtNode])
        /\ tpl \in Templates /\ dependsOn \in [Resource -> Seq(Resource)]
    BY AtFacts DEF HandleConnectsTo, AtRequirement, IInv, TypeOK
  <2>2. tpl.reqs[AtNode] \in Seq(Requirement)
    BY <2>1, TemplateFacts
  <2> QED
    BY <1>0, <2>1, <2>2 DEF HandleConnectsTo, AtRequirement, NextRequirement
<1>2. /\ r0 \in Resource /\ r0.part = "connect" /\ r0.node = AtNode
      /\ end \in Node
  BY <1>0, <1>1, TemplateFacts, ResourceFacts DEF ConnectEnd
<1>3. Configured(tpl, end)
  <2>1. tpl.reqs[AtNode][req].configures \in {"source", "target"}
    <3>1. tpl.reqs[AtNode] \in Seq(Requirement)
      BY <1>1, TemplateFacts
    <3>2. tpl.reqs[AtNode][req] \in Requirement
      BY <1>1, <3>1
    <3> QED
      BY <1>1, <3>2 DEF Requirement, ConfiguresNothing
  <2>2. CASE tpl.reqs[AtNode][req].configures = "target"
    <3>1. end = Target(AtNode, req)
      BY <1>0, <2>2 DEF ConnectEnd
    <3> QED
      BY <1>1, <2>2, <3>1 DEF Configured, Target
  <2>3. CASE tpl.reqs[AtNode][req].configures = "source"
    <3>1. end = AtNode
      BY <1>0, <2>3 DEF ConnectEnd
    <3> QED
      BY <1>1, <2>3, <3>1 DEF Configured
  <2> QED
    BY <2>1, <2>2, <2>3
<1>5. \A m : /\ IsEnd(m)' <=> IsEnd(m)
             /\ Declared(m)' = Declared(m) /\ Deployments(m)' = Deployments(m)
             /\ \A q : Target(m, q)' = Target(m, q)
             /\ Configured(tpl, m)' <=> Configured(tpl, m)
  BY <1>1, SameTemplate DEF IsEnd, Configured
<1>6. DependenciesGiven'
  <2> SUFFICES ASSUME NEW r \in Resource, NEW d \in ToSet(dependsOn'[r])
               PROVE  Because(r, d)'
    BY DEF DependenciesGiven
  <2>1. CASE d \in ToSet(dependsOn[r])
    <3>1. Because(r, d) /\ \A m, q : ~ DependDone(m, q)
      BY <1>1, <2>1 DEF LinkInv, DependenciesGiven, DependDone, Removing
    <3> QED
      BY <1>5, <3>1 DEF Because, Main
  <2>2. CASE r = r0
    <3>1. d = Main(end)
      BY <1>1, <1>2, <2>2 DEF ToSet
    <3> QED
      BY <1>2, <1>3, <1>5, <2>2, <3>1 DEF Because, Main
  <2> QED
    BY <1>1, <2>1, <2>2
<1>7. LastDeployed'
  BY <1>1, <1>5 DEF LinkInv, LastDeployed
<1>8. EndsOnce'
  <2>1. \A m \in Node : Main(m) \in Resource /\ Main(m) # r0
    BY <1>2, ResourceFacts
  <2> QED
    BY <1>1, <1>5, <2>1 DEF LinkInv, EndsOnce, Main
<1> QED
  BY <1>6, <1>7, <1>8 DEF LinkInv

\* What a dependency copies, it copies for the requirement at hand.
LEMMA CopyLinkStep ==
    ASSUME IInv, OrderInv, EndsFirst, LinkInv, CopyDependency
    PROVE  LinkInv'
<1>0. PICK n, t, main, top, last, copied, done :
        /\ n = AtNode /\ t = Target(n, req) /\ main = Main(n)
        /\ top = TopOfChain(Main(t)) /\ last = lastDeploy[t]
        /\ copied = CopiedDependsOn(n, req) /\ done = req
  OBVIOUS
<1>1. /\ phase = "depend" /\ phase' = "depend" /\ pos' = pos /\ req' = done + 1
      /\ tpl \in Templates /\ n \in Node /\ done \in DOMAIN tpl.reqs[n]
      /\ done \in Nat \ {0} /\ pos \in DOMAIN tpl.listing /\ tpl.listing[pos] = n
      /\ UNCHANGED <<tpl, lastDeploy>> /\ ~ NamedBefore(n, done) /\ [Next]_vars
      /\ dependsOn' = [dependsOn EXCEPT ![main] = copied]
  <2>1. AtNode \in Node /\ req \in 1..Len(tpl.reqs[AtNode])
    BY AtFacts DEF CopyDependency, AtRequirement
  <2>2. tpl \in Templates /\ tpl.listing \in Seq(Node) /\ pos \in Nat \ {0}
    BY TemplateFacts DEF IInv, TypeOK, Template
  <2>3. tpl.reqs[AtNode] \in Seq(Requirement)
    BY <2>1, <2>2, TemplateFacts
  <2> QED
    BY <1>0, <2>1, <2>2, <2>3
       DEF CopyDependency, AtRequirement, NextRequirement, AtNode, Next
<1>2. /\ t \in Node /\ t = Target(n, done) /\ main = Main(n) /\ main \in Resource
      /\ main.node = n /\ main.part = "main"
      /\ dependsOn \in [Resource -> Seq(Resource)]
  BY <1>0, <1>1, TemplateFacts, ResourceFacts DEF IInv, TypeOK
<1>3. top \in Resource
  BY <1>0, <1>1, <1>2, TopFacts
<1>4. /\ \A d \in ToSet(copied) :
            d \in ToSet(dependsOn[main]) \/ d = top \/ (d = last /\ last # NoResource)
      /\ \A x :
            Once(dependsOn[main], x) /\ x # last
                    /\ (x = top => x \notin ToSet(dependsOn[main]))
                => Once(copied, x)
  BY <1>0, <1>1, <1>3, CopiedElements
<1>5. top.node = t /\ (IsEnd(t) => top = Main(t))
  <2>1. Main(t) \in Resource /\ Main(t).node = t
    BY <1>2, ResourceFacts
  <2>2. chain \in [Resource -> Resource]
    BY DEF IInv, TypeOK
  <2>3. top.node = t
    BY <1>0, <2>1, <2>2 DEF TopOfChain, IInv, LinksStayInNode
  <2>4. IsEnd(t) => top = Main(t)
    BY <1>0, <1>2 DEF TopOfChain, EndsFirst, EndsAlone
  <2> QED
    BY <2>3, <2>4
<1>6. last # NoResource => last \in Deployments(t) /\ Declared(t) # {} /\ last.node = t
  BY <1>0, <1>1, <1>2, DeploymentsFacts DEF LinkInv, LastDeployed
<1>7. DependDone(n, done)'
  <2>1. tpl' = tpl
    BY <1>1
  <2>2. pos \in Nat /\ done < done + 1
    BY <1>1 DEF IInv, TypeOK
  <2> QED
    BY <1>1, <2>1, <2>2 DEF DependDone
<1>8. \A m \in Node : \A q \in DOMAIN tpl.reqs[m] : DependDone(m, q) => DependDone(m, q)'
  BY <1>1, DependDoneStays
<1>9. \A m : /\ IsEnd(m)' <=> IsEnd(m)
             /\ Declared(m)' = Declared(m) /\ Deployments(m)' = Deployments(m)
             /\ \A q : Target(m, q)' = Target(m, q)
             /\ Configured(tpl, m)' <=> Configured(tpl, m)
  BY <1>1, SameTemplate DEF IsEnd, Configured
<1>10. ASSUME NEW r \in Resource, NEW d, Because(r, d) PROVE Because(r, d)'
  <2>1. r.node \in Node
    BY ResourceNode
  <2>2. CASE d \in Deployments(r.node)
    BY <1>9, <2>2 DEF Because
  <2>3. CASE r.part = "connect" /\ \E m \in Node : d = Main(m) /\ Configured(tpl, m)
    BY <1>9, <2>3 DEF Because, Main
  <2>4. CASE /\ r.part = "main"
             /\ \E q \in DOMAIN tpl.reqs[r.node] :
                    /\ DependDone(r.node, q) /\ Target(r.node, q) = d.node
                    /\ IsEnd(d.node) /\ Declared(d.node) = {} => d = Main(d.node)
    <3>1. PICK q \in DOMAIN tpl.reqs[r.node] :
                    /\ DependDone(r.node, q) /\ Target(r.node, q) = d.node
                    /\ IsEnd(d.node) /\ Declared(d.node) = {} => d = Main(d.node)
      BY <2>4
    <3>2. DependDone(r.node, q)'
      BY <1>8, <2>1, <3>1
    <3> QED
      BY <1>1, <1>9, <2>4, <3>1, <3>2 DEF Because, Main
  <2> QED
    BY <1>10, <2>2, <2>3, <2>4 DEF Because
<1>11. DependenciesGiven'
  <2> SUFFICES ASSUME NEW r \in Resource, NEW d \in ToSet(dependsOn'[r])
               PROVE  Because(r, d)'
    BY DEF DependenciesGiven
  <2>1. CASE d \in ToSet(dependsOn[r])
    BY <1>10, <2>1 DEF LinkInv, DependenciesGiven
  <2>2. CASE r = main /\ (d = top \/ (d = last /\ last # NoResource))
    <3>1. d.node = t /\ (IsEnd(t) /\ Declared(t) = {} => d = Main(t))
      BY <1>5, <1>6, <2>2
    <3> QED
      BY <1>1, <1>2, <1>7, <1>9, <2>2, <3>1 DEF Because, Main
  <2> QED
    BY <1>1, <1>2, <1>4, <2>1, <2>2
<1>12. LastDeployed'
  BY <1>1, <1>9 DEF LinkInv, LastDeployed
<1>13. ASSUME NEW e \in Node, IsEnd(e) PROVE Once(copied, Main(e))
  <2>1. Once(dependsOn[main], Main(e)) /\ Main(e) \notin Deployments(t) /\ Main(e).node = e
    BY <1>1, <1>2, <1>13, EndIsNoDeployment DEF LinkInv, EndsOnce, Main
  <2>2. Main(e) # last
    <3>1. Main(e) # NoResource
      BY ResourceFacts, SentinelAssumption
    <3> QED
      BY <1>6, <2>1, <3>1
  <2>3. ASSUME Main(e) = top, Main(e) \in ToSet(dependsOn[main]) PROVE FALSE
    <3>1. e = t
      BY <1>5, <2>1, <2>3
    <3>2. Because(main, Main(e))
      BY <1>2, <2>3 DEF LinkInv, DependenciesGiven
    <3>3. Main(e) \notin Deployments(n)
      BY <1>1, <1>13, EndIsNoDeployment
    <3>4. PICK q \in DOMAIN tpl.reqs[n] : DependDone(n, q) /\ Target(n, q) = e
      BY <1>2, <2>1, <3>2, <3>3 DEF Because
    <3>5. q \in Nat /\ IsInjective(tpl.listing) /\ pos \in Nat
      <4>1. tpl.reqs[n] \in Seq(Requirement) /\ WellFormed(tpl)
        BY <1>1, TemplateFacts, TemplatesAssumption
      <4> QED
        BY <4>1 DEF WellFormed, IInv, TypeOK
    <3>6. q < done
      <4>1. PICK i \in DOMAIN tpl.listing :
                tpl.listing[i] = n /\ (i < pos \/ (i = pos /\ q < req))
        BY <1>1, <3>4 DEF DependDone, Removing
      <4>2. i = pos
        BY <1>1, <3>5, <4>1 DEF IsInjective
      <4> QED
        BY <1>0, <3>5, <4>1, <4>2
    <3> QED
      BY <1>1, <1>2, <3>1, <3>4, <3>6 DEF NamedBefore, SameTarget
  <2> QED
    BY <1>4, <2>1, <2>2, <2>3
<1>14. EndsOnce'
  <2> SUFFICES ASSUME NEW m \in Node, NEW e \in Node, IsEnd(e)
               PROVE  Once(dependsOn'[Main(m)], Main(e))
    BY <1>9 DEF EndsOnce, Main
  <2>1. Main(m) \in Resource
    BY ResourceFacts
  <2> QED
    BY <1>1, <1>2, <1>13, <2>1 DEF LinkInv, EndsOnce
<1> QED
  BY <1>11, <1>12, <1>14 DEF LinkInv

\* The steps of NodeTranslation keep the reasons of every dependency.
LEMMA NextLinkInv ==
    ASSUME IInv, OrderInv, EndsFirst, LinkInv, [Next]_vars
    PROVE  LinkInv'
<1>1. UNCHANGED tpl
  BY NextTemplate DEF vars
<1>2. \A n \in Node : \A q \in DOMAIN tpl.reqs[n] : DependDone(n, q) => DependDone(n, q)'
  BY DependDoneStays
<1>3. CASE HandleLifeCycle \/ HandleConnectsTo \/ CopyDependency
  BY <1>3, LifeCycleLinkStep, ConnectLinkStep, CopyLinkStep
<1>4. CASE UNCHANGED <<dependsOn, lastDeploy>>
  BY <1>1, <1>2, <1>4, FewerDependencies
<1>5. CASE RemoveTypeless
  <2>1. PICK gone : \A r \in Resource :
            dependsOn'[r] \in {dependsOn[r], RemoveFirst(dependsOn[r], gone)}
    BY <1>5 DEF RemoveTypeless
  <2>2. dependsOn \in [Resource -> Seq(Resource)] /\ UNCHANGED lastDeploy
    BY <1>5 DEF RemoveTypeless, IInv, TypeOK
  <2>3. ASSUME NEW r \in Resource
        PROVE  /\ ToSet(dependsOn'[r]) \subseteq ToSet(dependsOn[r])
               /\ \A x \in Resource : Once(dependsOn[r], x) => Once(dependsOn'[r], x)
    <3>1. dependsOn[r] \in Seq(Resource)
      BY <2>2
    <3>2. /\ ToSet(RemoveFirst(dependsOn[r], gone)) \subseteq ToSet(dependsOn[r])
          /\ \A x : Once(dependsOn[r], x) => Once(RemoveFirst(dependsOn[r], gone), x)
      BY <3>1, RemoveFirstProperties, RemoveFirstElements
    <3> QED
      BY <2>1, <3>2
  <2> QED
    BY <1>1, <1>2, <2>2, <2>3, FewerDependencies
<1>6. CASE \/ CopyNode \/ AttachVolume \/ SkipVolume \/ NextNode \/ FinishNodes
           \/ FollowLifeCycleHosting \/ SkipAttachment \/ FinishLifeCycle
           \/ FollowConnectHosting \/ SkipConnect \/ FinishConnect
           \/ SkipRelated \/ FinishDepend \/ HandleHosting \/ RaiseNoHost
           \/ FinishHosting \/ FinishRemove \/ UNCHANGED vars
  <2>1. UNCHANGED <<dependsOn, lastDeploy>>
    BY <1>6 DEF CopyNode, AttachVolume, SkipVolume, NextNode, FinishNodes,
       FollowLifeCycleHosting, SkipAttachment, FinishLifeCycle, FollowConnectHosting,
       FollowHosting, SkipConnect, FinishConnect, SkipRelated, FinishDepend,
       HandleHosting, RaiseNoHost, FinishHosting, FinishRemove, vars, links
  <2> QED
    BY <1>4, <2>1
<1> QED
  BY <1>3, <1>5, <1>6 DEF Next

\* depends_on is empty at first.
LEMMA InitLinkInv == Init => LinkInv
<1> SUFFICES ASSUME Init PROVE LinkInv
  OBVIOUS
<1>1. \A n \in Node : Main(n) \in Resource
  BY ResourceFacts
<1>2. \A r \in Resource : dependsOn[r] = <<>>
  BY DEF Init
<1>3. \A n \in Node : lastDeploy[n] = NoResource
  BY DEF Init
<1> QED
  BY <1>1, <1>2, <1>3 DEF LinkInv, DependenciesGiven, LastDeployed, EndsOnce, Once, ToSet

-----------------------------------------------------------------------------
(* What the two passes leave in the properties.                            *)

\* What OtherPass does not reach before the passes.
NotStarted == phase \notin Removing => handled = {}

\* Only an existing network is hidden.
HiddenExist ==
    \A n \in hidden : tpl.kind[n] = "network" /\ tpl.network[n] = "existing"

\* The network a port refers to was handled, and is not hidden.
LinkedWritten ==
    \A n \in Node : linked[n] # NoNode =>
        linked[n] = LinksTo(n) /\ linked[n] \notin hidden /\ Main(linked[n]) \in handled

ServersOnly == \A n \in Node : tpl.kind[n] # "compute" => networks[n] = <<>>

\* The handler of port n has removed its links from depends_on.
Released(n) == Main(n) \in handled \/ (stage = "insertion" /\ Self = Main(n))

\* A port that was handled waits for its server and its network only by its
\* properties.
PortsReleased ==
    \A n \in Node : tpl.kind[n] = "port" /\ Released(n) =>
        /\ RunsOn(Main(n)) = {}
        /\ \A m \in {LinksTo(n), BindsTo(n)} \ {NoNode} :
                Main(m) \notin ToSet(dependsOn[Main(n)])

AttachmentsListed ==
    \A r \in Listed : r.part = "attachment" =>
        r.req \in DOMAIN tpl.reqs[r.node] /\ Attaches(r.node, r.req)

SubnetsListed ==
    \A r \in Listed : r.part = "subnet" =>
        /\ tpl.kind[r.node] = "network" /\ r.node \notin hidden
        /\ stage \in {"expansion", "finished"}

OutputInv ==
    /\ NotStarted /\ HiddenExist /\ LinkedWritten /\ ServersOnly
    /\ PortsReleased /\ AttachmentsListed /\ SubnetsListed

\* Nothing was handled at first.
LEMMA InitOutputInv == PassInit => OutputInv
<1> SUFFICES ASSUME PassInit PROVE OutputInv
  OBVIOUS
<1>1. /\ handled = {} /\ hidden = {} /\ stage = "properties" /\ Listed = {}
      /\ \A n \in Node : linked[n] = NoNode /\ networks[n] = <<>>
  BY DEF PassInit, Init, Listed, ToSet
<1> QED
  BY <1>1 DEF OutputInv, NotStarted, HiddenExist, LinkedWritten, ServersOnly,
     PortsReleased, Released, AttachmentsListed, SubnetsListed

\* The ends of a port are those of the template.
LEMMA SameTargets ==
    ASSUME UNCHANGED tpl
    PROVE  \A n : LinksTo(n)' = LinksTo(n) /\ BindsTo(n)' = BindsTo(n)
BY DEF LinksTo, BindsTo, FirstTarget, Target

\* A step that releases no port keeps what was released.
LEMMA KeptReleased ==
    ASSUME PortsReleased, UNCHANGED tpl,
           \A n \in Node : tpl.kind[n] = "port" /\ Released(n)' =>
                /\ Released(n)
                /\ ToSet(dependsOn'[Main(n)]) \subseteq ToSet(dependsOn[Main(n)])
                /\ hot'[Main(n)] = hot[Main(n)]
    PROVE  PortsReleased'
<1>1. \A n : LinksTo(n)' = LinksTo(n) /\ BindsTo(n)' = BindsTo(n)
  BY SameTargets
<1> SUFFICES ASSUME NEW n \in Node, tpl.kind[n] = "port", Released(n)'
             PROVE  /\ RunsOn(Main(n))' = {}
                    /\ \A m \in {LinksTo(n), BindsTo(n)} \ {NoNode} :
                            Main(m) \notin ToSet(dependsOn'[Main(n)])
  BY <1>1 DEF PortsReleased, Main
<1>2. RunsOn(Main(n))' = RunsOn(Main(n))
  BY DEF RunsOn, ServersOf, Main
<1> QED
  BY <1>2 DEF PortsReleased

\* A step that changes the properties of no port, server or network.
LEMMA QuietOutputStep ==
    ASSUME OutputInv, UNCHANGED <<tpl, hidden, linked, networks>>,
           NotStarted', PortsReleased', AttachmentsListed', SubnetsListed',
           handled \subseteq handled'
    PROVE  OutputInv'
<1>1. LinkedWritten'
  BY SameTargets DEF OutputInv, LinkedWritten, Main
<1>2. HiddenExist' /\ ServersOnly'
  BY DEF OutputInv, HiddenExist, ServersOnly
<1> QED
  BY <1>1, <1>2 DEF OutputInv

\* A step that lists nothing new.
LEMMA SameListed ==
    ASSUME AttachmentsListed, SubnetsListed, UNCHANGED tpl,
           Listed' \subseteq Listed, hidden' = hidden \/ stage \notin {"expansion", "finished"},
           stage \in {"expansion", "finished"} => stage' \in {"expansion", "finished"}
    PROVE  AttachmentsListed' /\ SubnetsListed'
<1>1. AttachmentsListed'
  BY DEF AttachmentsListed, Attaches, Target
<1>2. SubnetsListed'
  BY DEF SubnetsListed
<1> QED
  BY <1>1, <1>2

\* The deployments that a node adds to the list are parts of their own.
LEMMA AddedParts ==
    ASSUME tpl \in Templates, NEW n \in Node
    PROVE  /\ AddedDeploys(n) \in Seq(Resource)
           /\ \A r \in ToSet(AddedDeploys(n)) : r.part \in Operation \cup {"main"}
<1> DEFINE all == [i \in DOMAIN tpl.ops[n] |-> OpDeploy(n, tpl.ops[n][i])]
<1>1. /\ tpl.ops[n] \in Seq(Operation) /\ \A op \in Operation :
            /\ OpDeploy(n, op) \in Resource
            /\ OpDeploy(n, op).part \in Operation \cup {"main"}
  BY TemplateFacts, ResourceFacts DEF Template
<1>2. all \in Seq(Resource)
  BY <1>1
<1>3. \A r \in ToSet(all) : r.part \in Operation \cup {"main"}
  <2> SUFFICES ASSUME NEW i \in DOMAIN all
               PROVE  all[i].part \in Operation \cup {"main"}
    BY DEF ToSet
  <2>1. i \in DOMAIN tpl.ops[n] /\ tpl.ops[n][i] \in Operation
    BY <1>1
  <2> QED
    BY <1>1, <2>1
<1>4. AddedDeploys(n) = RemoveFirst(all, Main(n))
  BY DEF AddedDeploys
<1> HIDE DEF all
<1> QED
  BY <1>2, <1>3, <1>4, RemoveFirstProperties

\* What joins the list in the passes of NodeTranslation.
LEMMA NextListed ==
    ASSUME IInv, [Next]_vars, NEW r \in Listed', r \notin Listed
    PROVE  /\ r.part # "subnet"
           /\ r.part = "attachment" =>
                r.req \in DOMAIN tpl.reqs[r.node] /\ Attaches(r.node, r.req)
<1>1. /\ tpl \in Templates /\ resources \in Seq(Resource) /\ expanded \in Seq(Resource)
  BY DEF IInv, TypeOK
<1>2. CASE CopyNode
  <2>1. AtNode \in Node
    BY <1>2, AtFacts DEF CopyNode
  <2>2. Main(AtNode) \in Resource /\ Main(AtNode).part = "main"
    BY <2>1, ResourceFacts
  <2>3. ToSet(resources') = ToSet(resources) \cup {Main(AtNode)} /\ expanded' = expanded
    BY <1>1, <1>2, <2>2, AppendElements DEF CopyNode
  <2> QED
    BY <2>2, <2>3 DEF Listed
<1>3. CASE AttachVolume
  <2>1. /\ AtNode \in Node /\ req \in 1..Len(tpl.reqs[AtNode]) /\ Attaches(AtNode, req)
    BY <1>3, AtFacts DEF AttachVolume, AtRequirement
  <2>2. tpl.reqs[AtNode] \in Seq(Requirement)
    BY <1>1, <2>1, TemplateFacts
  <2>3. req \in DOMAIN tpl.reqs[AtNode] /\ req \in 1..MaxRequirements
    BY <1>1, <2>1, <2>2, TemplateFacts
  <2>4. Attachment(AtNode, req) \in Resource
    BY <2>1, <2>3, ResourceFacts
  <2>5. /\ ToSet(resources') = ToSet(resources) \cup {Attachment(AtNode, req)}
        /\ expanded' = expanded
    BY <1>1, <1>3, <2>4, AppendElements DEF AttachVolume
  <2>6. /\ Attachment(AtNode, req).part = "attachment"
        /\ Attachment(AtNode, req).node = AtNode /\ Attachment(AtNode, req).req = req
    BY DEF Attachment
  <2> QED
    BY <2>1, <2>3, <2>5, <2>6 DEF Listed
<1>4. CASE HandleLifeCycle
  <2> DEFINE n == AtResource.node
             added == AddedDeploys(n)
             roles == IF tpl.roles[n] THEN <<Roles(n)>> ELSE <<>>
  <2>1. n \in Node
    BY <1>4, AtFacts, ResourceNode DEF HandleLifeCycle
  <2>2. Roles(n) \in Resource /\ Roles(n).part = "roles"
    BY <2>1, ResourceFacts
  <2>3. /\ added \in Seq(Resource)
        /\ \A x \in ToSet(added) : x.part \in Operation \cup {"main"}
    BY <1>1, <2>1, AddedParts
  <2>4. roles \in Seq(Resource) /\ ToSet(roles) \subseteq {Roles(n)}
    BY <2>2 DEF ToSet
  <2>5. expanded' = expanded \o added \o roles /\ resources' = resources
    BY <1>4 DEF HandleLifeCycle
  <2> HIDE DEF n, added, roles
  <2>6. ToSet(expanded') = ToSet(expanded) \cup ToSet(added) \cup ToSet(roles)
    <3>1. /\ expanded \o added \in Seq(Resource)
          /\ ToSet(expanded \o added) = ToSet(expanded) \cup ToSet(added)
      BY <1>1, <2>3, ConcatElements
    <3>2. PICK first \in Seq(Resource) : first = expanded \o added
      BY <3>1
    <3>3. ToSet(first \o roles) = ToSet(first) \cup ToSet(roles)
      BY <2>4, ConcatElements
    <3> QED
      BY <2>5, <3>1, <3>2, <3>3
  <2> QED
    BY <2>2, <2>3, <2>4, <2>5, <2>6 DEF Listed, Operation
<1>5. CASE FinishLifeCycle \/ FinishConnect
  <2>1. ToSet(resources') = ToSet(resources) \cup ToSet(expanded) /\ expanded' = <<>>
    BY <1>1, <1>5, ConcatElements DEF FinishLifeCycle, FinishConnect
  <2> QED
    BY <2>1 DEF Listed, ToSet
<1>6. CASE HandleConnectsTo
  <2>1. AtNode \in Node /\ req \in 1..Len(tpl.reqs[AtNode])
    BY <1>6, AtFacts DEF HandleConnectsTo, AtRequirement
  <2>2. tpl.reqs[AtNode] \in Seq(Requirement)
    BY <1>1, <2>1, TemplateFacts
  <2>3. Connect(AtNode, req) \in Resource /\ Connect(AtNode, req).part = "connect"
    BY <1>1, <2>1, <2>2, TemplateFacts, ResourceFacts
  <2>4. ToSet(expanded') = ToSet(expanded) \cup {Connect(AtNode, req)}
        /\ resources' = resources
    BY <1>1, <1>6, <2>3, AppendElements DEF HandleConnectsTo
  <2> QED
    BY <2>3, <2>4 DEF Listed
<1>7. CASE RemoveTypeless
  <2>1. ToSet(resources') \subseteq ToSet(resources) /\ expanded' = expanded
    BY <1>1, <1>7, RemoveFirstProperties DEF RemoveTypeless
  <2> QED
    BY <2>1 DEF Listed
<1>8. CASE UNCHANGED <<resources, expanded>>
  BY <1>8 DEF Listed
<1> QED
  BY <1>2, <1>3, <1>4, <1>5, <1>6, <1>7, <1>8
     DEF Next, vars, SkipVolume, NextNode, FinishNodes, FollowLifeCycleHosting,
     FollowHosting, SkipAttachment, FollowConnectHosting, SkipConnect, CopyDependency,
     SkipRelated, FinishDepend, HandleHosting, RaiseNoHost, FinishHosting, FinishRemove

\* The passes of NodeTranslation, before and after.
LEMMA OtherOutputStep ==
    ASSUME PInv, OutputInv, OtherPass \/ UNCHANGED allVars
    PROVE  OutputInv'
<1>1. /\ [Next]_vars /\ UNCHANGED passVars /\ UNCHANGED tpl
  BY NextTemplate DEF OtherPass, allVars, vars
<1>2. UNCHANGED <<stage, calls, handled, networks, linked, hidden>>
  BY <1>1 DEF passVars, walk, network
<1>3. NotStarted'
  <2>1. phase \in Removing => phase' \in Removing
    BY <1>1, NextRemoving DEF vars, cursors
  <2> QED
    BY <1>2, <2>1 DEF OutputInv, NotStarted
<1>4. PortsReleased'
  <2> SUFFICES ASSUME NEW n \in Node, tpl.kind[n] = "port", Released(n)'
               PROVE  /\ Released(n)
                      /\ ToSet(dependsOn'[Main(n)]) \subseteq ToSet(dependsOn[Main(n)])
                      /\ hot'[Main(n)] = hot[Main(n)]
    BY <1>1, KeptReleased DEF OutputInv
  <2>1. Released(n)
    BY <1>2 DEF Released, Self, Top, Main
  <2>2. phase \in Removing
    BY <2>1 DEF Released, OutputInv, NotStarted, PInv, InsertionInv, Removing
  <2>3. RemoveTypeless \/ FinishRemove \/ UNCHANGED vars
    BY <1>1, <2>2
       DEF Removing, Next, CopyNode, AttachVolume, SkipVolume, NextNode, FinishNodes,
       AtRequirement, FollowLifeCycleHosting, HandleLifeCycle, SkipAttachment,
       FinishLifeCycle, FollowConnectHosting, HandleConnectsTo, SkipConnect,
       FinishConnect, CopyDependency, SkipRelated, FinishDepend, HandleHosting,
       RaiseNoHost, FinishHosting
  <2>4. hot' = hot
    BY <2>3 DEF RemoveTypeless, FinishRemove, vars
  <2>5. Main(n) \in Resource /\ dependsOn \in [Resource -> Seq(Resource)]
    BY ResourceFacts DEF PInv, IInv, TypeOK
  <2>6. CASE RemoveTypeless
    <3>1. PICK gone : dependsOn'[Main(n)] \in
                {dependsOn[Main(n)], RemoveFirst(dependsOn[Main(n)], gone)}
      BY <2>5, <2>6 DEF RemoveTypeless
    <3>2. dependsOn[Main(n)] \in Seq(Resource)
      BY <2>5
    <3> QED
      BY <2>1, <2>4, <3>1, <3>2, RemoveFirstProperties
  <2>7. CASE UNCHANGED dependsOn
    BY <2>1, <2>4, <2>7
  <2> QED
    BY <2>3, <2>6, <2>7 DEF FinishRemove, vars, links
<1>5. AttachmentsListed'
  <2> SUFFICES ASSUME NEW r \in Listed', r.part = "attachment"
               PROVE  r.req \in DOMAIN tpl.reqs[r.node] /\ Attaches(r.node, r.req)
    BY <1>1 DEF AttachmentsListed, Attaches, Target
  <2> QED
    BY <1>1, NextListed DEF PInv, OutputInv, AttachmentsListed
<1>6. SubnetsListed'
  <2> SUFFICES ASSUME NEW r \in Listed', r.part = "subnet"
               PROVE  r \in Listed
    BY <1>1, <1>2 DEF SubnetsListed, OutputInv
  <2> QED
    BY <1>1, NextListed DEF PInv
<1> QED
  BY <1>1, <1>2, <1>3, <1>4, <1>5, <1>6, QuietOutputStep

\* A handler of a kind of node works on the main resource of the node.
LEMMA SelfIsMain ==
    ASSUME Self \in Resource, KindOfSelf \in {"compute", "volume", "network", "port"}
    PROVE  Self = Main(Self.node) /\ tpl.kind[Self.node] = KindOfSelf
<1>1. Self.part \notin {"compute", "volume", "network", "port"}
  BY DEF Resource, Operation
<1> QED
  BY <1>1 DEF KindOfSelf, Resource, Main, Operation

\* The handlers of everything but a port.
LEMMA HandlerOutputStep ==
    ASSUME PInv, PortInv, OutputInv,
           HandleServer \/ HandleVolume \/ HandleOther \/ HandleNetwork
    PROVE  OutputInv'
<1>1. /\ calls # <<>> /\ Return /\ phase = "remove" /\ phase' = "remove"
      /\ stage = "properties" /\ KindOfSelf # "port"
      /\ UNCHANGED <<tpl, resources, expanded, dependsOn, stage, linked>>
      /\ hot' = hot \/ Overwrite(Self)
  BY DEF HandleServer, HandleVolume, HandleOther, HandleNetwork, DependenciesWalked,
     InCall, Running, vars, cursors, links, network
<1>2. Self \in Resource /\ Self \notin handled /\ handled' = handled \cup {Self}
  BY <1>1, ReturnHandledOnce DEF PortInv
<1>3. \A n \in Node : tpl.kind[n] = "port" => Main(n) # Self
  <2>1. \A n \in Node : Main(n).part = "main" /\ Main(n).node = n
    BY DEF Main
  <2> QED
    BY <1>1, <2>1 DEF KindOfSelf
<1>4. NotStarted'
  BY <1>1 DEF NotStarted, Removing
<1>5. PortsReleased'
  <2> SUFFICES ASSUME NEW n \in Node, tpl.kind[n] = "port", Released(n)'
               PROVE  /\ Released(n)
                      /\ ToSet(dependsOn'[Main(n)]) \subseteq ToSet(dependsOn[Main(n)])
                      /\ hot'[Main(n)] = hot[Main(n)]
    BY <1>1, KeptReleased DEF OutputInv
  <2>1. Main(n) \in handled
    BY <1>1, <1>2, <1>3 DEF Released, Main
  <2>2. hot'[Main(n)] = hot[Main(n)]
    <3>1. Main(n) \in Resource /\ hot \in [Resource -> HotAttributes]
      BY ResourceFacts DEF PInv, IInv, TypeOK
    <3> QED
      BY <1>1, <1>3, <3>1 DEF Overwrite
  <2> QED
    BY <1>1, <2>1, <2>2 DEF Released
<1>6. AttachmentsListed' /\ SubnetsListed'
  <2>1. Listed' = Listed
    BY <1>1 DEF Listed
  <2> QED
    BY <1>1, <2>1, SameListed DEF OutputInv
<1>7. CASE UNCHANGED <<hidden, networks>>
  BY <1>1, <1>2, <1>4, <1>5, <1>6, <1>7, QuietOutputStep
<1>8. CASE HandleServer
  <2>1. UNCHANGED hidden /\ networks' = [networks EXCEPT ![Self.node] = <<>>]
    BY <1>8 DEF HandleServer
  <2>2. ServersOnly' /\ HiddenExist'
    BY <1>1, <2>1 DEF OutputInv, ServersOnly, HiddenExist, PInv, PassTypeOK
  <2>3. LinkedWritten'
    BY <1>1, <1>2, <2>1, SameTargets DEF OutputInv, LinkedWritten, Main
  <2> QED
    BY <1>4, <1>5, <1>6, <2>2, <2>3 DEF OutputInv
<1>9. CASE HandleNetwork
  <2>1. /\ UNCHANGED networks /\ KindOfSelf = "network"
        /\ hidden' = IF tpl.network[Self.node] = "existing"
                     THEN hidden \cup {Self.node} ELSE hidden
    BY <1>9 DEF HandleNetwork
  <2>2. Self = Main(Self.node) /\ tpl.kind[Self.node] = "network"
    BY <1>2, <2>1, SelfIsMain
  <2>3. ServersOnly' /\ HiddenExist'
    BY <1>1, <2>1, <2>2 DEF OutputInv, ServersOnly, HiddenExist
  <2>4. LinkedWritten'
    <3>1. \A n \in Node : linked[n] # NoNode => linked[n] # Self.node
      BY <1>2, <2>2 DEF OutputInv, LinkedWritten
    <3> QED
      BY <1>1, <1>2, <2>1, <3>1, SameTargets DEF OutputInv, LinkedWritten, Main
  <2> QED
    BY <1>4, <1>5, <1>6, <2>3, <2>4 DEF OutputInv
<1> QED
  BY <1>7, <1>8, <1>9 DEF HandleVolume, HandleOther, network

\* The handler of a port drops its links before it writes them as properties.
LEMMA HandlePortOutputStep ==
    ASSUME PInv, EndsFirst, LinkInv, PortInv, OutputInv, HandlePort
    PROVE  OutputInv'
<1>0. PICK p, on : p = Self.node /\ on = dependsOn[Self]
  OBVIOUS
<1>1. /\ calls # <<>> /\ phase = "remove" /\ phase' = "remove" /\ KindOfSelf = "port"
      /\ Top.next > Len(dependsOnNodes[Self]) /\ stage = "properties"
      /\ UNCHANGED <<tpl, resources, expanded, networks, hidden>>
      /\ hot' = [hot EXCEPT ![Self] = Blank(hot[Self].type)]
      /\ dependsOn' = [dependsOn EXCEPT ![Self] = DropLinks(on, p)]
      /\ linked' = [linked EXCEPT ![p] = Link(p)]
      /\ Return \/ UNCHANGED <<calls, handled>>
      /\ stage' \in {"properties", "insertion"}
  BY <1>0 DEF HandlePort, DependenciesWalked, InCall, Running, cursors, ToWalk, Overwrite
<1>2. Self \in Resource /\ p \in Node /\ tpl \in Templates
  BY <1>0, <1>1, SelfFacts DEF PInv, IInv
<1>3. Self = Main(p) /\ tpl.kind[p] = "port" /\ on \in Seq(Resource)
  BY <1>0, <1>1, <1>2, SelfIsMain DEF PInv, IInv, TypeOK
<1>4. handled \subseteq handled' /\ handled' \subseteq handled \cup {Main(p)}
  BY <1>1, <1>3 DEF Return
<1>5. NotStarted'
  BY <1>1 DEF NotStarted, Removing
<1>6. AttachmentsListed' /\ SubnetsListed'
  <2>1. Listed' = Listed
    BY <1>1 DEF Listed
  <2> QED
    BY <1>1, <2>1, SameListed DEF OutputInv
<1>7. HiddenExist' /\ ServersOnly'
  BY <1>1 DEF OutputInv, HiddenExist, ServersOnly
<1>8. LinkedWritten'
  <2>1. \A n \in Node : linked'[n] = IF n = p THEN Link(p) ELSE linked[n]
    BY <1>1 DEF PInv, PassTypeOK
  <2>2. ASSUME Link(p) # NoNode
        PROVE  Link(p) = LinksTo(p) /\ LinksTo(p) \notin hidden /\ Main(LinksTo(p)) \in handled
    <3>1. Link(p) = LinksTo(p) /\ LinksTo(p) \notin hidden /\ LinksTo(p) # NoNode
      BY <2>2 DEF Link
    <3>2. PICK q \in DOMAIN tpl.reqs[p] : Target(p, q) = LinksTo(p)
      BY <1>2, <3>1, FirstTargetKind
    <3>3. IsEnd(Target(p, q)) /\ DependDone(p, q)
      BY <1>1, <1>2, <3>1, <3>2, FirstTargetKind DEF IsEnd, DependDone, Removing
    <3>4. Main(LinksTo(p)) \in ToSet(dependsOnNodes[Self])
      BY <1>2, <1>3, <3>2, <3>3 DEF EndsFirst, EndsCopied
    <3> QED
      BY <1>1, <3>1, <3>4, WalkedHandled
  <2>3. \A n : LinksTo(n)' = LinksTo(n)
    BY <1>1, SameTargets
  <2> QED
    BY <1>1, <1>4, <2>1, <2>2, <2>3 DEF OutputInv, LinkedWritten, Main
<1>9. \A n \in Node : Main(n) \in Resource /\ (Main(n) = Main(p) => n = p)
  BY ResourceFacts DEF Main
<1>10. RunsOn(Main(p))' = {}
  <2>1. hot'[Main(p)] = Blank(hot[Self].type)
    BY <1>1, <1>2, <1>3 DEF PInv, IInv, TypeOK
  <2> QED
    BY <2>1 DEF RunsOn, ServersOf, Blank, Main
<1>11. ASSUME NEW m \in {LinksTo(p), BindsTo(p)} \ {NoNode}
       PROVE  Main(m) \notin ToSet(dependsOn'[Main(p)])
  <2>1. dependsOn'[Main(p)] = DropLinks(on, p)
    BY <1>1, <1>2, <1>3 DEF PInv, IInv, TypeOK
  <2>2. m \in Node /\ IsEnd(m)
    BY <1>2, <1>11, FirstTargetKind DEF IsEnd
  <2>3. Once(on, Main(m))
    BY <1>0, <1>2, <1>3, <2>2 DEF LinkInv, EndsOnce
  <2>4. DropLink(on, p) \in Seq(Resource)
    BY <1>3, RemoveFirstProperties DEF DropLink
  <2>5. CASE m = BindsTo(p)
    <3>1. Once(DropLink(on, p), Main(m))
      BY <1>3, <2>3, RemoveFirstElements DEF DropLink
    <3>2. DropLinks(on, p) = RemoveFirst(DropLink(on, p), Main(m))
      BY <1>11, <2>5 DEF DropLinks
    <3> QED
      BY <2>1, <2>4, <3>1, <3>2, RemoveFirstElements
  <2>6. CASE m = LinksTo(p)
    <3>1. Main(m) \notin ToSet(DropLink(on, p))
      BY <1>3, <1>11, <2>3, <2>6, RemoveFirstElements DEF DropLink
    <3>2. ToSet(DropLinks(on, p)) \subseteq ToSet(DropLink(on, p))
      BY <2>4, RemoveFirstProperties DEF DropLinks
    <3> QED
      BY <2>1, <3>1, <3>2
  <2> QED
    BY <1>11, <2>5, <2>6
<1>12. ASSUME NEW n \in Node, n # p, Released(n)' PROVE Released(n)
  <2>1. CASE Main(n)' \in handled'
    BY <1>4, <1>9, <1>12, <2>1 DEF Released, Main
  <2>2. CASE stage' = "insertion" /\ Self' = Main(n)
    <3>1. UNCHANGED calls
      BY <1>1, <2>2 DEF HandlePort
    <3>2. Self' = Self
      BY <3>1 DEF Self, Top
    <3> QED
      BY <1>3, <1>9, <1>12, <2>2, <3>2
  <2> QED
    BY <1>12, <2>1, <2>2 DEF Released, Main
<1>13. PortsReleased'
  <2> SUFFICES ASSUME NEW n \in Node, tpl.kind[n] = "port", Released(n)'
               PROVE  /\ RunsOn(Main(n))' = {}
                      /\ \A m \in {LinksTo(n), BindsTo(n)} \ {NoNode} :
                            Main(m) \notin ToSet(dependsOn'[Main(n)])
    BY <1>1, SameTargets DEF PortsReleased, Main
  <2>1. CASE n = p
    BY <1>10, <1>11, <2>1
  <2>2. CASE n # p
    <3>1. hot'[Main(n)] = hot[Main(n)] /\ dependsOn'[Main(n)] = dependsOn[Main(n)]
      BY <1>1, <1>3, <1>9, <2>2 DEF PInv, IInv, TypeOK
    <3>2. RunsOn(Main(n))' = RunsOn(Main(n))
      BY <3>1 DEF RunsOn, ServersOf, Main
    <3> QED
      BY <1>12, <2>2, <3>1, <3>2 DEF OutputInv, PortsReleased
  <2> QED
    BY <2>1, <2>2
<1> QED
  BY <1>5, <1>6, <1>7, <1>8, <1>13 DEF OutputInv

\* The steps of the walk and of the binary insertion.
LEMMA WalkOutputStep ==
    ASSUME PInv, PortInv, OutputInv,
           WalkResource \/ WalkDependency \/ Bisect \/ FinishProperties \/ InsertPort
    PROVE  OutputInv'
<1>1. /\ phase = "remove" /\ phase' = "remove" /\ stage \in {"properties", "insertion"}
      /\ UNCHANGED <<tpl, resources, expanded, hot, dependsOn, linked, hidden>>
  <2>1. CASE WalkResource \/ FinishProperties
    BY <2>1 DEF WalkResource, FinishProperties, Running, NextPosition, links, network
  <2>2. CASE WalkDependency \/ Bisect \/ InsertPort
    BY <2>2 DEF WalkDependency, Bisect, InsertPort, InCall, Inserting, Running, vars,
       cursors, links, network
  <2> QED
    BY <2>1, <2>2
<1>2. \/ UNCHANGED <<handled, networks>>
      \/ /\ stage = "insertion" /\ Self = Main(Port) /\ handled' = handled \cup {Self}
         /\ stage' = "properties" /\ BindsTo(Port) \in Node
         /\ \E list : networks' = [networks EXCEPT ![BindsTo(Port)] = list]
  <2>1. CASE InsertPort
    <3>1. /\ stage = "insertion" /\ stage' = "properties" /\ BindsTo(Port) \in Node
          /\ handled' = handled \cup {Self}
          /\ \E list : networks' = [networks EXCEPT ![BindsTo(Port)] = list]
      BY <2>1, InsertPortFacts DEF PInv, InsertPort, Inserting, Running, Return
    <3> QED
      BY <3>1 DEF PortInv, PortAtInsertion
  <2>2. CASE WalkResource \/ WalkDependency \/ Bisect \/ FinishProperties
    BY <2>2 DEF WalkResource, WalkDependency, Bisect, FinishProperties, walk, network
  <2> QED
    BY <2>1, <2>2
<1>3. handled \subseteq handled' /\ NotStarted'
  BY <1>1, <1>2 DEF NotStarted, Removing
<1>4. AttachmentsListed' /\ SubnetsListed'
  <2>1. Listed' = Listed
    BY <1>1 DEF Listed
  <2> QED
    BY <1>1, <2>1, SameListed DEF OutputInv
<1>5. HiddenExist' /\ LinkedWritten'
  BY <1>1, <1>3, SameTargets DEF OutputInv, HiddenExist, LinkedWritten, Main
<1>6. ServersOnly'
  <2>1. CASE UNCHANGED networks
    BY <1>1, <2>1 DEF OutputInv, ServersOnly
  <2>2. CASE /\ BindsTo(Port) \in Node /\ stage = "insertion"
             /\ \E list : networks' = [networks EXCEPT ![BindsTo(Port)] = list]
    <3>1. Port \in Node /\ tpl \in Templates
      BY <2>2, SelfFacts DEF PInv, IInv, InsertionInv, Port
    <3>2. BindsTo(Port) # NoNode
      BY <2>2 DEF Node, NoNode
    <3>3. tpl.kind[BindsTo(Port)] = "compute"
      BY <3>1, <3>2, FirstTargetKind
    <3>4. PICK list : networks' = [networks EXCEPT ![BindsTo(Port)] = list]
      BY <2>2
    <3>5. \A n \in Node : tpl.kind[n] # "compute" => networks'[n] = networks[n]
      BY <3>3, <3>4 DEF PInv, PassTypeOK
    <3> QED
      BY <1>1, <3>5 DEF OutputInv, ServersOnly
  <2> QED
    BY <1>2, <2>1, <2>2
<1>7. PortsReleased'
  <2> SUFFICES ASSUME NEW n \in Node, tpl.kind[n] = "port", Released(n)'
               PROVE  Released(n)
    BY <1>1, KeptReleased DEF OutputInv
  <2>1. CASE Main(n) \in handled'
    BY <1>2, <2>1 DEF Released
  <2>2. CASE stage' = "insertion" /\ Self' = Main(n)
    <3>1. Bisect
      BY <1>1, <2>2 DEF WalkResource, WalkDependency, FinishProperties, InsertPort,
         InCall, Running
    <3>2. stage = "insertion" /\ Self' = Self
      BY <3>1 DEF Bisect, Inserting, Running, walk, Self, Top
    <3> QED
      BY <2>2, <3>2 DEF Released
  <2> QED
    BY <2>1, <2>2 DEF Released, Main
<1> QED
  BY <1>3, <1>4, <1>5, <1>6, <1>7 DEF OutputInv

\* The expansion: no network is hidden any more.
LEMMA ExpansionOutputStep ==
    ASSUME PInv, OutputInv,
           ExpandNetwork \/ RaiseHalfRange \/ SkipExpansion \/ FinishExpansion
    PROVE  OutputInv'
<1>1. /\ phase' \in {"remove", "failed"}
      /\ stage = "expansion" /\ stage' \in {"expansion", "finished"}
      /\ UNCHANGED <<tpl, dependsOn, calls, handled, networks, linked, hidden>>
  BY DEF ExpandNetwork, RaiseHalfRange, SkipExpansion, FinishExpansion, Expanding,
     Running, NextPosition, EnterPhase, cursors, links, passVars, walk, network
<1>2. NotStarted'
  BY <1>1 DEF NotStarted, Removing
<1>3. \A n \in Node : hot'[Main(n)] = hot[Main(n)]
  <2>1. CASE ExpandNetwork
    <3>1. hot' = [hot EXCEPT ![Subnet(AtResource.node)] = Blank("OS::Neutron::Subnet")]
      BY <2>1 DEF ExpandNetwork
    <3>2. \A n \in Node : Main(n) # Subnet(AtResource.node) /\ Main(n) \in Resource
      BY ResourceFacts DEF Main, Subnet
    <3> QED
      BY <3>1, <3>2 DEF PInv, IInv, TypeOK
  <2> QED
    BY <2>1 DEF RaiseHalfRange, SkipExpansion, FinishExpansion
<1>4. PortsReleased'
  <2> SUFFICES ASSUME NEW n \in Node, tpl.kind[n] = "port", Released(n)'
               PROVE  Released(n)
    BY <1>1, <1>3, KeptReleased DEF OutputInv
  <2> QED
    BY <1>1 DEF Released, Main
<1>5. CASE ExpandNetwork
  <2> DEFINE r == Subnet(AtResource.node)
  <2>1. /\ AtResource.node \in Node /\ r \in Resource /\ r.part = "subnet"
        /\ r.node = AtResource.node
    BY <1>5, AtFacts, ResourceNode
       DEF PInv, ExpandNetwork, Expanding, Subnet, Resource
  <2>2. /\ expanded' = Append(expanded, r) /\ resources' = resources
        /\ tpl.kind[r.node] = "network" /\ r.node \notin hidden
    BY <1>5, <2>1 DEF ExpandNetwork, Expands
  <2> HIDE DEF r
  <2>3. ToSet(expanded') = ToSet(expanded) \cup {r}
    BY <2>1, <2>2, AppendElements DEF PInv, IInv, TypeOK
  <2>4. Listed' = Listed \cup {r}
    BY <2>2, <2>3 DEF Listed
  <2>5. AttachmentsListed'
    BY <1>1, <2>1, <2>4 DEF OutputInv, AttachmentsListed, Attaches, Target
  <2>6. SubnetsListed'
    BY <1>1, <2>1, <2>2, <2>4 DEF OutputInv, SubnetsListed
  <2> QED
    BY <1>1, <1>2, <1>4, <2>5, <2>6, QuietOutputStep
<1>6. CASE RaiseHalfRange \/ SkipExpansion \/ FinishExpansion
  <2>1. Listed' \subseteq Listed
    <3>1. CASE FinishExpansion
      <4>1. ToSet(resources') = ToSet(resources) \cup ToSet(expanded) /\ expanded' = <<>>
        BY <3>1, ConcatElements DEF FinishExpansion, PInv, IInv, TypeOK
      <4>2. ToSet(expanded') = {}
        BY <4>1 DEF ToSet
      <4> QED
        BY <4>1, <4>2 DEF Listed
    <3>2. CASE UNCHANGED <<resources, expanded>>
      BY <3>2 DEF Listed
    <3> QED
      BY <1>6, <3>1, <3>2 DEF RaiseHalfRange, SkipExpansion
  <2>2. AttachmentsListed' /\ SubnetsListed'
    BY <1>1, <2>1, SameListed DEF OutputInv
  <2> QED
    BY <1>1, <1>2, <1>4, <2>2, QuietOutputStep
<1> QED
  BY <1>5, <1>6

\* The passes of PropertyPass add no dependency.
LEMMA PassLinkStep ==
    ASSUME PInv, OrderInv, EndsFirst, LinkInv, [PassNext]_allVars
    PROVE  LinkInv'
<1>1. CASE OtherPass \/ UNCHANGED allVars
  BY <1>1, NextLinkInv DEF PInv, OtherPass, allVars
<1>2. CASE ~ (OtherPass \/ UNCHANGED allVars)
  <2>1. /\ phase = "remove" /\ phase' \in {"remove", "failed"}
        /\ UNCHANGED <<tpl, lastDeploy>>
        /\ UNCHANGED dependsOn \/ HandlePort
    <3>1. CASE \/ WalkResource \/ FinishProperties \/ RaiseHalfRange \/ SkipExpansion
               \/ ExpandNetwork \/ FinishExpansion
      BY <3>1 DEF WalkResource, FinishProperties, RaiseHalfRange, SkipExpansion,
         ExpandNetwork, FinishExpansion, Expanding, Running, NextPosition, EnterPhase,
         cursors, links
    <3>2. CASE WalkDependency \/ Bisect \/ InsertPort \/ HandleOther
      BY <3>2 DEF WalkDependency, Bisect, InsertPort, HandleOther, DependenciesWalked,
         InCall, Inserting, Running, vars, cursors, links
    <3>3. CASE HandleServer \/ HandleVolume \/ HandleNetwork \/ HandlePort
      BY <3>3 DEF HandleServer, HandleVolume, HandleNetwork, HandlePort,
         DependenciesWalked, InCall, Running, cursors, links
    <3> QED
      BY <1>2, <3>1, <3>2, <3>3 DEF PassNext
  <2>2. \A n, q : DependDone(n, q)'
    BY <2>1 DEF DependDone, Removing
  <2>3. CASE UNCHANGED dependsOn
    BY <2>1, <2>2, <2>3, FewerDependencies
  <2>4. CASE HandlePort
    <3>1. PICK s, d : /\ s = Self /\ s \in Resource /\ s.node \in Node
                      /\ d = dependsOn[s] /\ d \in Seq(Resource)
                      /\ tpl \in Templates
                      /\ dependsOn' = [dependsOn EXCEPT ![s] = DropLinks(d, s.node)]
      <4>1. calls # <<>>
        BY <2>4 DEF HandlePort, DependenciesWalked, InCall
      <4>2. Self \in Resource /\ Self.node \in Node
        BY <4>1, SelfFacts DEF PInv
      <4> QED
        BY <2>4, <4>2 DEF HandlePort, PInv, IInv, TypeOK
    <3>2. \A r \in Resource :
            dependsOn'[r] = IF r = s THEN DropLinks(d, s.node) ELSE dependsOn[r]
      BY <3>1 DEF PInv, IInv, TypeOK
    <3>3. /\ ToSet(DropLinks(d, s.node)) \subseteq ToSet(d)
          /\ \A x \in Resource : Once(d, x) => Once(DropLinks(d, s.node), x)
      BY <3>1, DropLinksProperties, DropLinksElements
    <3> QED
      BY <2>1, <2>2, <3>1, <3>2, <3>3, FewerDependencies
  <2> QED
    BY <2>1, <2>3, <2>4
<1> QED
  BY <1>1, <1>2

\* The invariants of the references, through all passes.
LEMMA OutputInvariance == PassSpec => [](LinkInv /\ OutputInv)
<1>1. PassInit => LinkInv /\ OutputInv
  BY InitLinkInv, InitOutputInv DEF PassInit
<1>2. PInv /\ PassOrderInv /\ EndsFirst /\ PortInv /\ LinkInv /\ OutputInv
        /\ [PassNext]_allVars => LinkInv' /\ OutputInv'
  <2> SUFFICES ASSUME PInv, OrderInv, EndsFirst, PortInv, LinkInv, OutputInv,
                      [PassNext]_allVars
               PROVE  LinkInv' /\ OutputInv'
    BY DEF PassOrderInv
  <2>1. OutputInv'
    BY OtherOutputStep, HandlerOutputStep, HandlePortOutputStep, WalkOutputStep,
       ExpansionOutputStep DEF PassNext
  <2> QED
    BY <2>1, PassLinkStep
<1> QED
  BY <1>1, <1>2, PassInvariance, PassOrderInvariance, PortInvariance, PTL DEF PassSpec

\* The requirement that is first of its relation in full gives the end of a port.
LEMMA FirstFound ==
    ASSUME tpl \in Templates, NEW n \in Node, NEW p \in DOMAIN tpl.reqs[n],
           NEW relation, IsFirst(tpl, n, p, relation)
    PROVE  FirstTarget(n, relation) = Target(n, p)
<1> DEFINE related ==
        {q \in DOMAIN tpl.reqs[n] : tpl.reqs[n][q].relation = relation}
<1>1. tpl.reqs[n] \in Seq(Requirement)
  BY TemplateFacts
<1>2. p \in related /\ related \subseteq Nat
  BY <1>1 DEF IsFirst
<1>3. \A q \in related : p <= q
  <2> SUFFICES ASSUME NEW q \in related, q < p PROVE FALSE
    BY <1>1
  <2>1. q \in 1..(p - 1)
    BY <1>1
  <2> QED
    BY <2>1 DEF IsFirst
<1>4. FirstTarget(n, relation) =
            Target(n, CHOOSE q \in related : \A o \in related : q <= o)
  BY <1>2 DEF FirstTarget
<1> HIDE DEF related
<1>5. (CHOOSE q \in related : \A o \in related : q <= o) = p
  BY <1>2, <1>3
<1> QED
  BY <1>4, <1>5

\* At the end every node with a HOT type of its own has its resource.
LEMMA DoneFacts ==
    ASSUME PInv, PassOrderInv, PortInv, phase = "done"
    PROVE  /\ ToSet(resources) \subseteq Resource /\ ToSet(resources) \subseteq Listed
           /\ \A n \in Node : tpl.kind[n] # "software" => Main(n) \in ToSet(resources)
           /\ \A n \in Node : Main(n) \in handled
           /\ \A r \in ToSet(resources) : WaitsFor(r) \subseteq ToSet(resources)
           /\ tpl \in Templates /\ WellFormed(tpl)
<1>1. tpl \in Templates /\ WellFormed(tpl) /\ resources \in Seq(Resource)
  BY TemplatesAssumption DEF PInv, IInv, TypeOK
<1>2. stage = "finished" /\ Typeless = {} /\ expanded = <<>>
  BY DEF PassOrderInv, PassCollected
<1>3. Listed = ToSet(resources)
  BY <1>2 DEF Listed, ToSet
<1>4. \A n \in Node : Main(n) \in handled
  BY <1>2 DEF PortInv, AllHandled
<1>5. ASSUME NEW n \in Node, tpl.kind[n] # "software"
      PROVE  Main(n) \in ToSet(resources)
  <2>1. MainType(n) # "None" /\ Main(n) \in Resource
    BY <1>5, ResourceFacts DEF MainType
  <2>2. Typed(Main(n))
    BY <2>1 DEF PassOrderInv, OrderInv, MainsTyped
  <2> QED
    BY <1>3, <2>1, <2>2 DEF PassOrderInv, OrderInv, TypedListed
<1>6. \A r \in ToSet(resources) : WaitsFor(r) \subseteq ToSet(resources)
  BY <1>2, NothingDangles DEF PInv, PassOrderInv
<1>7. ToSet(resources) \subseteq Resource
  BY <1>1 DEF ToSet
<1> QED
  BY <1>1, <1>3, <1>4, <1>5, <1>6, <1>7

\* All that is listed is written, but a network that exists already.
LEMMA OnlyNetworksHidden ==
    ASSUME OutputInv, NEW n \in Node, Main(n) \in ToSet(resources),
           tpl.kind[n] # "network" \/ n \notin hidden
    PROVE  Main(n) \in Output
<1>1. Main(n).node = n
  BY DEF Main
<1> QED
  BY <1>1 DEF Output, OutputInv, HiddenExist

\* Nothing waits for a network that is not written.
LEMMA HiddenNotAwaited ==
    ASSUME PInv, PassOrderInv, PortInv, LinkInv, OutputInv, phase = "done",
           ExistingLinked(tpl), NEW r \in ToSet(resources), NEW d \in WaitsFor(r)
    PROVE  d \in Output
<1>1. /\ r \in Resource /\ r.node \in Node /\ tpl \in Templates
      /\ d \in ToSet(resources) /\ d \in Resource
      /\ \A n \in Node : Main(n) \in handled
  BY DoneFacts, ResourceNode
<1> SUFFICES ASSUME d.part = "main", d.node \in hidden PROVE FALSE
  BY <1>1 DEF Output
<1> DEFINE h == d.node
<1>2. h \in Node /\ d = Main(h) /\ tpl.kind[h] = "network" /\ tpl.network[h] = "existing"
  <2>1. d.req = 0 /\ d = [node |-> d.node, part |-> d.part, req |-> d.req]
    BY <1>1 DEF Resource, Operation
  <2> QED
    BY <1>1, <2>1, ResourceNode DEF OutputInv, HiddenExist, Main
<1> HIDE DEF h
<1>3. \A s \in RunsOn(r) : d # Main(s)
  BY <1>1, <1>2 DEF PInv, IInv, ServersBelow, Main
<1>4. d \in ToSet(dependsOn[r])
  BY <1>3 DEF WaitsFor
<1>5. Because(r, d)
  BY <1>1, <1>4 DEF LinkInv, DependenciesGiven
<1>6. d \notin Deployments(r.node)
  BY <1>1, <1>2, EndIsNoDeployment DEF IsEnd
<1>7. \A m \in Node : d = Main(m) => m = h
  BY <1>2 DEF Main
<1>8. ~ \E m \in Node : d = Main(m) /\ Configured(tpl, m)
  BY <1>2, <1>7 DEF ExistingLinked
<1>9. PICK q \in DOMAIN tpl.reqs[r.node] : r.part = "main" /\ Target(r.node, q) = h
  BY <1>5, <1>6, <1>8 DEF Because, h
<1>10. PICK p \in DOMAIN tpl.reqs[r.node] :
            tpl.reqs[r.node][p].target = h /\ IsFirst(tpl, r.node, p, "LinksTo")
  BY <1>1, <1>2, <1>9 DEF ExistingLinked, Target
<1>11. LinksTo(r.node) = h
  BY <1>1, <1>10, FirstFound DEF LinksTo, Target
<1>12. tpl.kind[r.node] = "port"
  <2>1. WellFormed(tpl) /\ tpl.reqs[r.node] \in Seq(Requirement)
    BY <1>1, TemplateFacts, TemplatesAssumption
  <2>2. p \in 1..Len(tpl.reqs[r.node])
    BY <1>10, <2>1
  <2> QED
    BY <1>1, <1>10, <2>1, <2>2 DEF WellFormed, IsFirst
<1>13. r = Main(r.node)
  BY <1>1, <1>9 DEF Resource, Operation, Main
<1>14. h # NoNode
  BY <1>2 DEF Node, NoNode
<1>15. Released(r.node)
  BY <1>1 DEF Released
<1> QED
  BY <1>1, <1>2, <1>4, <1>11, <1>12, <1>13, <1>14, <1>15 DEF OutputInv, PortsReleased

\* The properties name written resources.
LEMMA PropertiesWritten ==
    ASSUME PInv, PassOrderInv, PortInv, OutputInv, phase = "done", NEW r \in Output
    PROVE  PropertyReferences(r) \subseteq Output
<1>1. /\ r \in ToSet(resources) /\ r \in Resource /\ r \in Listed /\ r.node \in Node
      /\ tpl \in Templates /\ WellFormed(tpl)
      /\ \A n \in Node : tpl.kind[n] # "software" => Main(n) \in ToSet(resources)
      /\ \A n \in Node : Main(n) \in handled
  BY DoneFacts, ResourceNode DEF Output
<1>2. CASE r.part = "attachment"
  <2>1. r.req \in DOMAIN tpl.reqs[r.node] /\ Attaches(r.node, r.req)
    BY <1>1, <1>2 DEF OutputInv, AttachmentsListed
  <2>2. PICK p \in DOMAIN tpl.reqs[r.node] :
            /\ tpl.reqs[r.node][p].relation = "AttachesTo"
            /\ Target(r.node, p) = Target(r.node, r.req)
    BY <2>1 DEF Attaches
  <2>3. /\ p \in 1..Len(tpl.reqs[r.node]) /\ Target(r.node, p) \in Node
    BY <1>1, <2>2, TemplateFacts
  <2>4. tpl.kind[r.node] = "compute" /\ tpl.kind[Target(r.node, r.req)] = "volume"
    BY <1>1, <2>2, <2>3 DEF WellFormed, Target
  <2>5. Main(r.node) \in Output /\ Main(Target(r.node, r.req)) \in Output
    BY <1>1, <2>2, <2>3, <2>4, OnlyNetworksHidden
  <2> QED
    BY <1>2, <2>5 DEF PropertyReferences
<1>3. CASE r.part = "subnet"
  <2>1. tpl.kind[r.node] = "network" /\ r.node \notin hidden
    BY <1>1, <1>3 DEF OutputInv, SubnetsListed
  <2>2. Main(r.node) \in Output
    BY <1>1, <2>1, OnlyNetworksHidden
  <2> QED
    BY <1>3, <2>2 DEF PropertyReferences
<1>4. CASE r.part = "main"
  <2>1. ASSUME NEW n \in ToSet(networks[r.node])
        PROVE  Main(n) \in Output
    <3>1. tpl.kind[r.node] = "compute"
      BY <1>1, <2>1 DEF OutputInv, ServersOnly, ToSet
    <3>2. n \in HandledPorts(r.node)
      BY <1>1, <2>1, <3>1 DEF PortInv, PortsKept
    <3>3. n \in Node /\ BindsTo(n) = r.node /\ r.node # NoNode
      BY <1>1, <3>2 DEF HandledPorts, Node, NoNode
    <3>4. tpl.kind[n] = "port"
      BY <1>1, <3>3, FirstTargetKind
    <3> QED
      BY <1>1, <3>3, <3>4, OnlyNetworksHidden
  <2>2. ASSUME linked[r.node] # NoNode
        PROVE  Main(linked[r.node]) \in Output
    <3>1. linked[r.node] = LinksTo(r.node) /\ linked[r.node] \notin hidden
      BY <1>1, <2>2 DEF OutputInv, LinkedWritten
    <3>2. linked[r.node] \in Node /\ tpl.kind[linked[r.node]] = "network"
      BY <1>1, <2>2, <3>1, FirstTargetKind
    <3> QED
      BY <1>1, <3>1, <3>2, OnlyNetworksHidden
  <2> QED
    BY <1>4, <2>1, <2>2 DEF PropertyReferences
<1>5. CASE r.part \notin {"attachment", "subnet", "main"}
  BY <1>5 DEF PropertyReferences
<1> QED
  BY <1>2, <1>3, <1>4, <1>5

\* Where only ports require networks that exist, as the network they link to, no
\* resource of the output names one that the output does not hold: the handlers
\* of the ports are in time to drop what they must not wait for, and know by then
\* which networks are not written.
THEOREM OutputIsClosed ==
    ASSUME \A t \in Templates : ExistingLinked(t)
    PROVE  PassSpec => []OutputClosed
<1>1. PInv /\ PassOrderInv /\ PortInv /\ LinkInv /\ OutputInv => OutputClosed
  <2> SUFFICES ASSUME PInv, PassOrderInv, PortInv, LinkInv, OutputInv, phase = "done",
                      NEW r \in Output
               PROVE  References(r) \subseteq Output
    BY DEF OutputClosed
  <2>1. r \in ToSet(resources) /\ ExistingLinked(tpl)
    BY DoneFacts DEF Output
  <2> QED
    BY <2>1, HiddenNotAwaited, PropertiesWritten DEF References
<1> QED
  BY <1>1, PassInvariance, PassOrderInvariance, PortInvariance, OutputInvariance, PTL

-----------------------------------------------------------------------------
(* Rounds of creation.                                                     *)

\* One round over a finite set: what refers to members of f[i - 1] alone.
Round(S, refs, f, i) == IF i = 0 THEN {} ELSE {r \in S : refs[r] \subseteq f[i - 1]}

IsRounds(S, refs, k, f) == f = [i \in 0..k |-> Round(S, refs, f, i)]

\* The recursive function of the rounds exists.
LEMMA RoundsExist ==
    ASSUME NEW S, NEW refs, NEW k \in Nat
    PROVE  \E f : IsRounds(S, refs, k, f)
<1> DEFINE Up_(n) == \E f : f = [i \in 0..n |-> Round(S, refs, f, i)]
           bad == {n \in Nat : n <= k /\ ~ Up_(n)}
<1>1. Up_(0)
  <2> DEFINE g == [i \in 0..0 |-> {}]
  <2>1. \A i \in 0..0 : Round(S, refs, g, i) = {}
    BY DEF Round
  <2>2. g = [i \in 0..0 |-> Round(S, refs, g, i)]
    BY <2>1
  <2> QED
    BY <2>2
<1>2. ASSUME NEW n \in Nat, n > 0, Up_(n - 1) PROVE Up_(n)
  <2>1. PICK f : f = [i \in 0..(n - 1) |-> Round(S, refs, f, i)]
    BY <1>2
  <2> DEFINE g == [i \in 0..n |-> IF i < n THEN f[i] ELSE Round(S, refs, f, n)]
  <2>2. ASSUME NEW i \in 0..n PROVE Round(S, refs, g, i) = Round(S, refs, f, i)
    <3>1. i # 0 => i - 1 \in 0..n /\ i - 1 < n
      BY <1>2
    <3>2. i # 0 => g[i - 1] = f[i - 1]
      BY <3>1
    <3> HIDE DEF g
    <3> QED
      BY <3>2 DEF Round
  <2>3. ASSUME NEW i \in 0..n PROVE g[i] = Round(S, refs, f, i)
    <3>1. CASE i < n
      <4>1. i \in 0..(n - 1)
        BY <1>2, <3>1
      <4>2. f[i] = Round(S, refs, f, i)
        <5> HIDE DEF g
        <5> QED
          BY <2>1, <4>1
      <4> QED
        BY <3>1, <4>2
    <3>2. CASE i = n
      BY <3>2
    <3> QED
      BY <1>2, <3>1, <3>2
  <2>4. g = [i \in 0..n |-> Round(S, refs, g, i)]
    <3>1. \A i \in 0..n : g[i] = Round(S, refs, g, i)
      BY <2>2, <2>3
    <3>2. g = [i \in 0..n |-> g[i]]
      OBVIOUS
    <3> HIDE DEF g
    <3> QED
      BY <3>1, <3>2
  <2> QED
    BY <2>4
<1> HIDE DEF Up_
<1>3. bad = {}
  <2> SUFFICES ASSUME bad # {} PROVE FALSE
    OBVIOUS
  <2>1. bad \in SUBSET Nat
    OBVIOUS
  <2> DEFINE n == Min(bad)
  <2>2. n \in bad /\ \A y \in bad : n <= y
    <3> HIDE DEF bad
    <3> QED
      BY <2>1, MinProperty
  <2> HIDE DEF n
  <2>3. n \in Nat /\ n <= k /\ ~ Up_(n) /\ n > 0
    BY <1>1, <2>2
  <2>4. n - 1 \in Nat /\ n - 1 <= k /\ ~ (n <= n - 1)
    BY <2>3
  <2>5. Up_(n - 1)
    BY <2>2, <2>4
  <2> QED
    BY <1>2, <2>3, <2>5
<1>4. Up_(k)
  BY <1>3
<1> QED
  BY <1>4 DEF Up_, IsRounds

\* Where a rank descends along the references, every round creates something
\* until all is created: as many rounds as members are enough.
LEMMA RoundsReachAll ==
    ASSUME NEW S, IsFiniteSet(S), NEW refs, \A r \in S : refs[r] \subseteq S,
           NEW rank, \A r \in S : rank[r] \in Nat,
           \A r \in S : \A d \in refs[r] : rank[d] < rank[r],
           NEW f, IsRounds(S, refs, Cardinality(S), f)
    PROVE  f[Cardinality(S)] = S
<1> DEFINE k == Cardinality(S)
           short == {i \in Nat : i <= k /\ f[i] # S /\ Cardinality(f[i]) < i}
           drops == {i \in Nat : i < k /\ ~ (f[i] \subseteq f[i + 1])}
<1>1. k \in Nat
  BY FS_CardinalityType
<1>2. /\ f[0] = {}
      /\ \A i \in 1..k : f[i] = {r \in S : refs[r] \subseteq f[i - 1]}
  <2>1. \A i \in 0..k : f[i] = Round(S, refs, f, i)
    BY DEF IsRounds
  <2>2. 0 \in 0..k /\ \A i \in 1..k : i \in 0..k /\ i # 0
    BY <1>1
  <2> HIDE DEF k
  <2> QED
    BY <2>1, <2>2 DEF Round
<1> HIDE DEF k
<1>3. \A i \in 0..k : f[i] \subseteq S
  BY <1>1, <1>2
<1>4. drops = {}
  <2> SUFFICES ASSUME drops # {} PROVE FALSE
    OBVIOUS
  <2>1. drops \in SUBSET Nat
    OBVIOUS
  <2> DEFINE n == Min(drops)
  <2>2. n \in drops /\ \A y \in drops : n <= y
    <3> HIDE DEF drops
    <3> QED
      BY <2>1, MinProperty
  <2> HIDE DEF n
  <2>3. n \in Nat /\ n < k /\ ~ (f[n] \subseteq f[n + 1])
    BY <2>2
  <2>4. n > 0
    <3>1. n # 0
      <4> SUFFICES ASSUME n = 0 PROVE FALSE
        OBVIOUS
      <4>1. f[n] = {}
        BY <1>2
      <4> QED
        BY <2>3, <4>1
    <3> QED
      BY <2>3, <3>1
  <2>5. n - 1 \in Nat /\ n - 1 < k /\ ~ (n <= n - 1) /\ (n - 1) + 1 = n
    BY <1>1, <2>3, <2>4
  <2>6. f[n - 1] \subseteq f[n]
    BY <2>2, <2>5
  <2>7. n \in 1..k /\ n + 1 \in 1..k /\ (n + 1) - 1 = n
    BY <1>1, <2>3, <2>4
  <2>8. /\ f[n] = {r \in S : refs[r] \subseteq f[n - 1]}
        /\ f[n + 1] = {r \in S : refs[r] \subseteq f[n]}
    BY <1>2, <2>7
  <2> QED
    BY <2>3, <2>6, <2>8
<1>5. ASSUME NEW i \in Nat, i < k, f[i] # S
      PROVE  \E r \in f[i + 1] : r \notin f[i]
  <2>1. i \in 0..k /\ i + 1 \in 1..k /\ (i + 1) - 1 = i
    BY <1>1, <1>5
  <2> DEFINE ranks == {rank[r] : r \in S \ f[i]}
  <2>2. ranks \in SUBSET Nat /\ ranks # {}
    BY <1>3, <1>5, <2>1
  <2>3. Min(ranks) \in ranks /\ \A y \in ranks : Min(ranks) <= y
    <3> HIDE DEF ranks
    <3> QED
      BY <2>2, MinProperty
  <2>4. PICK r \in S \ f[i] : rank[r] = Min(ranks)
    BY <2>3
  <2>5. ASSUME NEW d \in refs[r] PROVE d \in f[i]
    <3>1. d \in S /\ rank[d] < rank[r] /\ rank[d] \in Nat /\ rank[r] \in Nat
      BY <2>4
    <3>2. d \notin f[i] => rank[d] \in ranks
      BY <3>1
    <3> HIDE DEF ranks
    <3>3. d \notin f[i] => rank[r] <= rank[d]
      BY <2>3, <2>4, <3>2
    <3> QED
      BY <3>1, <3>3
  <2>6. r \in f[i + 1]
    BY <1>2, <2>1, <2>4, <2>5
  <2> QED
    BY <2>4, <2>6
<1>6. \A i \in 0..k : IsFiniteSet(f[i]) /\ Cardinality(f[i]) \in Nat
  BY <1>3, FS_Subset, FS_CardinalityType
<1>7. short = {}
  <2> SUFFICES ASSUME short # {} PROVE FALSE
    OBVIOUS
  <2>1. short \in SUBSET Nat
    OBVIOUS
  <2> DEFINE n == Min(short)
  <2>2. n \in short /\ \A y \in short : n <= y
    <3> HIDE DEF short
    <3> QED
      BY <2>1, MinProperty
  <2> HIDE DEF n
  <2>3. n \in Nat /\ n <= k /\ f[n] # S /\ Cardinality(f[n]) < n
    BY <2>2
  <2>4. n > 0 /\ n \in 0..k
    <3>1. n \in 0..k
      BY <1>1, <2>3
    <3>2. Cardinality(f[n]) \in Nat
      BY <1>6, <3>1
    <3> QED
      BY <2>3, <3>1, <3>2
  <2>5. /\ n - 1 \in Nat /\ n - 1 < k /\ ~ (n <= n - 1) /\ (n - 1) + 1 = n
        /\ n - 1 \in 0..k /\ n - 1 <= k
    BY <1>1, <2>3, <2>4
  <2>6. f[n - 1] \subseteq f[n]
    BY <1>4, <2>5
  <2>7. f[n - 1] # S
    BY <1>3, <2>3, <2>4, <2>6
  <2>8. PICK r \in f[n] : r \notin f[n - 1]
    BY <1>5, <2>5, <2>7
  <2>9. Cardinality(f[n - 1]) >= n - 1
    <3>1. ~ (Cardinality(f[n - 1]) < n - 1)
      BY <2>2, <2>5, <2>7
    <3> QED
      BY <1>6, <2>5, <3>1
  <2>10. /\ Cardinality(f[n - 1]) <= Cardinality(f[n])
         /\ Cardinality(f[n - 1]) # Cardinality(f[n])
    <3>1. f[n - 1] # f[n]
      BY <2>8
    <3> QED
      BY <1>6, <2>4, <2>6, <3>1, FS_Subset
  <2>11. Cardinality(f[n - 1]) \in Nat /\ Cardinality(f[n]) \in Nat
    BY <1>6, <2>4, <2>5
  <2> QED
    BY <2>3, <2>9, <2>10, <2>11
<1>8. f[k] = S \/ Cardinality(f[k]) >= k
  <2>1. ~ (f[k] # S /\ Cardinality(f[k]) < k)
    BY <1>1, <1>7
  <2>2. Cardinality(f[k]) \in Nat
    BY <1>1, <1>6
  <2> QED
    BY <1>1, <2>1, <2>2
<1>9. f[k] \subseteq S /\ Cardinality(f[k]) <= k
      /\ (Cardinality(f[k]) = k => f[k] = S)
  <2>1. f[k] \subseteq S
    BY <1>1, <1>3
  <2> QED
    BY <2>1, FS_Subset DEF k
<1>10. Cardinality(f[k]) \in Nat
  BY <1>1, <1>6
<1>11. f[k] = S
  BY <1>1, <1>8, <1>9, <1>10
<1> QED
  BY <1>11 DEF k

-----------------------------------------------------------------------------
(* An order of the output.                                                 *)

\* Place of a resource of the output: a port just before its server.
OutRank(r) ==
    IF r.part = "main" /\ BindsTo(r.node) # NoNode THEN 10 * BindsTo(r.node) ELSE Rank(r)

\* The first requirement of a relation is among the requirements.
LEMMA FirstGiven ==
    ASSUME tpl \in Templates, NEW n \in Node, NEW relation,
           FirstTarget(n, relation) # NoNode
    PROVE  \E q \in DOMAIN tpl.reqs[n] :
                IsFirst(tpl, n, q, relation) /\ Target(n, q) = FirstTarget(n, relation)
<1> DEFINE related ==
        {q \in DOMAIN tpl.reqs[n] : tpl.reqs[n][q].relation = relation}
<1>1. tpl.reqs[n] \in Seq(Requirement)
  BY TemplateFacts
<1>2. related # {} /\ related \in SUBSET Nat
  BY <1>1 DEF FirstTarget
<1>3. FirstTarget(n, relation) =
            Target(n, CHOOSE q \in related : \A o \in related : q <= o)
  BY <1>2 DEF FirstTarget
<1>4. PICK q \in related : /\ \A o \in related : q <= o
                           /\ FirstTarget(n, relation) = Target(n, q)
  <2> HIDE DEF related
  <2>1. \E q \in related : \A o \in related : q <= o
    BY <1>2, MinProperty
  <2> QED
    BY <1>3, <2>1
<1>5. ASSUME NEW o \in 1..(q - 1), tpl.reqs[n][o].relation = relation PROVE FALSE
  <2>1. o \in DOMAIN tpl.reqs[n] /\ o \in Nat /\ q \in Nat /\ o < q
    BY <1>1
  <2>2. q <= o
    BY <1>4, <1>5, <2>1
  <2> QED
    BY <2>1, <2>2
<1> QED
  BY <1>4, <1>5 DEF IsFirst

\* The place of a resource in the output is at most its rank.
LEMMA OutRankBounds ==
    ASSUME tpl \in Templates, NEW r \in Resource
    PROVE  /\ OutRank(r) \in Nat /\ Rank(r) \in Nat /\ OutRank(r) <= Rank(r)
           /\ Rank(r) <= 10 * r.node + 7 /\ r.node \in Node
<1>1. /\ r.node \in Node /\ PartRank(r) \in 1..7 /\ Rank(r) = 10 * r.node + PartRank(r)
  BY RankBounds
<1>2. r.node \in Nat
  BY <1>1 DEF Node
<1>3. Rank(r) \in Nat /\ 10 * r.node < Rank(r) /\ Rank(r) <= 10 * r.node + 7
  BY <1>1, <1>2
<1>4. CASE r.part = "main" /\ BindsTo(r.node) # NoNode
  <2>1. PICK q \in DOMAIN tpl.reqs[r.node] : Target(r.node, q) = BindsTo(r.node)
    BY <1>1, <1>4, FirstTargetKind
  <2>2. BindsTo(r.node) \in Node /\ BindsTo(r.node) < r.node
    BY <1>1, <2>1, TemplateFacts
  <2>3. OutRank(r) = 10 * BindsTo(r.node)
    BY <1>4 DEF OutRank
  <2>4. BindsTo(r.node) \in Nat
    BY <2>2 DEF Node
  <2>5. OutRank(r) \in Nat /\ OutRank(r) <= 10 * r.node
    BY <1>2, <2>2, <2>3, <2>4
  <2> QED
    BY <1>1, <1>2, <1>3, <2>5
<1>5. CASE ~ (r.part = "main" /\ BindsTo(r.node) # NoNode)
  <2>1. OutRank(r) = Rank(r)
    BY <1>5 DEF OutRank
  <2> QED
    BY <1>1, <1>3, <2>1
<1> QED
  BY <1>4, <1>5

\* A port of a server refers only to what can be created before the server.
LEMMA PortRanksDescend ==
    ASSUME PInv, PassOrderInv, PortInv, LinkInv, OutputInv, phase = "done",
           PortsFirst(tpl), NEW p \in Node, BindsTo(p) # NoNode,
           NEW d \in References(Main(p)), d \in Resource
    PROVE  OutRank(d) < OutRank(Main(p))
<1> DEFINE r == Main(p)
           s == BindsTo(p)
<1>1. /\ r \in Resource /\ r.node = p /\ r.part = "main" /\ tpl \in Templates
      /\ WellFormed(tpl) /\ Main(p) \in handled
  BY ResourceFacts, DoneFacts
<1>2. s \in Node /\ tpl.kind[s] = "compute" /\ tpl.kind[p] = "port"
  BY <1>1, FirstTargetKind
<1>3. OutRank(r) = 10 * s
  BY <1>1 DEF OutRank
<1>4. PICK b \in DOMAIN tpl.reqs[p] : IsFirst(tpl, p, b, "BindsTo") /\ Target(p, b) = s
  BY <1>1, FirstGiven DEF BindsTo
<1>5. /\ Declared(s) = {}
      /\ \A q \in DOMAIN tpl.reqs[p] : Target(p, q) <= s
  BY <1>4 DEF PortsFirst, Declared, ToSet, Target
<1>6. /\ RunsOn(r) = {}
      /\ \A m \in {LinksTo(p), s} \ {NoNode} : Main(m) \notin ToSet(dependsOn[r])
  BY <1>1, <1>2 DEF OutputInv, PortsReleased, Released
<1>7. networks[p] = <<>>
  BY <1>2 DEF OutputInv, ServersOnly
<1> HIDE DEF r, s
<1>8. ASSUME NEW t \in Node, t < s, d.node = t PROVE OutRank(d) < OutRank(r)
  <2>1. s \in Nat /\ t \in Nat
    BY <1>2 DEF Node
  <2>2. /\ OutRank(d) \in Nat /\ Rank(d) \in Nat /\ OutRank(d) <= Rank(d)
        /\ Rank(d) <= 10 * d.node + 7
    BY <1>1, OutRankBounds
  <2>3. OutRank(d) <= 10 * t + 7
    BY <1>8, <2>1, <2>2
  <2> QED
    BY <1>3, <1>8, <2>1, <2>2, <2>3
<1>9. CASE d \in ToSet(dependsOn[r])
  <2>1. Because(r, d)
    BY <1>1, <1>9 DEF LinkInv, DependenciesGiven
  <2>2. Deployments(p) = {}
    BY <1>1, <1>2 DEF WellFormed, Deployments, OpDeploys, Declared, ToSet
  <2>3. PICK q \in DOMAIN tpl.reqs[p] :
            /\ Target(p, q) = d.node
            /\ IsEnd(d.node) /\ Declared(d.node) = {} => d = Main(d.node)
    BY <1>1, <2>1, <2>2 DEF Because
  <2>4. d.node \in Node /\ d.node <= s
    BY <1>1, <1>5, <2>3, ResourceNode
  <2>5. d.node # s
    <3> SUFFICES ASSUME d.node = s PROVE FALSE
      OBVIOUS
    <3>1. d = Main(s)
      BY <1>2, <1>5, <2>3 DEF IsEnd
    <3>2. s # NoNode
      BY <1>2 DEF Node, NoNode
    <3> QED
      BY <1>6, <1>9, <3>1, <3>2
  <2>6. d.node < s
    BY <1>2, <2>4, <2>5 DEF Node
  <2> QED
    BY <1>8, <2>4, <2>6 DEF r
<1>10. CASE d \in PropertyReferences(r)
  <2>1. \A n : n \notin ToSet(networks[p])
    BY <1>7 DEF ToSet
  <2>2. linked[p] # NoNode /\ d = Main(linked[p])
    BY <1>1, <1>10, <2>1 DEF PropertyReferences
  <2>3. linked[p] = LinksTo(p) /\ LinksTo(p) # NoNode
    BY <2>2 DEF OutputInv, LinkedWritten
  <2>4. PICK q \in DOMAIN tpl.reqs[p] : Target(p, q) = LinksTo(p)
    BY <1>1, <2>3, FirstTargetKind
  <2>5. LinksTo(p) \in Node /\ tpl.kind[LinksTo(p)] = "network"
    BY <1>1, <2>3, FirstTargetKind
  <2>6. LinksTo(p) <= s /\ LinksTo(p) # s
    BY <1>2, <1>5, <2>4, <2>5
  <2>7. LinksTo(p) < s
    BY <1>2, <2>5, <2>6 DEF Node
  <2>8. d.node = LinksTo(p)
    BY <2>2, <2>3 DEF Main
  <2> QED
    BY <1>8, <2>5, <2>7, <2>8 DEF r
<1>11. d \in ToSet(dependsOn[r]) \/ d \in PropertyReferences(r)
  BY <1>6 DEF References, WaitsFor, r
<1> QED
  BY <1>9, <1>10, <1>11 DEF r

\* The resource of a node comes before its operations.
LEMMA MainPartRank == \A n : PartRank(Main(n)) <= 3
<1> SUFFICES ASSUME NEW n PROVE PartRank(Main(n)) <= 3
  OBVIOUS
<1>1. Main(n).part = "main"
  BY DEF Main
<1>2. PartRank(Main(n)) = IF tpl.kind[Main(n).node] = "compute" THEN 1 ELSE 3
  BY <1>1 DEF PartRank, Operation
<1> QED
  BY <1>2

\* A resource that is no port of a server.
LEMMA OtherRanksDescend ==
    ASSUME PInv, PassOrderInv, PortInv, OutputInv, phase = "done",
           NEW r \in Output, ~ (r.part = "main" /\ BindsTo(r.node) # NoNode),
           NEW d \in References(r), d \in Resource
    PROVE  OutRank(d) < OutRank(r)
<1>1. /\ r \in Resource /\ r \in Listed /\ r.node \in Node /\ tpl \in Templates
      /\ WellFormed(tpl) /\ \A n \in Node : Main(n) \in handled
  BY DoneFacts, ResourceNode DEF Output
<1>2. /\ OutRank(r) = Rank(r) /\ PartRank(r) \in 1..7
      /\ Rank(r) = 10 * r.node + PartRank(r) /\ r.node \in Nat
  BY <1>1, RankBounds DEF OutRank, Node
<1>3. /\ OutRank(d) \in Nat /\ Rank(d) \in Nat /\ OutRank(d) <= Rank(d)
      /\ Rank(d) <= 10 * d.node + 7 /\ d.node \in Nat
  BY <1>1, OutRankBounds DEF Node
<1>4. CASE d \in WaitsFor(r)
  <2>1. Rank(d) < Rank(r)
    BY <1>1, <1>4, RanksDescend DEF PInv, NoCircularDependency
  <2> QED
    BY <1>2, <1>3, <2>1
<1>5. ASSUME d.node < r.node PROVE OutRank(d) < OutRank(r)
  BY <1>2, <1>3, <1>5
<1>6. CASE r.part = "attachment" /\ d \in PropertyReferences(r)
  <2>1. r.req \in DOMAIN tpl.reqs[r.node] /\ PartRank(r) = 7
    BY <1>1, <1>6 DEF OutputInv, AttachmentsListed, PartRank, Operation
  <2>2. d = Main(r.node) \/ d = Main(Target(r.node, r.req))
    BY <1>6 DEF PropertyReferences
  <2>3. CASE d = Main(r.node)
    <3>1. d.node = r.node /\ PartRank(d) <= 3
      BY <2>3, MainPartRank DEF Main
    <3>2. Rank(d) <= 10 * r.node + 3
      BY <1>2, <1>3, <3>1, RankBounds
    <3> QED
      BY <1>2, <1>3, <2>1, <3>2
  <2>4. CASE d = Main(Target(r.node, r.req))
    <3>1. d.node < r.node
      BY <1>1, <2>1, <2>4, TemplateFacts DEF Main
    <3> QED
      BY <1>5, <3>1
  <2> QED
    BY <2>2, <2>3, <2>4
<1>7. CASE r.part = "subnet" /\ d \in PropertyReferences(r)
  <2>1. PartRank(r) = 7 /\ d = Main(r.node)
    BY <1>7 DEF PropertyReferences, PartRank, Operation
  <2>2. d.node = r.node /\ PartRank(d) <= 3
    BY <2>1, MainPartRank DEF Main
  <2>3. Rank(d) <= 10 * r.node + 3
    BY <1>2, <1>3, <2>2, RankBounds
  <2> QED
    BY <1>2, <1>3, <2>1, <2>3
<1>8. CASE r.part = "main" /\ d \in PropertyReferences(r)
  <2>1. \/ \E n \in ToSet(networks[r.node]) : d = Main(n)
        \/ linked[r.node] # NoNode /\ d = Main(linked[r.node])
    BY <1>8 DEF PropertyReferences
  <2>2. CASE \E n \in ToSet(networks[r.node]) : d = Main(n)
    <3>1. PICK n \in ToSet(networks[r.node]) : d = Main(n)
      BY <2>2
    <3>2. tpl.kind[r.node] = "compute"
      BY <1>1, <3>1 DEF OutputInv, ServersOnly, ToSet
    <3>3. n \in HandledPorts(r.node)
      BY <1>1, <3>1, <3>2 DEF PortInv, PortsKept
    <3>4. BindsTo(n) = r.node /\ r.node # NoNode
      BY <1>1, <3>3 DEF HandledPorts, Node, NoNode
    <3>5. d.node = n /\ d.part = "main"
      BY <3>1 DEF Main
    <3>6. OutRank(d) = 10 * r.node
      BY <3>4, <3>5 DEF OutRank
    <3> QED
      BY <1>2, <3>6
  <2>3. CASE linked[r.node] # NoNode /\ d = Main(linked[r.node])
    <3>1. linked[r.node] = LinksTo(r.node)
      BY <1>1, <2>3 DEF OutputInv, LinkedWritten
    <3>2. PICK q \in DOMAIN tpl.reqs[r.node] : Target(r.node, q) = LinksTo(r.node)
      BY <1>1, <2>3, <3>1, FirstTargetKind
    <3>3. d.node < r.node
      BY <1>1, <2>3, <3>1, <3>2, TemplateFacts DEF Main
    <3> QED
      BY <1>5, <3>3
  <2> QED
    BY <2>1, <2>2, <2>3
<1>9. \/ d \in WaitsFor(r)
      \/ d \in PropertyReferences(r) /\ r.part \in {"attachment", "subnet", "main"}
  BY DEF References, PropertyReferences
<1> QED
  BY <1>4, <1>6, <1>7, <1>8, <1>9

\* The output is finite: a list holds it.
LEMMA OutputFinite == TypeOK => IsFiniteSet(Output)
<1> SUFFICES ASSUME TypeOK PROVE IsFiniteSet(Output)
  OBVIOUS
<1>1. resources \in Seq(Resource)
  BY DEF TypeOK
<1>2. Len(resources) \in Nat /\ resources \in Surjection(1..Len(resources), ToSet(resources))
  BY <1>1 DEF Surjection, ToSet
<1>3. IsFiniteSet(ToSet(resources))
  BY <1>2, FS_NatSurjection DEF ExistsSurjection
<1> QED
  BY <1>3, FS_Subset DEF Output

\* CreatedIn is a function of the rounds.
LEMMA CreatedInRounds ==
    ASSUME NEW k \in Nat, NEW S, S = Output,
           NEW refs, refs = [r \in S |-> References(r) \cap S]
    PROVE  \E f : IsRounds(S, refs, k, f) /\ CreatedIn(k) = f[k]
<1> DEFINE Step_(f, i) ==
                IF i = 0 THEN {} ELSE {r \in Output : References(r) \cap Output \subseteq f[i - 1]}
           grown == CHOOSE f : f = [i \in 0..k |-> Step_(f, i)]
<1>1. CreatedIn(k) = grown[k]
  BY DEF CreatedIn
<1>2. \A f, i : Step_(f, i) = Round(S, refs, f, i)
  BY DEF Round
<1>3. \E f : f = [i \in 0..k |-> Step_(f, i)]
  <2>1. PICK f : IsRounds(S, refs, k, f)
    BY RoundsExist
  <2>2. f = [i \in 0..k |-> Step_(f, i)]
    <3> HIDE DEF Step_
    <3> QED
      BY <1>2, <2>1 DEF IsRounds
  <2> QED
    BY <2>2
<1>4. grown = [i \in 0..k |-> Step_(grown, i)]
  <2> HIDE DEF Step_
  <2> QED
    BY <1>3
<1> HIDE DEF grown
<1>5. grown = [i \in 0..k |-> Round(S, refs, grown, i)]
  <2> HIDE DEF Step_
  <2> QED
    BY <1>2, <1>4
<1> QED
  BY <1>1, <1>5 DEF IsRounds

\* Where a server of ports has no operations, and its ports require nothing that
\* comes after it, the references of the output form no cycle, although a server
\* refers to its ports and the ports require the server.
THEOREM OutputIsAcyclic ==
    ASSUME \A t \in Templates : PortsFirst(t)
    PROVE  PassSpec => []OutputAcyclic
<1>1. PInv /\ PassOrderInv /\ PortInv /\ LinkInv /\ OutputInv => OutputAcyclic
  <2> SUFFICES ASSUME PInv, PassOrderInv, PortInv, LinkInv, OutputInv, phase = "done"
               PROVE  CreatedIn(Cardinality(Output)) = Output
    BY DEF OutputAcyclic
  <2>1. /\ Output \subseteq Resource /\ tpl \in Templates /\ PortsFirst(tpl)
    BY DoneFacts DEF Output
  <2>2. IsFiniteSet(Output) /\ Cardinality(Output) \in Nat
    BY OutputFinite, FS_CardinalityType DEF PInv, IInv
  <2>3. PICK S, refs, rank :
            /\ S = Output /\ refs = [r \in S |-> References(r) \cap S]
            /\ rank = [r \in S |-> OutRank(r)]
    OBVIOUS
  <2>4. \A r \in S : refs[r] \subseteq S /\ rank[r] \in Nat
    BY <2>1, <2>3, OutRankBounds
  <2>5. ASSUME NEW r \in S, NEW d \in refs[r] PROVE rank[d] < rank[r]
    <3>1. /\ r \in Output /\ d \in Output /\ d \in References(r) /\ d \in Resource
          /\ r \in Resource /\ rank[d] = OutRank(d) /\ rank[r] = OutRank(r)
      BY <2>1, <2>3, <2>5
    <3>2. CASE r.part = "main" /\ BindsTo(r.node) # NoNode
      <4>1. r.node \in Node /\ r = Main(r.node)
        BY <3>1, <3>2, ResourceNode DEF Resource, Operation, Main
      <4> QED
        BY <2>1, <3>1, <3>2, <4>1, PortRanksDescend
    <3>3. CASE ~ (r.part = "main" /\ BindsTo(r.node) # NoNode)
      BY <3>1, <3>3, OtherRanksDescend
    <3> QED
      BY <3>2, <3>3
  <2>6. PICK f : /\ IsRounds(S, refs, Cardinality(S), f)
                 /\ CreatedIn(Cardinality(S)) = f[Cardinality(S)]
    BY <2>2, <2>3, CreatedInRounds
  <2>7. f[Cardinality(S)] = S
    BY <2>2, <2>3, <2>4, <2>5, <2>6, RoundsReachAll
  <2> QED
    BY <2>3, <2>6, <2>7
<1> QED
  BY <1>1, PassInvariance, PassOrderInvariance, PortInvariance, OutputInvariance, PTL

-----------------------------------------------------------------------------
(* HostsIn, unfolded.                                                      *)

\* What HostsIn computes, one step of it.
HostsStep(t, hosts, m) ==
    IF t.kind[m] = "compute" THEN {m}
    ELSE UNION {hosts[t.reqs[m][q].target] : q \in
            {p \in DOMAIN t.reqs[m] : t.reqs[m][p].relation = "HostedOn"}}

\* The recursive function of HostsIn exists: requirements point to earlier nodes.
LEMMA HostsExist ==
    ASSUME NEW t \in Templates
    PROVE  \E f : f = [m \in Node |-> HostsStep(t, f, m)]
<1> DEFINE Up_(k) == \E f : f = [m \in 1..k |-> HostsStep(t, f, m)]
           bad == {k \in Nat : k <= NumNodes /\ ~ Up_(k)}
<1>1. \A m \in Node : \A q \in DOMAIN t.reqs[m] :
            t.reqs[m][q].target \in Node /\ t.reqs[m][q].target < m
  <2>1. WellFormed(t)
    BY TemplatesAssumption
  <2>2. \A m \in Node : t.reqs[m] \in Seq(Requirement)
    BY <2>1 DEF WellFormed, Template
  <2>3. \A m \in Node : \A q \in DOMAIN t.reqs[m] :
            q \in 1..Len(t.reqs[m]) /\ t.reqs[m][q] \in Requirement
    BY <2>2
  <2> QED
    BY <2>1, <2>3 DEF WellFormed, Requirement
<1>2. NumNodes \in Nat
  BY BoundsAssumption
<1>3. ASSUME NEW k \in Nat, k > 0, k <= NumNodes, Up_(k - 1) PROVE Up_(k)
  <2>1. PICK f : f = [m \in 1..(k - 1) |-> HostsStep(t, f, m)]
    BY <1>3
  <2> DEFINE g == [m \in 1..k |-> IF m < k THEN f[m] ELSE HostsStep(t, f, k)]
  <2>2. ASSUME NEW m \in 1..k PROVE HostsStep(t, g, m) = HostsStep(t, f, m)
    <3>1. m \in Node
      BY <1>2, <1>3 DEF Node
    <3>2. \A q \in DOMAIN t.reqs[m] : g[t.reqs[m][q].target] = f[t.reqs[m][q].target]
      <4> SUFFICES ASSUME NEW q \in DOMAIN t.reqs[m]
                   PROVE  g[t.reqs[m][q].target] = f[t.reqs[m][q].target]
        OBVIOUS
      <4>1. t.reqs[m][q].target \in 1..k /\ t.reqs[m][q].target < k
        BY <1>1, <1>2, <1>3, <3>1 DEF Node
      <4> QED
        BY <4>1
    <3> HIDE DEF g
    <3> QED
      BY <3>2 DEF HostsStep
  <2>3. ASSUME NEW m \in 1..k PROVE g[m] = HostsStep(t, f, m)
    <3>1. CASE m < k
      <4>1. m \in 1..(k - 1)
        BY <1>3, <3>1
      <4>2. f[m] = HostsStep(t, f, m)
        <5> HIDE DEF g
        <5> QED
          BY <2>1, <4>1
      <4> QED
        BY <3>1, <4>2
    <3>2. CASE m = k
      BY <3>2
    <3> QED
      BY <1>3, <3>1, <3>2
  <2>4. g = [m \in 1..k |-> HostsStep(t, g, m)]
    <3>1. \A m \in 1..k : g[m] = HostsStep(t, g, m)
      BY <2>2, <2>3
    <3>2. g = [m \in 1..k |-> g[m]]
      OBVIOUS
    <3> HIDE DEF g
    <3> QED
      BY <3>1, <3>2
  <2> QED
    BY <2>4
<1>4. Up_(0)
  <2>1. 1..0 = {}
    OBVIOUS
  <2> DEFINE g == [m \in 1..0 |-> {}]
  <2>2. g = [m \in 1..0 |-> HostsStep(t, g, m)]
    BY <2>1
  <2> QED
    BY <2>2
<1> HIDE DEF Up_
<1>5. bad = {}
  <2> SUFFICES ASSUME bad # {} PROVE FALSE
    OBVIOUS
  <2>1. bad \in SUBSET Nat
    OBVIOUS
  <2> DEFINE k == Min(bad)
  <2>2. k \in bad /\ \A y \in bad : k <= y
    <3> HIDE DEF bad
    <3> QED
      BY <2>1, MinProperty
  <2> HIDE DEF k
  <2>3. k \in Nat /\ k <= NumNodes /\ ~ Up_(k)
    BY <2>2
  <2>4. k > 0
    BY <1>4, <2>3
  <2>5. k - 1 \in Nat /\ k - 1 <= NumNodes /\ ~ (k <= k - 1)
    BY <1>2, <2>3, <2>4
  <2>6. Up_(k - 1)
    BY <2>2, <2>5
  <2> QED
    BY <1>3, <2>3, <2>4, <2>6
<1>6. Up_(NumNodes)
  BY <1>2, <1>5
<1> QED
  BY <1>6 DEF Up_, Node

\* HostsIn is the step of it over itself.
LEMMA HostsUnfold ==
    ASSUME NEW t \in Templates, NEW n \in Node
    PROVE  HostsIn(t, n) =
                IF t.kind[n] = "compute" THEN {n}
                ELSE UNION {HostsIn(t, t.reqs[n][q].target) : q \in
                        {p \in DOMAIN t.reqs[n] : t.reqs[n][p].relation = "HostedOn"}}
<1> DEFINE hosts == CHOOSE f : f = [m \in Node |-> HostsStep(t, f, m)]
<1>1. \A m : HostsIn(t, m) = hosts[m]
  BY DEF HostsIn, HostsStep
<1>2. hosts = [m \in Node |-> HostsStep(t, hosts, m)]
  BY HostsExist
<1> HIDE DEF hosts
<1>3. hosts[n] = HostsStep(t, hosts, n)
  BY <1>2
<1> QED
  BY <1>1, <1>3 DEF HostsStep

-----------------------------------------------------------------------------
(* The search of the hosting server in a template of Hostable.             *)

\* A software component that is hosted somewhere.
Component(n) == tpl.kind[n] = "software" /\ HostRequirements(tpl, n) # {}

Hosted(n) == tpl.kind[n] = "compute" \/ Component(n)

\* The attributes of a deployment for those servers.
HostAttributes(S) ==
    IF Cardinality(S) = 1
    THEN [Blank(SD) EXCEPT !.server = Reference(S)]
    ELSE [Blank(SDGroup) EXCEPT !.servers = ServerMap(S)]

\* A component hosted on servers: the search ends at it, and finds them.
LEMMA OnServersFacts ==
    ASSUME tpl \in Templates, NEW n \in Node, Component(n), OnServers(tpl, n)
    PROVE  /\ ~ Redirected(n)
           /\ Containers(n) # {}
           /\ Containers(n) = HostRequirements(tpl, n)
           /\ HostServers(n) = {Target(n, q) : q \in Containers(n)}
           /\ Deployment(n) = HostAttributes(HostServers(n))
<1>1. /\ Containers(n) = HostRequirements(tpl, n) /\ Containers(n) # {}
      /\ \A q \in Containers(n) : q \in DOMAIN tpl.reqs[n] /\ IsContainer(n, q)
  BY DEF OnServers, Component, Containers, IsContainer, Target
<1>2. \A q \in DOMAIN tpl.reqs[n] :
        q \in 1..MaxRequirements /\ Target(n, q) \in Node
  BY TemplateFacts
<1>3. ~ Redirected(n)
  <2> SUFFICES ASSUME NEW q \in DOMAIN tpl.reqs[n], Redirects(n, q)
               PROVE  FALSE
    BY DEF Redirected
  <2>1. /\ ~ IsContainer(n, q) /\ tpl.reqs[Target(n, q)] # <<>>
        /\ \A p \in 1..(q - 1) : ~ IsContainer(n, p)
    BY DEF Redirects
  <2>2. \A h \in Containers(n) : q < h
    BY <1>1, <1>2, <2>1, BoundsAssumption
  <2>3. PassedOver(tpl, n, q)
    BY <1>1, <2>2 DEF OnServers
  <2> QED
    BY <2>1, <2>3 DEF PassedOver, Target
<1>4. \A q \in Containers(n) : HostsIn(tpl, Target(n, q)) = {Target(n, q)}
  BY <1>1, <1>2, HostsUnfold DEF IsContainer
<1>5. HostServers(n) = {Target(n, q) : q \in Containers(n)}
  <2>1. HostsIn(tpl, n) = UNION {HostsIn(tpl, Target(n, q)) : q \in Containers(n)}
    BY <1>1, HostsUnfold DEF Component, HostRequirements, Target
  <2> QED
    BY <1>4, <2>1 DEF HostServers
<1>6. \A p, q \in Containers(n) : Target(n, p) = Target(n, q) => p = q
  BY <1>1 DEF OnServers, Target
<1>7. Cardinality(Containers(n)) = 1 <=> Cardinality(HostServers(n)) = 1
  <2>1. IsFiniteSet(Containers(n))
    <3>1. Containers(n) \subseteq 1..MaxRequirements
      BY <1>1, <1>2
    <3>2. IsFiniteSet(1..MaxRequirements)
      BY FS_Interval, BoundsAssumption
    <3> QED
      BY <3>1, <3>2, FS_Subset
  <2>2. IsFiniteSet(HostServers(n))
    <3>1. HostServers(n) \subseteq 1..NumNodes
      BY <1>1, <1>2, <1>5 DEF Node
    <3>2. IsFiniteSet(1..NumNodes)
      BY FS_Interval, BoundsAssumption
    <3> QED
      BY <3>1, <3>2, FS_Subset
  <2>3. Cardinality(Containers(n)) = 1 <=> \E q : Containers(n) = {q}
    BY <2>1, FS_Singleton
  <2>4. Cardinality(HostServers(n)) = 1 <=> \E s : HostServers(n) = {s}
    BY <2>2, FS_Singleton
  <2>5. ASSUME NEW q, Containers(n) = {q}
        PROVE  HostServers(n) = {Target(n, q)}
    BY <1>5, <2>5
  <2>6. ASSUME NEW s, HostServers(n) = {s}
        PROVE  \E q : Containers(n) = {q}
    <3>1. PICK q : q \in Containers(n)
      BY <1>1
    <3>2. \A p \in Containers(n) : Target(n, p) = s
      BY <1>5, <2>6
    <3>3. Containers(n) = {q}
      BY <1>6, <3>1, <3>2
    <3> QED
      BY <3>3
  <2> QED
    BY <2>3, <2>4, <2>5, <2>6
<1>8. Deployment(n) = HostAttributes(HostServers(n))
  BY <1>1, <1>5, <1>7 DEF Deployment, HostAttributes
<1> QED
  BY <1>1, <1>3, <1>5, <1>8

\* A component hosted on another: the search goes on there, for the same servers.
LEMMA OnComponentFacts ==
    ASSUME tpl \in Templates, NEW n \in Node, Component(n), OnComponent(tpl, n)
    PROVE  /\ Redirected(n)
           /\ \E h \in DOMAIN tpl.reqs[n] :
                /\ \A q \in DOMAIN tpl.reqs[n] : Redirects(n, q) => q = h
                /\ HostRequirements(tpl, n) = {h}
                /\ Target(n, h) < n /\ Component(Target(n, h))
                /\ HostServers(Target(n, h)) = HostServers(n)
<1>1. PICK h \in HostRequirements(tpl, n) :
        /\ HostRequirements(tpl, n) = {h}
        /\ tpl.kind[Target(n, h)] = "software"
        /\ HostRequirements(tpl, Target(n, h)) # {}
        /\ \A q \in 1..(h - 1) : PassedOver(tpl, n, q)
  BY DEF OnComponent, Target
<1>2. h \in DOMAIN tpl.reqs[n] /\ Component(Target(n, h))
  BY <1>1 DEF HostRequirements, Component
<1>3. /\ Target(n, h) \in Node /\ Target(n, h) < n
      /\ \A q \in DOMAIN tpl.reqs[n] : q \in 1..MaxRequirements
      /\ tpl.reqs[Target(n, h)] # <<>>
  <2>1. PICK p : p \in DOMAIN tpl.reqs[Target(n, h)]
    BY <1>1 DEF HostRequirements
  <2> QED
    BY <1>2, <2>1, TemplateFacts
<1>4. ASSUME NEW q \in DOMAIN tpl.reqs[n], Redirects(n, q)
      PROVE  q = h
  <2>1. /\ ~ IsContainer(n, q) /\ tpl.reqs[Target(n, q)] # <<>>
        /\ \A p \in 1..(q - 1) : tpl.reqs[Target(n, p)] = <<>>
    BY <1>4 DEF Redirects
  <2>2. ~ (h < q)
    BY <1>2, <1>3, <2>1, BoundsAssumption
  <2>3. ~ (q < h)
    <3> SUFFICES ASSUME q < h PROVE FALSE
      OBVIOUS
    <3>1. q \in 1..(h - 1)
      BY <1>2, <1>3, BoundsAssumption
    <3>2. PassedOver(tpl, n, q)
      BY <1>1, <3>1
    <3> QED
      BY <2>1, <3>2 DEF PassedOver, Target
  <2> QED
    BY <1>2, <1>3, <2>2, <2>3, BoundsAssumption
<1>5. Redirects(n, h)
  <2>1. ~ IsContainer(n, h)
    BY <1>1 DEF IsContainer
  <2>2. \A p \in 1..(h - 1) : ~ IsContainer(n, p) /\ tpl.reqs[Target(n, p)] = <<>>
    BY <1>1 DEF PassedOver, IsContainer, Target
  <2> QED
    BY <1>3, <2>1, <2>2 DEF Redirects
<1>6. HostServers(Target(n, h)) = HostServers(n)
  <2>1. HostsIn(tpl, n) = UNION {HostsIn(tpl, Target(n, q)) : q \in {h}}
    BY <1>1, HostsUnfold DEF Component, HostRequirements, Target
  <2> QED
    BY <2>1 DEF HostServers
<1> QED
  BY <1>1, <1>2, <1>3, <1>4, <1>5, <1>6 DEF Redirected

\* Every component in a template of Hostable is one or the other.
LEMMA ComponentCases ==
    ASSUME tpl \in Templates, Hostable(tpl), NEW n \in Node, Component(n)
    PROVE  OnServers(tpl, n) \/ OnComponent(tpl, n)
  BY DEF Hostable, Component

\* A hosted node has servers, all Compute nodes.
LEMMA HostServersFacts ==
    ASSUME tpl \in Templates, Hostable(tpl), NEW n \in Node, Hosted(n)
    PROVE  /\ HostServers(n) \subseteq {s \in Node : tpl.kind[s] = "compute"}
           /\ HostServers(n) # {}
           /\ IsFiniteSet(HostServers(n))
           /\ tpl.kind[n] = "compute" => HostServers(n) = {n}
<1> DEFINE Found(m) == /\ HostServers(m) \subseteq {s \in Node : tpl.kind[s] = "compute"}
                       /\ HostServers(m) # {}
           bad == {m \in Node : Component(m) /\ ~ Found(m)}
<1>1. bad = {}
  <2> SUFFICES ASSUME bad # {} PROVE FALSE
    OBVIOUS
  <2>1. bad \in SUBSET Nat
    BY DEF Node
  <2> DEFINE m == Min(bad)
  <2>2. m \in bad /\ \A y \in bad : m <= y
    <3> HIDE DEF bad
    <3> QED
      BY <2>1, MinProperty
  <2> HIDE DEF m
  <2>3. m \in Node /\ Component(m) /\ ~ Found(m)
    BY <2>2
  <2>4. CASE OnServers(tpl, m)
    <3>1. HostServers(m) = {Target(m, q) : q \in Containers(m)} /\ Containers(m) # {}
      BY <2>3, <2>4, OnServersFacts
    <3>2. \A q \in Containers(m) :
            Target(m, q) \in Node /\ tpl.kind[Target(m, q)] = "compute"
      BY <2>3, TemplateFacts DEF Containers, IsContainer
    <3> QED
      BY <2>3, <3>1, <3>2
  <2>5. CASE OnComponent(tpl, m)
    <3>1. PICK h \in DOMAIN tpl.reqs[m] :
            /\ Target(m, h) < m /\ Component(Target(m, h))
            /\ HostServers(Target(m, h)) = HostServers(m)
      BY <2>3, <2>5, OnComponentFacts
    <3>2. Target(m, h) \in Node
      BY <2>3, TemplateFacts
    <3>3. ~ (m <= Target(m, h))
      BY <2>3, <3>1, <3>2 DEF Node
    <3>4. Found(Target(m, h))
      BY <2>2, <3>1, <3>2, <3>3
    <3> QED
      BY <2>3, <3>1, <3>4
  <2> QED
    BY <2>3, <2>4, <2>5, ComponentCases
<1>2. tpl.kind[n] = "compute" => HostServers(n) = {n}
  BY HostsUnfold DEF HostServers
<1>3. Found(n)
  BY <1>1, <1>2 DEF Hosted
<1>4. IsFiniteSet(HostServers(n))
  <2>1. IsFiniteSet(1..NumNodes)
    BY FS_Interval, BoundsAssumption
  <2> QED
    BY <1>3, <2>1, FS_Subset DEF Node
<1> QED
  BY <1>2, <1>3, <1>4

\* A node that runs something is hosted; a Compute then runs it itself, and a
\* node a ConnectsTo configures is a component.
LEMMA RunningHosted ==
    ASSUME tpl \in Templates, Hostable(tpl), NEW n \in Node
    PROVE  /\ Declared(n) # {} \/ tpl.roles[n] =>
                \/ Component(n)
                \/ /\ tpl.kind[n] = "compute"
                   /\ Containers(n) = {} /\ ~ Redirected(n)
           /\ Configured(tpl, n) => Component(n)
<1>1. Declared(n) # {} => tpl.ops[n] # <<>>
  BY DEF Declared, ToSet
<1>2. ASSUME \A q \in DOMAIN tpl.reqs[n] : PassedOver(tpl, n, q)
      PROVE  Containers(n) = {} /\ ~ Redirected(n)
  BY <1>2 DEF Containers, IsContainer, Redirected, Redirects, PassedOver, Target
<1> QED
  BY <1>1, <1>2 DEF Hostable, Component

-----------------------------------------------------------------------------
(* The invariant: where deployments run.                                   *)

Runs(n) == Declared(n) # {} \/ tpl.roles[n]

\* The search that is under way has the servers of the node it began at.
SearchKeepsServers ==
    visiting # NoNode =>
        /\ phase = "lifecycle" /\ Runs(AtResource.node) =>
            /\ tpl.kind[AtResource.node] # "compute" /\ Component(visiting)
            /\ HostServers(visiting) = HostServers(AtResource.node)
        /\ phase = "connect" =>
            /\ Component(visiting)
            /\ HostServers(visiting) = HostServers(ConnectEnd)

\* The node a ConnectsTo configures, as ConnectEnd has it.
EndOf(n, q) ==
    IF tpl.reqs[n][q].configures = "target" THEN Target(n, q) ELSE n

\* The node whose servers deployment r is for.
PlaceOf(r) == IF r.part = "connect" THEN EndOf(r.node, r.req) ELSE r.node

\* handle_hosting of r has returned.
Settled(r) ==
    \/ phase \in {"remove", "done"}
    \/ phase = "hosting" /\ \E i \in DOMAIN resources : i < pos /\ resources[i] = r

\* The attributes of r are for the servers S; pass "depend" may have added one
\* of them, until handle_hosting drops it again.
PlacedOn(r, S) ==
    \/ hot[r] = HostAttributes(S)
    \/ /\ ~ Settled(r)
       /\ \E s \in S : hot[r] = [HostAttributes(S) EXCEPT !.server = Reference({s})]

Placed(r) ==
    /\ r.part \in Operation \cup {"main", "roles", "connect"}
    /\ r.part = "main" => Component(r.node)
    /\ PlaceOf(r) \in Node /\ Hosted(PlaceOf(r))
    /\ PlacedOn(r, HostServers(PlaceOf(r)))

DeploymentsPlaced == \A r \in Resource : IsDeployment(r) => Placed(r)

NoneYet == phase = "nodes" => \A r \in Resource : ~ IsDeployment(r)

\* Requirement q of node n went through pass "connect".
ConnectDone(n, q) ==
    \/ phase \in {"depend", "hosting"} \cup Removing
    \/ /\ phase = "connect"
       /\ \E i \in DOMAIN tpl.listing :
            tpl.listing[i] = n /\ (i < pos \/ (i = pos /\ q < req))

ConnectsDeployed ==
    \A n \in Node : \A q \in DOMAIN tpl.reqs[n] :
        ConnectDone(n, q) /\ tpl.reqs[n][q].configures # "nothing" =>
            IsDeployment(Connect(n, q))

HostInv == SearchKeepsServers /\ DeploymentsPlaced /\ NoneYet /\ ConnectsDeployed

-----------------------------------------------------------------------------
(* The passes of NodeTranslation keep the invariant.                       *)

\* What the invariant reads off the template stays.
LEMMA SameHosts ==
    ASSUME UNCHANGED tpl
    PROVE  /\ \A n : /\ HostServers(n)' = HostServers(n)
                     /\ Component(n)' <=> Component(n)
                     /\ Hosted(n)' <=> Hosted(n)
                     /\ Runs(n)' <=> Runs(n)
           /\ \A n, q : EndOf(n, q)' = EndOf(n, q)
           /\ \A r : PlaceOf(r)' = PlaceOf(r)
<1>1. \A n : HostServers(n)' = HostServers(n)
  BY DEF HostServers
<1>2. \A n : Component(n)' <=> Component(n)
  BY DEF Component
<1>3. \A n : Hosted(n)' <=> Hosted(n)
  BY <1>2 DEF Hosted
<1>4. \A n : Runs(n)' <=> Runs(n)
  BY DEF Runs, Declared
<1>5. \A n, q : EndOf(n, q)' = EndOf(n, q)
  BY DEF EndOf, Target
<1>6. \A r : PlaceOf(r)' = PlaceOf(r)
  BY <1>5 DEF PlaceOf
<1> QED
  BY <1>1, <1>2, <1>3, <1>4, <1>5, <1>6

\* A deployment that a step does not touch stays placed.
LEMMA StaysPlaced ==
    ASSUME UNCHANGED tpl, NEW r \in Resource, Placed(r), hot'[r] = hot[r],
           Settled(r)' => Settled(r)
    PROVE  Placed(r)'
<1>1. \A S : PlacedOn(r, S) => PlacedOn(r, S)'
  BY DEF PlacedOn
<1>2. /\ r.part \in Operation \cup {"main", "roles", "connect"}
      /\ r.part = "main" => Component(r.node)
      /\ PlaceOf(r) \in Node /\ Hosted(PlaceOf(r))
      /\ PlacedOn(r, HostServers(PlaceOf(r)))
  BY DEF Placed
<1>3. PlacedOn(r, HostServers(PlaceOf(r)))'
  <2>1. PICK S : S = HostServers(PlaceOf(r))
    OBVIOUS
  <2>2. PICK p : p = PlaceOf(r)
    OBVIOUS
  <2>3. S = HostServers(p)' /\ p = PlaceOf(r)'
    BY <2>1, <2>2, SameHosts
  <2>4. PlacedOn(r, S)'
    BY <1>1, <1>2, <2>1
  <2> QED
    BY <2>3, <2>4
<1>4. PlaceOf(r)' \in Node /\ Hosted(PlaceOf(r))'
  <2>1. PICK p : p = PlaceOf(r)
    OBVIOUS
  <2>2. p = PlaceOf(r)' /\ Hosted(p)'
    BY <1>2, <2>1, SameHosts
  <2> QED
    BY <1>2, <2>1, <2>2
<1> QED
  BY <1>2, <1>3, <1>4, SameHosts DEF Placed

\* A step that touches no deployment and finishes none.
LEMMA QuietHostStep ==
    ASSUME HostInv, UNCHANGED tpl,
           \A r \in Resource :
                /\ IsDeployment(r)' => IsDeployment(r)
                /\ IsDeployment(r) =>
                        hot'[r] = hot[r] /\ (Settled(r)' => Settled(r)),
           phase' = "nodes" => phase = "nodes",
           \A n \in Node : \A q \in DOMAIN tpl.reqs[n] :
                tpl.reqs[n][q].configures # "nothing" =>
                    Connect(n, q) \in Resource /\ (ConnectDone(n, q)' => ConnectDone(n, q)),
           SearchKeepsServers'
    PROVE  HostInv'
<1>1. DeploymentsPlaced'
  BY StaysPlaced DEF HostInv, DeploymentsPlaced
<1>2. NoneYet'
  BY DEF HostInv, NoneYet
<1>3. \A r \in Resource : IsDeployment(r) => IsDeployment(r)'
  BY DEF IsDeployment
<1>4. ConnectsDeployed'
  BY <1>3 DEF HostInv, ConnectsDeployed
<1> QED
  BY <1>1, <1>2, <1>4 DEF HostInv

\* The deployment of a ConnectsTo is a resource.
LEMMA ConnectResource ==
    ASSUME tpl \in Templates
    PROVE  \A n \in Node : \A q \in DOMAIN tpl.reqs[n] :
                Connect(n, q) \in Resource
  BY TemplateFacts, ResourceFacts

\* Pass "nodes".
LEMMA NodesHostStep ==
    ASSUME IInv, HostInv, CopyNode \/ AttachVolume
    PROVE  HostInv'
<1>1. /\ phase = "nodes" /\ phase' = "nodes" /\ tpl' = tpl
      /\ visiting' = NoNode
  BY DEF CopyNode, AttachVolume, AtRequirement, NextRequirement
<1>2. \A r \in Resource : ~ IsDeployment(r)
  BY <1>1 DEF HostInv, NoneYet
<1>3. \E r, type : /\ hot' = [hot EXCEPT ![r] = Blank(type)]
                   /\ type \notin {SD, SDGroup}
  <2>1. MainType(AtNode) \notin {SD, SDGroup}
    BY DEF MainType, SD, SDGroup
  <2>2. "OS::Cinder::VolumeAttachment" \notin {SD, SDGroup}
    BY DEF SD, SDGroup
  <2> QED
    BY <2>1, <2>2 DEF CopyNode, AttachVolume
<1>4. \A r \in Resource : ~ IsDeployment(r)'
  <2>1. hot \in [Resource -> HotAttributes]
    BY DEF IInv, TypeOK
  <2> QED
    BY <1>2, <1>3, <2>1 DEF IsDeployment, Blank
<1>5. SearchKeepsServers'
  BY <1>1 DEF SearchKeepsServers
<1>6. \A n \in Node : \A q \in DOMAIN tpl.reqs[n] : ~ ConnectDone(n, q)'
  BY <1>1 DEF ConnectDone, Removing
<1> QED
  BY <1>1, <1>2, <1>4, <1>5, <1>6, QuietHostStep, ConnectResource DEF IInv

\* The steps that only move on.
LEMMA CursorHostStep ==
    ASSUME IInv, HostInv,
           \/ SkipVolume \/ NextNode \/ FinishNodes \/ SkipAttachment
           \/ FinishLifeCycle \/ SkipConnect \/ FinishConnect
           \/ SkipRelated \/ FinishDepend \/ RaiseNoHost \/ FinishRemove
           \/ RemoveTypeless
    PROVE  HostInv'
<1>1. tpl' = tpl /\ hot' = hot
  BY DEF SkipVolume, NextNode, FinishNodes, SkipAttachment, FinishLifeCycle,
         SkipConnect, FinishConnect, SkipRelated, FinishDepend, RaiseNoHost,
         FinishRemove, RemoveTypeless
<1>2. visiting' = NoNode \/ phase' = "remove"
  BY DEF SkipVolume, NextNode, FinishNodes, SkipAttachment, FinishLifeCycle,
         SkipConnect, FinishConnect, SkipRelated, FinishDepend, RaiseNoHost,
         FinishRemove, RemoveTypeless, NextPosition, NextRequirement, EnterPhase,
         cursors
<1>3. phase' = "nodes" => phase = "nodes"
  BY DEF SkipVolume, NextNode, FinishNodes, SkipAttachment, FinishLifeCycle,
         SkipConnect, FinishConnect, SkipRelated, FinishDepend, RaiseNoHost,
         FinishRemove, RemoveTypeless, NextPosition, NextRequirement, EnterPhase,
         cursors
<1>4. \A r : Settled(r)' => Settled(r)
  <2>1. CASE FinishDepend
    <3>1. phase' = "hosting" /\ pos' = 1 /\ resources' = resources
      BY <2>1 DEF FinishDepend, EnterPhase
    <3>2. resources \in Seq(Resource)
      BY DEF IInv, TypeOK
    <3>3. \A i \in DOMAIN resources : ~ (i < 1)
      BY <3>2
    <3> QED
      BY <3>1, <3>3 DEF Settled
  <2>2. CASE FinishRemove \/ RemoveTypeless
    BY <2>2 DEF FinishRemove, RemoveTypeless, Settled
  <2>3. CASE \/ SkipVolume \/ NextNode \/ FinishNodes \/ SkipAttachment
             \/ FinishLifeCycle \/ SkipConnect \/ FinishConnect
             \/ SkipRelated \/ RaiseNoHost
    <3>1. phase' \notin {"hosting", "remove", "done"}
      BY <2>3 DEF SkipVolume, NextNode, FinishNodes, SkipAttachment, FinishLifeCycle,
         SkipConnect, FinishConnect, SkipRelated, RaiseNoHost, AtRequirement,
         NextPosition, NextRequirement, EnterPhase
    <3> QED
      BY <3>1 DEF Settled
  <2> QED
    BY <2>1, <2>2, <2>3
<1>5. ASSUME NEW n \in Node, NEW q \in DOMAIN tpl.reqs[n],
             tpl.reqs[n][q].configures # "nothing", ConnectDone(n, q)'
      PROVE  ConnectDone(n, q)
  <2>0. /\ q \in 1..Len(tpl.reqs[n]) /\ q \in Nat /\ Len(tpl.reqs[n]) \in Nat
        /\ pos \in Nat /\ req \in Nat /\ tpl.listing \in Seq(Node)
    <3>1. tpl.reqs[n] \in Seq(Requirement)
      BY TemplateFacts DEF IInv
    <3>2. tpl.listing \in Seq(Node)
      BY TemplateFacts DEF IInv, Template
    <3> QED
      BY <3>1, <3>2 DEF IInv, TypeOK
  <2>1. CASE SkipVolume \/ SkipAttachment \/ FinishNodes
    <3>1. phase' \in {"nodes", "lifecycle"}
      BY <2>1 DEF SkipVolume, SkipAttachment, FinishNodes, AtRequirement,
         NextPosition, NextRequirement, EnterPhase
    <3> QED
      BY <1>5, <3>1 DEF ConnectDone, Removing
  <2>2. CASE FinishLifeCycle
    <3>1. phase' = "connect" /\ pos' = 1 /\ req' = 1
      BY <2>2 DEF FinishLifeCycle, EnterPhase
    <3>2. \A i \in DOMAIN tpl.listing : i >= 1
      BY <2>0
    <3> QED
      BY <1>1, <1>5, <2>0, <3>1, <3>2 DEF ConnectDone, Removing
  <2>3. CASE NextNode /\ phase = "connect"
    <3>1. /\ phase' = "connect" /\ pos' = pos + 1 /\ req' = 1
          /\ req > Len(tpl.reqs[AtNode])
      BY <2>3 DEF NextNode, NextPosition
    <3>2. PICK i \in DOMAIN tpl.listing :
            tpl.listing[i] = n /\ (i < pos + 1 \/ (i = pos + 1 /\ q < 1))
      BY <1>1, <1>5, <3>1 DEF ConnectDone, Removing
    <3>3. i \in Nat /\ (i < pos \/ i = pos)
      BY <2>0, <3>2
    <3>4. i = pos => q < req
      BY <2>0, <3>1, <3>2 DEF AtNode
    <3> QED
      BY <2>3, <3>2, <3>3, <3>4 DEF ConnectDone
  <2>4. CASE NextNode /\ phase # "connect"
    <3>1. phase' = phase
      BY <2>4 DEF NextNode, NextPosition
    <3> QED
      BY <1>5, <2>4, <3>1 DEF ConnectDone, Removing
  <2>5. CASE SkipConnect
    <3>1. /\ phase = "connect" /\ phase' = "connect" /\ pos' = pos /\ req' = req + 1
          /\ tpl.reqs[AtNode][req].configures = "nothing"
      BY <2>5 DEF SkipConnect, AtRequirement, NextRequirement, ConfiguresNothing
    <3>2. PICK i \in DOMAIN tpl.listing :
            tpl.listing[i] = n /\ (i < pos \/ (i = pos /\ q < req + 1))
      BY <1>1, <1>5, <3>1 DEF ConnectDone, Removing
    <3>3. i = pos => q # req
      BY <1>5, <3>1, <3>2 DEF AtNode
    <3>4. i < pos \/ (i = pos /\ q < req)
      BY <2>0, <3>2, <3>3
    <3> QED
      BY <3>1, <3>2, <3>4 DEF ConnectDone
  <2>6. CASE FinishConnect
    <3>1. phase = "connect" /\ pos > Len(tpl.listing)
      BY <2>6 DEF FinishConnect
    <3>2. ToSet(tpl.listing) = Node
      BY TemplatesAssumption DEF WellFormed, IInv
    <3>3. PICK i \in DOMAIN tpl.listing : tpl.listing[i] = n
      BY <3>2 DEF ToSet
    <3>4. i < pos
      BY <2>0, <3>1
    <3> QED
      BY <3>1, <3>3, <3>4 DEF ConnectDone
  <2>7. CASE \/ SkipRelated \/ FinishDepend \/ RaiseNoHost \/ FinishRemove
             \/ RemoveTypeless
    <3>1. phase \in {"depend", "hosting"} \cup Removing
      BY <2>7 DEF SkipRelated, FinishDepend, RaiseNoHost, FinishRemove,
         RemoveTypeless, AtRequirement, Removing
    <3> QED
      BY <3>1 DEF ConnectDone
  <2> QED
    BY <2>1, <2>2, <2>3, <2>4, <2>5, <2>6, <2>7
<1>6. SearchKeepsServers'
  BY <1>2 DEF SearchKeepsServers
<1>7. \A r \in Resource : IsDeployment(r)' <=> IsDeployment(r)
  BY <1>1 DEF IsDeployment
<1> QED
  BY <1>1, <1>3, <1>4, <1>5, <1>6, <1>7, QuietHostStep, ConnectResource DEF IInv

\* A nested call is for a component with the same servers.
LEMMA FollowKeepsServers ==
    ASSUME tpl \in Templates, Hostable(tpl), NEW own, Visited(own) \in Node,
           Component(Visited(own)), FollowHosting(own)
    PROVE  /\ Component(visiting)'
           /\ HostServers(visiting)' = HostServers(Visited(own))
<1>1. PICK v \in Node : v = Visited(own)
  OBVIOUS
<1>2. PICK q \in DOMAIN tpl.reqs[v] : Redirects(v, q) /\ visiting' = Target(v, q)
  BY <1>1 DEF FollowHosting
<1>3. ~ OnServers(tpl, v)
  BY <1>1, <1>2, OnServersFacts DEF Redirected
<1>4. Component(Target(v, q)) /\ HostServers(Target(v, q)) = HostServers(v)
  BY <1>1, <1>2, <1>3, ComponentCases, OnComponentFacts
<1>5. PICK m : m = Target(v, q)
  OBVIOUS
<1>6. Component(m)' /\ HostServers(m)' = HostServers(v)
  BY <1>4, <1>5, SameHosts DEF FollowHosting
<1> QED
  BY <1>1, <1>2, <1>5, <1>6

\* Where the search of a component ends, its servers are found.
LEMMA SearchEnds ==
    ASSUME tpl \in Templates, Hostable(tpl), NEW v \in Node, Component(v),
           ~ Redirected(v)
    PROVE  /\ Containers(v) # {}
           /\ Deployment(v) = HostAttributes(HostServers(v))
  BY ComponentCases, OnServersFacts, OnComponentFacts

\* The search for the node at hand of pass "lifecycle", if it runs something.
LEMMA LifeCycleSearch ==
    ASSUME IInv, HostInv, Hostable(tpl), phase = "lifecycle",
           NEW n \in Node, AtResource.node = n, Runs(n)
    PROVE  \/ /\ Component(n) /\ Component(Visited(n))
              /\ Visited(n) \in Node
              /\ HostServers(Visited(n)) = HostServers(n)
           \/ /\ tpl.kind[n] = "compute" /\ Visited(n) = n
              /\ Containers(n) = {} /\ ~ Redirected(n)
<1>1. \/ Component(n)
      \/ tpl.kind[n] = "compute" /\ Containers(n) = {} /\ ~ Redirected(n)
  BY RunningHosted DEF Runs, IInv
<1>2. CASE visiting = NoNode
  BY <1>1, <1>2 DEF Visited
<1>3. CASE visiting # NoNode
  <2>1. /\ tpl.kind[n] # "compute" /\ Component(visiting)
        /\ HostServers(visiting) = HostServers(n)
    BY <1>3 DEF HostInv, SearchKeepsServers
  <2>2. visiting \in Node
    BY <1>3 DEF IInv, TypeOK
  <2> QED
    BY <1>1, <1>3, <2>1, <2>2 DEF Visited
<1> QED
  BY <1>2, <1>3

\* The search for the end of the ConnectsTo at hand.
LEMMA ConnectSearch ==
    ASSUME IInv, HostInv, Hostable(tpl), AtRequirement("connect"),
           ~ ConfiguresNothing
    PROVE  /\ AtNode \in Node /\ req \in DOMAIN tpl.reqs[AtNode]
           /\ ConnectEnd \in Node /\ Component(ConnectEnd)
           /\ Visited(ConnectEnd) \in Node /\ Component(Visited(ConnectEnd))
           /\ HostServers(Visited(ConnectEnd)) = HostServers(ConnectEnd)
<1>1. AtNode \in Node /\ req \in 1..Len(tpl.reqs[AtNode]) /\ phase = "connect"
  BY AtFacts DEF AtRequirement
<1>2. req \in DOMAIN tpl.reqs[AtNode] /\ tpl.reqs[AtNode][req] \in Requirement
  <2>1. tpl.reqs[AtNode] \in Seq(Requirement)
    BY <1>1, TemplateFacts DEF IInv
  <2> QED
    BY <1>1, <2>1
<1>3. Target(AtNode, req) \in Node
  BY <1>1, <1>2, TemplateFacts DEF IInv
<1>4. tpl.reqs[AtNode][req].configures \in {"target", "source"}
  BY <1>2 DEF ConfiguresNothing, Requirement
<1>5. Configured(tpl, ConnectEnd)
  BY <1>1, <1>2, <1>4 DEF Configured, ConnectEnd, Target
<1>6. ConnectEnd \in Node /\ Component(ConnectEnd)
  <2>1. ConnectEnd \in Node
    BY <1>1, <1>3 DEF ConnectEnd
  <2> QED
    BY <1>5, <2>1, RunningHosted DEF IInv
<1>7. visiting # NoNode =>
        /\ visiting \in Node /\ Component(visiting)
        /\ HostServers(visiting) = HostServers(ConnectEnd)
  BY <1>1 DEF HostInv, SearchKeepsServers, IInv, TypeOK
<1> QED
  BY <1>1, <1>2, <1>6, <1>7 DEF Visited

\* A nested call.
LEMMA FollowHostStep ==
    ASSUME IInv, HostInv, Hostable(tpl),
           FollowLifeCycleHosting \/ FollowConnectHosting
    PROVE  HostInv'
<1>1. UNCHANGED <<tpl, phase, pos, req, resources, hot>>
  BY DEF FollowLifeCycleHosting, FollowConnectHosting, FollowHosting
<1>2. ASSUME FollowLifeCycleHosting PROVE SearchKeepsServers'
  <2>1. PICK n \in Node : n = AtResource.node
    BY <1>2, AtFacts, ResourceNode DEF FollowLifeCycleHosting
  <2>2. phase = "lifecycle" /\ FollowHosting(n) /\ n = AtResource.node'
    BY <1>1, <1>2, <2>1 DEF FollowLifeCycleHosting, AtResource
  <2>3. Redirected(Visited(n))
    BY <2>2 DEF FollowHosting, Redirected
  <2>4. ASSUME Runs(n)
        PROVE  /\ tpl.kind[n] # "compute" /\ Component(visiting)'
               /\ HostServers(visiting)' = HostServers(n)
    <3>1. /\ Component(n) /\ Component(Visited(n)) /\ Visited(n) \in Node
          /\ HostServers(Visited(n)) = HostServers(n)
      BY <2>1, <2>2, <2>3, <2>4, LifeCycleSearch
    <3>2. /\ Component(visiting)'
          /\ HostServers(visiting)' = HostServers(Visited(n))
      BY <2>2, <3>1, FollowKeepsServers DEF IInv
    <3> QED
      BY <3>1, <3>2 DEF Component
  <2>5. HostServers(n)' = HostServers(n) /\ (Runs(n)' <=> Runs(n))
    BY <1>1, SameHosts
  <2> QED
    BY <1>1, <2>2, <2>4, <2>5 DEF SearchKeepsServers
<1>3. ASSUME FollowConnectHosting PROVE SearchKeepsServers'
  <2>1. /\ phase = "connect" /\ AtRequirement("connect") /\ ~ ConfiguresNothing
        /\ FollowHosting(ConnectEnd)
    BY <1>3 DEF FollowConnectHosting, AtRequirement
  <2>2. PICK n \in Node : n = ConnectEnd
    BY <2>1, ConnectSearch
  <2>3. n = ConnectEnd'
    BY <1>1, <2>2 DEF ConnectEnd, AtNode, Target
  <2>4. /\ Visited(n) \in Node /\ Component(Visited(n))
        /\ HostServers(Visited(n)) = HostServers(n)
    BY <2>1, <2>2, ConnectSearch
  <2>5. /\ Component(visiting)'
        /\ HostServers(visiting)' = HostServers(Visited(n))
    BY <2>1, <2>2, <2>4, FollowKeepsServers DEF IInv
  <2>6. HostServers(n)' = HostServers(n)
    BY <1>1, SameHosts
  <2> QED
    BY <1>1, <2>1, <2>3, <2>4, <2>5, <2>6 DEF SearchKeepsServers
<1>4. SearchKeepsServers'
  BY <1>2, <1>3
<1>5. \A r \in Resource : IsDeployment(r)' <=> IsDeployment(r)
  BY <1>1 DEF IsDeployment
<1>6. \A r : Settled(r)' <=> Settled(r)
  BY <1>1 DEF Settled
<1>7. \A n, q : ConnectDone(n, q)' <=> ConnectDone(n, q)
  BY <1>1 DEF ConnectDone
<1> QED
  BY <1>1, <1>4, <1>5, <1>6, <1>7, QuietHostStep, ConnectResource DEF IInv

\* What the attributes of a deployment name.
LEMMA HostAttributesFacts ==
    ASSUME NEW S \in SUBSET Node, S # {}, IsFiniteSet(S)
    PROVE  /\ HostAttributes(S) \in HotAttributes
           /\ HostAttributes(S).type \in {SD, SDGroup}
           /\ HostAttributes(S).type = SD <=> Cardinality(S) = 1
           /\ ServersOf(HostAttributes(S)) = S
           /\ RolesDeployment(HostAttributes(S)) = HostAttributes(S)
           /\ \A s \in S :
                /\ [HostAttributes(S) EXCEPT !.server = Reference({s})] \in HotAttributes
                /\ [HostAttributes(S) EXCEPT !.server = Reference({s})].type =
                        HostAttributes(S).type
                /\ ServersOf([HostAttributes(S) EXCEPT !.server = Reference({s})]) = S
                /\ Cardinality(S) = 1 =>
                    [HostAttributes(S) EXCEPT !.server = Reference({s})] =
                        HostAttributes(S)
<1>1. SD # SDGroup /\ SD \in HotType /\ SDGroup \in HotType
  BY DEF SD, SDGroup, HotType
<1>2. /\ Reference(S) \in ServerValue /\ ServerMap(S) \in ServerValue
      /\ \A s \in S : Reference({s}) \in ServerValue
      /\ Absent \notin ServerValue
  BY SentinelAssumption DEF Reference, ServerMap, ServerValue
<1>3. CASE Cardinality(S) = 1
  <2>1. PICK s : S = {s}
    BY <1>3, FS_Singleton
  <2>2. HostAttributes(S) =
            [type |-> SD, server |-> Reference(S), servers |-> Absent]
    BY <1>3 DEF HostAttributes, Blank
  <2>3. ServersOf(HostAttributes(S)) = S
    BY <1>2, <2>2 DEF ServersOf, Reference
  <2>4. RolesDeployment(HostAttributes(S)) = HostAttributes(S)
    <3>1. Reference(S).form = "reference" /\ Reference(S) # Absent
      BY <1>2 DEF Reference
    <3> QED
      BY <2>2, <3>1 DEF RolesDeployment, Blank
  <2> QED
    BY <1>1, <1>2, <1>3, <2>1, <2>2, <2>3, <2>4 DEF HotAttributes
<1>4. CASE Cardinality(S) # 1
  <2>1. HostAttributes(S) =
            [type |-> SDGroup, server |-> Absent, servers |-> ServerMap(S)]
    BY <1>4 DEF HostAttributes, Blank
  <2>2. ServersOf(HostAttributes(S)) = S
    BY <1>2, <2>1 DEF ServersOf, ServerMap
  <2>3. RolesDeployment(HostAttributes(S)) = HostAttributes(S)
    <3>1. ServerMap(S).form = "map" /\ ServerMap(S).servers = S
      BY DEF ServerMap
    <3> QED
      BY <1>4, <2>1, <3>1 DEF RolesDeployment, Blank
  <2>4. ASSUME NEW s \in S
        PROVE  /\ [HostAttributes(S) EXCEPT !.server = Reference({s})] =
                    [type |-> SDGroup, server |-> Reference({s}), servers |-> ServerMap(S)]
               /\ ServersOf([HostAttributes(S) EXCEPT !.server = Reference({s})]) = S
    <3>1. [HostAttributes(S) EXCEPT !.server = Reference({s})] =
            [type |-> SDGroup, server |-> Reference({s}), servers |-> ServerMap(S)]
      BY <2>1
    <3> QED
      BY <1>2, <3>1 DEF ServersOf, ServerMap, Reference
  <2> QED
    BY <1>1, <1>2, <1>4, <2>1, <2>2, <2>3, <2>4 DEF HotAttributes
<1> QED
  BY <1>3, <1>4

\* Pass "lifecycle": a deployment runs where its node is hosted.
LEMMA LifeCycleHostStep ==
    ASSUME IInv, HostInv, Hostable(tpl), HandleLifeCycle
    PROVE  HostInv'
<1>1. PICK n \in Node : n = AtResource.node
  BY AtFacts, ResourceNode DEF HandleLifeCycle
<1>2. /\ phase = "lifecycle" /\ phase' = "lifecycle" /\ visiting' = NoNode
      /\ tpl' = tpl /\ ~ Redirected(Visited(n))
      /\ hot' = [r \in Resource |->
                    IF r \in OpDeploys(n) THEN OpDeployment(n, Visited(n))
                    ELSE IF tpl.roles[n] /\ r = Roles(n)
                         THEN RolesDeployment(OpDeployment(n, Visited(n)))
                         ELSE hot[r]]
  BY <1>1 DEF HandleLifeCycle, NextPosition
<1>3. ASSUME Runs(n)
      PROVE  /\ OpDeployment(n, Visited(n)) = HostAttributes(HostServers(n))
             /\ Hosted(n)
  <2>1. CASE tpl.kind[n] = "compute" /\ Visited(n) = n /\ Containers(n) = {}
    <3>1. HostServers(n) = {n}
      BY <2>1, HostServersFacts DEF Hosted, IInv
    <3>2. Cardinality({n}) = 1
      BY FS_Singleton
    <3> QED
      BY <2>1, <3>1, <3>2 DEF OpDeployment, HostAttributes, Hosted
  <2>2. CASE /\ Component(n) /\ Component(Visited(n)) /\ Visited(n) \in Node
             /\ HostServers(Visited(n)) = HostServers(n)
    <3>1. /\ Containers(Visited(n)) # {}
          /\ Deployment(Visited(n)) = HostAttributes(HostServers(Visited(n)))
      BY <1>2, <2>2, SearchEnds DEF IInv
    <3> QED
      BY <2>2, <3>1 DEF OpDeployment, Hosted
  <2> QED
    BY <1>1, <1>2, <1>3, <2>1, <2>2, LifeCycleSearch
<1>4. ASSUME Runs(n)
      PROVE  RolesDeployment(HostAttributes(HostServers(n))) =
                HostAttributes(HostServers(n))
  <2>1. /\ HostServers(n) \in SUBSET Node /\ HostServers(n) # {}
        /\ IsFiniteSet(HostServers(n))
    BY <1>3, <1>4, HostServersFacts DEF IInv
  <2> QED
    BY <2>1, HostAttributesFacts
<1>5. ASSUME NEW r \in Resource, r \in Deployments(n)
      PROVE  /\ Runs(n) /\ r.node = n
             /\ r.part \in Operation \cup {"main", "roles"}
             /\ r.part = "main" => tpl.kind[n] # "compute"
  <2>1. CASE r \in OpDeploys(n)
    <3>1. PICK op \in Declared(n) : r = OpDeploy(n, op)
      BY <2>1 DEF OpDeploys
    <3>2. op \in Operation
      BY TemplateFacts DEF IInv
    <3>3. r.part = "main" => tpl.kind[n] # "compute"
      BY <3>1, <3>2 DEF OpDeploy, Operation
    <3> QED
      BY <3>1, <3>2, <3>3, ResourceFacts DEF Runs
  <2>2. CASE tpl.roles[n] /\ r = Roles(n)
    BY <2>2, ResourceFacts DEF Runs
  <2> QED
    BY <1>5, <2>1, <2>2 DEF Deployments
<1>6. ASSUME NEW r \in Resource
      PROVE  hot'[r] = IF r \in Deployments(n) THEN HostAttributes(HostServers(n))
                       ELSE hot[r]
  BY <1>2, <1>3, <1>4, <1>5 DEF Deployments
<1>7. DeploymentsPlaced'
  <2> SUFFICES ASSUME NEW r \in Resource, IsDeployment(r)'
               PROVE  Placed(r)'
    BY DEF DeploymentsPlaced
  <2>1. CASE r \in Deployments(n)
    <3>1. hot'[r] = HostAttributes(HostServers(n)')
      BY <1>2, <1>6, <2>1, SameHosts
    <3>2. r.part # "connect" /\ r.node = n /\ Runs(n) /\ Hosted(n)
      BY <1>3, <1>5, <2>1 DEF Operation
    <3>3. PlaceOf(r)' = n
      BY <3>2 DEF PlaceOf
    <3>4. PlacedOn(r, HostServers(PlaceOf(r)))'
      BY <3>1, <3>3 DEF PlacedOn
    <3>5. r.part = "main" => Component(n)
      BY <1>5, <2>1, <3>2 DEF Hosted
    <3>6. (Component(n)' <=> Component(n)) /\ (Hosted(n)' <=> Hosted(n))
      BY <1>2, SameHosts
    <3> QED
      BY <1>5, <2>1, <3>2, <3>3, <3>4, <3>5, <3>6 DEF Placed
  <2>2. CASE r \notin Deployments(n)
    <3>1. hot'[r] = hot[r]
      BY <1>6, <2>2
    <3>2. Placed(r)
      BY <3>1 DEF HostInv, DeploymentsPlaced, IsDeployment
    <3>3. ~ Settled(r)'
      BY <1>2 DEF Settled
    <3> QED
      BY <1>2, <3>1, <3>2, <3>3, StaysPlaced
  <2> QED
    BY <2>1, <2>2
<1>8. SearchKeepsServers' /\ NoneYet' /\ ConnectsDeployed'
  BY <1>2 DEF SearchKeepsServers, NoneYet, ConnectsDeployed, ConnectDone, Removing
<1> QED
  BY <1>7, <1>8 DEF HostInv

\* Pass "connect": a deployment runs where the end it configures is hosted.
LEMMA ConnectHostStep ==
    ASSUME IInv, HostInv, Hostable(tpl), HandleConnectsTo
    PROVE  HostInv'
<1>1. /\ AtRequirement("connect") /\ ~ ConfiguresNothing
      /\ ~ Redirected(Visited(ConnectEnd))
      /\ phase = "connect" /\ phase' = "connect" /\ visiting' = NoNode
      /\ pos' = pos /\ req' = req + 1 /\ tpl' = tpl
  BY DEF HandleConnectsTo, AtRequirement, NextRequirement
<1>2. PICK n \in Node : n = AtNode
  BY <1>1, ConnectSearch
<1>3. PICK q \in DOMAIN tpl.reqs[n] : q = req
  BY <1>1, <1>2, ConnectSearch
<1>4. PICK end \in Node : end = ConnectEnd
  BY <1>1, ConnectSearch
<1>5. end = EndOf(n, q)
  BY <1>2, <1>3, <1>4 DEF ConnectEnd, EndOf
<1>6. Component(end) /\ Deployment(Visited(end)) = HostAttributes(HostServers(end))
  <2>1. /\ Component(end) /\ Component(Visited(end)) /\ Visited(end) \in Node
        /\ HostServers(Visited(end)) = HostServers(end)
    BY <1>1, <1>4, ConnectSearch
  <2> QED
    BY <1>1, <1>4, <2>1, SearchEnds DEF IInv
<1>7. PICK r \in Resource : r = Connect(n, q)
  BY ConnectResource DEF IInv
<1>8. /\ hot \in [Resource -> HotAttributes]
      /\ hot' = [hot EXCEPT ![r] = HostAttributes(HostServers(end))]
  BY <1>2, <1>3, <1>4, <1>6, <1>7 DEF HandleConnectsTo, IInv, TypeOK
<1>9. /\ IsDeployment(r)' /\ hot'[r] = HostAttributes(HostServers(end))
  <2>1. /\ HostServers(end) \in SUBSET Node /\ HostServers(end) # {}
        /\ IsFiniteSet(HostServers(end))
    BY <1>6, HostServersFacts DEF IInv, Hosted
  <2> QED
    BY <1>8, <2>1, HostAttributesFacts DEF IsDeployment
<1>10. Placed(r)'
  <2>1. r.part = "connect" /\ r.node = n /\ r.req = q
    BY <1>7 DEF Connect
  <2>2. PlaceOf(r) = end
    BY <1>5, <2>1 DEF PlaceOf
  <2>3. PlaceOf(r)' = end /\ Hosted(end)' /\ HostServers(end)' = HostServers(end)
    BY <1>1, <1>6, <2>2, SameHosts DEF Hosted
  <2>4. PlacedOn(r, HostServers(PlaceOf(r)))'
    BY <1>9, <2>3 DEF PlacedOn
  <2> QED
    BY <2>1, <2>3, <2>4 DEF Placed
<1>11. \A x \in Resource : x # r => hot'[x] = hot[x] /\ ~ Settled(x)'
  BY <1>1, <1>8 DEF Settled
<1>12. DeploymentsPlaced'
  <2> SUFFICES ASSUME NEW x \in Resource, IsDeployment(x)', x # r
               PROVE  Placed(x)'
    BY <1>10 DEF DeploymentsPlaced
  <2>1. Placed(x)
    BY <1>11 DEF HostInv, DeploymentsPlaced, IsDeployment
  <2> QED
    BY <1>1, <1>11, <2>1, StaysPlaced
<1>13. ConnectsDeployed'
  <2> SUFFICES ASSUME NEW m \in Node, NEW p \in DOMAIN tpl.reqs[m], ConnectDone(m, p)',
                      tpl.reqs[m][p].configures # "nothing", Connect(m, p) # r
               PROVE  IsDeployment(Connect(m, p))'
    BY <1>1, <1>9 DEF ConnectsDeployed
  <2>1. ConnectDone(m, p)
    <3>1. PICK i \in DOMAIN tpl.listing :
            tpl.listing[i] = m /\ (i < pos \/ (i = pos /\ p < req + 1))
      BY <1>1 DEF ConnectDone, Removing
    <3>2. i = pos => p # req
      BY <1>2, <1>3, <1>7, <3>1 DEF AtNode
    <3>3. p \in 1..MaxRequirements /\ req \in Nat
      BY TemplateFacts DEF IInv, TypeOK
    <3>4. i < pos \/ (i = pos /\ p < req)
      BY <3>1, <3>2, <3>3, BoundsAssumption
    <3> QED
      BY <1>1, <3>1, <3>4 DEF ConnectDone
  <2>2. Connect(m, p) \in Resource
    BY ConnectResource DEF IInv
  <2>3. IsDeployment(Connect(m, p))
    BY <2>1 DEF HostInv, ConnectsDeployed
  <2> QED
    BY <1>11, <2>2, <2>3 DEF IsDeployment
<1>14. SearchKeepsServers' /\ NoneYet'
  BY <1>1 DEF SearchKeepsServers, NoneYet
<1> QED
  BY <1>12, <1>13, <1>14 DEF HostInv

\* The servers of a deployment are there, for the lemmas that ask for it.
LEMMA PlacedServers ==
    ASSUME tpl \in Templates, Hostable(tpl), NEW r \in Resource, Placed(r)
    PROVE  \E S \in SUBSET Node :
            /\ S = HostServers(PlaceOf(r)) /\ S # {} /\ IsFiniteSet(S)
            /\ PlacedOn(r, S) /\ RunsOn(r) = S
<1>1. PICK S : S = HostServers(PlaceOf(r))
  OBVIOUS
<1>2. S \in SUBSET Node /\ S # {} /\ IsFiniteSet(S)
  BY <1>1, HostServersFacts DEF Placed
<1>3. PlacedOn(r, S)
  BY <1>1 DEF Placed
<1>4. RunsOn(r) = S
  BY <1>2, <1>3, HostAttributesFacts DEF PlacedOn, RunsOn
<1> QED
  BY <1>1, <1>2, <1>3, <1>4

\* A component that requires a Compute as its host is on servers, that one
\* included.
LEMMA HostedOnComputeFacts ==
    ASSUME tpl \in Templates, Hostable(tpl), NEW n \in Node, Component(n),
           NEW q \in DOMAIN tpl.reqs[n], HostedOnCompute(n, q)
    PROVE  Target(n, q) \in HostServers(n)
<1>1. IsContainer(n, q) /\ q \in Containers(n)
  BY DEF HostedOnCompute, Containers
<1>2. PICK last : last = CHOOSE p \in SameTarget(n, q) : \A o \in SameTarget(n, q) : o <= p
  OBVIOUS
<1>3. last \in SameTarget(n, q)
  <2>1. /\ SameTarget(n, q) \in SUBSET (1..MaxRequirements)
        /\ q \in SameTarget(n, q)
    BY TemplateFacts DEF SameTarget
  <2>2. \E p \in SameTarget(n, q) : \A o \in SameTarget(n, q) : o <= p
    <3> DEFINE below == {MaxRequirements - p : p \in SameTarget(n, q)}
    <3>1. below \in SUBSET Nat /\ below # {}
      BY <2>1, BoundsAssumption
    <3>2. \E x \in below : \A y \in below : x <= y
      <4> HIDE DEF below
      <4> QED
        BY <3>1, MinProperty
    <3>3. PICK p \in SameTarget(n, q) : \A y \in below : MaxRequirements - p <= y
      BY <3>2
    <3>4. \A o \in SameTarget(n, q) : MaxRequirements - p <= MaxRequirements - o
      BY <3>3
    <3> QED
      BY <2>1, <3>3, <3>4, BoundsAssumption
  <2> QED
    BY <1>2, <2>2
<1>4. last \in HostRequirements(tpl, n) /\ Target(n, last) = Target(n, q)
  BY <1>2, <1>3 DEF HostedOnCompute, RelatedBy, SameTarget, HostRequirements
<1>5. ~ OnComponent(tpl, n)
  BY <1>1, <1>4 DEF OnComponent, IsContainer, Target
<1> QED
  BY <1>1, <1>5, ComponentCases, OnServersFacts

\* Pass "depend": the server it sets is one of the servers of the deployment.
LEMMA CopyHostStep ==
    ASSUME IInv, HostInv, Hostable(tpl), CopyDependency
    PROVE  HostInv'
<1>1. /\ AtRequirement("depend") /\ phase = "depend" /\ phase' = "depend"
      /\ visiting' = NoNode /\ tpl' = tpl
      /\ hot \in [Resource -> HotAttributes]
  BY DEF CopyDependency, AtRequirement, NextRequirement, IInv, TypeOK
<1>2. PICK n \in Node : n = AtNode
  BY <1>1, AtFacts DEF AtRequirement
<1>3. PICK q \in DOMAIN tpl.reqs[n] : q = req
  <2>1. tpl.reqs[n] \in Seq(Requirement)
    BY TemplateFacts DEF IInv
  <2> QED
    BY <1>1, <1>2, <2>1 DEF AtRequirement
<1>4. PICK r \in Resource : r = Main(n)
  BY ResourceFacts
<1>5. PICK t : t = Target(n, q)
  OBVIOUS
<1>6. hot' = IF HostedOnCompute(n, q)
             THEN [hot EXCEPT ![r].server = Reference({t})] ELSE hot
  BY <1>2, <1>3, <1>4, <1>5 DEF CopyDependency
<1>7. /\ \A x \in Resource : hot'[x].type = hot[x].type
      /\ \A x \in Resource : x # r => hot'[x] = hot[x]
      /\ hot'[r] = hot[r] \/ (/\ HostedOnCompute(n, q)
                              /\ hot'[r] = [hot[r] EXCEPT !.server = Reference({t})])
  BY <1>1, <1>6 DEF HotAttributes
<1>8. \A x : ~ Settled(x) /\ ~ Settled(x)'
  BY <1>1 DEF Settled
<1>9. ASSUME IsDeployment(r) PROVE Placed(r)'
  <2>1. /\ Placed(r) /\ r.part = "main" /\ r.node = n
        /\ Component(n) /\ PlaceOf(r) = n
    BY <1>4, <1>9, ResourceFacts DEF HostInv, DeploymentsPlaced, Placed, PlaceOf
  <2>2. PICK S \in SUBSET Node :
            /\ S = HostServers(n) /\ S # {} /\ IsFiniteSet(S) /\ PlacedOn(r, S)
    BY <2>1, PlacedServers DEF IInv
  <2>3. PlacedOn(r, S)'
    <3>1. CASE hot'[r] = hot[r]
      BY <1>8, <2>2, <3>1 DEF PlacedOn
    <3>2. CASE /\ HostedOnCompute(n, q)
               /\ hot'[r] = [hot[r] EXCEPT !.server = Reference({t})]
      <4>1. t \in S
        BY <1>5, <2>1, <2>2, <3>2, HostedOnComputeFacts DEF IInv
      <4>2. HostAttributes(S) \in HotAttributes
        BY <2>2, HostAttributesFacts
      <4>3. hot'[r] = [HostAttributes(S) EXCEPT !.server = Reference({t})]
        BY <2>2, <3>2, <4>2 DEF PlacedOn, HotAttributes
      <4> QED
        BY <1>8, <4>1, <4>3 DEF PlacedOn
    <3> QED
      BY <1>7, <3>1, <3>2
  <2>4. S = HostServers(n)' /\ PlaceOf(r)' = n /\ Component(n)' /\ Hosted(n)'
    BY <1>1, <2>1, <2>2, SameHosts DEF Hosted
  <2> QED
    BY <2>1, <2>3, <2>4 DEF Placed
<1>10. DeploymentsPlaced'
  <2> SUFFICES ASSUME NEW x \in Resource, IsDeployment(x)'
               PROVE  Placed(x)'
    BY DEF DeploymentsPlaced
  <2>1. IsDeployment(x)
    BY <1>7 DEF IsDeployment
  <2>2. Placed(x)
    BY <2>1 DEF HostInv, DeploymentsPlaced
  <2> QED
    BY <1>1, <1>7, <1>8, <1>9, <2>1, <2>2, StaysPlaced
<1>11. ConnectsDeployed'
  <2>1. \A x \in Resource : IsDeployment(x) => IsDeployment(x)'
    BY <1>7 DEF IsDeployment
  <2>2. \A m, p : ConnectDone(m, p)
    BY <1>1 DEF ConnectDone
  <2> QED
    BY <1>1, <2>1, <2>2, ConnectResource DEF HostInv, ConnectsDeployed, IInv
<1>12. SearchKeepsServers' /\ NoneYet'
  BY <1>1 DEF SearchKeepsServers, NoneYet
<1> QED
  BY <1>10, <1>11, <1>12 DEF HostInv

\* handle_hosting leaves a deployment with nothing but its servers.
LEMMA PrunedPlaced ==
    ASSUME NEW r, NEW S \in SUBSET Node, S # {}, IsFiniteSet(S), PlacedOn(r, S)
    PROVE  (IF IsDeployment(r) /\ HostServer(r).form = "map"
            THEN [Pruned(r) EXCEPT !.servers = HostServer(r)]
            ELSE Pruned(r)) = HostAttributes(S)
<1>1. /\ Reference(S).servers = S /\ Reference(S).form = "reference"
      /\ ServerMap(S).servers = S /\ ServerMap(S).form = "map"
      /\ \A s : Reference({s}).servers = {s}
      /\ Reference(S) # Absent /\ ServerMap(S) # Absent
      /\ \A s \in S : Reference({s}) # Absent
  BY SentinelAssumption DEF Reference, ServerMap, ServerValue
<1>2. CASE Cardinality(S) = 1
  <2>1. hot[r] = HostAttributes(S)
    BY <1>2, HostAttributesFacts DEF PlacedOn
  <2>2. HostAttributes(S) =
            [type |-> SD, server |-> Reference(S), servers |-> Absent]
    BY <1>2 DEF HostAttributes, Blank
  <2>3. Pruned(r) = hot[r]
    BY <2>1, <2>2 DEF Pruned, Given
  <2>4. HostServer(r) = Reference(S)
    BY <2>1, <2>2, <2>3 DEF HostServer, Given
  <2> QED
    BY <1>1, <2>1, <2>3, <2>4
<1>3. CASE Cardinality(S) # 1
  <2>1. HostAttributes(S) =
            [type |-> SDGroup, server |-> Absent, servers |-> ServerMap(S)]
    BY <1>3 DEF HostAttributes, Blank
  <2>2. \/ hot[r] = HostAttributes(S)
        \/ \E s \in S : hot[r] =
             [type |-> SDGroup, server |-> Reference({s}), servers |-> ServerMap(S)]
    <3>1. \A s : [HostAttributes(S) EXCEPT !.server = Reference({s})] =
             [type |-> SDGroup, server |-> Reference({s}), servers |-> ServerMap(S)]
      BY <2>1
    <3> QED
      BY <3>1 DEF PlacedOn
  <2>3. Pruned(r) = HostAttributes(S)
    <3>1. CASE hot[r] = HostAttributes(S)
      BY <2>1, <3>1 DEF Pruned, Given
    <3>2. CASE \E s \in S : hot[r] =
             [type |-> SDGroup, server |-> Reference({s}), servers |-> ServerMap(S)]
      <4>1. PICK s \in S : hot[r] =
             [type |-> SDGroup, server |-> Reference({s}), servers |-> ServerMap(S)]
        BY <3>2
      <4>2. Given(hot[r].server) /\ Given(hot[r].servers)
        <5>1. /\ hot[r].server = Reference({s})
              /\ hot[r].servers = ServerMap(S)
          BY <4>1
        <5>2. Reference({s}).servers = {s} /\ Reference({s}) # Absent
          BY <1>1
        <5> QED
          BY <1>1, <5>1, <5>2 DEF Given
      <4> QED
        BY <2>1, <4>1, <4>2 DEF Pruned
    <3> QED
      BY <2>2, <3>1, <3>2
  <2>4. HostServer(r) = ServerMap(S)
    BY <1>1, <2>1, <2>3 DEF HostServer, Given
  <2> QED
    BY <2>1, <2>3, <2>4
<1> QED
  BY <1>2, <1>3

\* Pass "hosting".
LEMMA HostingHostStep ==
    ASSUME IInv, HostInv, Hostable(tpl), HandleHosting
    PROVE  HostInv'
<1>1. /\ phase = "hosting" /\ phase' = "hosting" /\ visiting' = NoNode
      /\ tpl' = tpl /\ pos' = pos + 1 /\ resources' = resources
      /\ hot \in [Resource -> HotAttributes]
      /\ resources \in Seq(Resource) /\ pos \in Nat
  BY DEF HandleHosting, NextPosition, IInv, TypeOK
<1>2. PICK r \in Resource : r = AtResource
  BY AtFacts DEF HandleHosting
<1>3. hot' = [hot EXCEPT ![r] =
                IF IsDeployment(r) /\ HostServer(r).form = "map"
                THEN [Pruned(r) EXCEPT !.servers = HostServer(r)]
                ELSE Pruned(r)]
  BY <1>2 DEF HandleHosting
<1>4. \A x \in Resource : x # r => hot'[x] = hot[x] /\ (Settled(x)' => Settled(x))
  <2> SUFFICES ASSUME NEW x \in Resource, x # r, Settled(x)'
               PROVE  Settled(x)
    BY <1>1, <1>3
  <2>1. PICK i \in DOMAIN resources : i < pos + 1 /\ resources[i] = x
    BY <1>1 DEF Settled
  <2>2. i # pos
    BY <1>2, <2>1 DEF AtResource
  <2>3. i < pos
    BY <1>1, <2>1, <2>2
  <2> QED
    BY <1>1, <2>1, <2>3 DEF Settled
<1>5. ~ IsDeployment(r) => ~ IsDeployment(r)'
  <2>1. hot[r] \in HotAttributes
    BY <1>1
  <2>2. Pruned(r).type = hot[r].type
    BY <2>1 DEF Pruned, HotAttributes
  <2> QED
    BY <1>1, <1>3, <2>2 DEF IsDeployment
<1>6. ASSUME IsDeployment(r) PROVE Placed(r)' /\ IsDeployment(r)'
  <2>1. Placed(r)
    BY <1>6 DEF HostInv, DeploymentsPlaced
  <2>2. PICK S \in SUBSET Node :
            /\ S = HostServers(PlaceOf(r)) /\ S # {} /\ IsFiniteSet(S) /\ PlacedOn(r, S)
    BY <2>1, PlacedServers DEF IInv
  <2>3. hot'[r] = HostAttributes(S)
    BY <1>1, <1>3, <2>2, PrunedPlaced
  <2>4. PICK n \in Node : n = PlaceOf(r)
    BY <2>1 DEF Placed
  <2>5. PlaceOf(r)' = n /\ Hosted(n)' /\ HostServers(n)' = S
    BY <1>1, <2>1, <2>2, <2>4, SameHosts DEF Placed
  <2>6. (r.part = "main" => Component(r.node)')
    BY <1>1, <2>1, SameHosts DEF Placed
  <2>7. PlacedOn(r, HostServers(PlaceOf(r)))'
    BY <2>3, <2>5 DEF PlacedOn
  <2> QED
    BY <2>1, <2>2, <2>3, <2>5, <2>6, <2>7, HostAttributesFacts DEF Placed, IsDeployment
<1>7. DeploymentsPlaced'
  <2> SUFFICES ASSUME NEW x \in Resource, IsDeployment(x)', x # r
               PROVE  Placed(x)'
    BY <1>5, <1>6 DEF DeploymentsPlaced
  <2>1. Placed(x)
    BY <1>4 DEF HostInv, DeploymentsPlaced, IsDeployment
  <2> QED
    BY <1>1, <1>4, <2>1, StaysPlaced
<1>8. ConnectsDeployed'
  <2>1. \A x \in Resource : IsDeployment(x) => IsDeployment(x)'
    BY <1>4, <1>6 DEF IsDeployment
  <2>2. \A m, p : ConnectDone(m, p)
    BY <1>1 DEF ConnectDone
  <2> QED
    BY <1>1, <2>1, <2>2, ConnectResource DEF HostInv, ConnectsDeployed, IInv
<1>9. SearchKeepsServers' /\ NoneYet'
  BY <1>1 DEF SearchKeepsServers, NoneYet
<1> QED
  BY <1>7, <1>8, <1>9 DEF HostInv

\* At the end of pass "hosting" every deployment went through it.
LEMMA FinishHostingHostStep ==
    ASSUME IInv, OrderInv, Collected, HostInv, FinishHosting
    PROVE  HostInv'
<1>1. /\ phase = "hosting" /\ phase' = "remove" /\ visiting' = NoNode
      /\ pos > Len(resources)
      /\ UNCHANGED <<tpl, hot>>
  BY DEF FinishHosting, EnterPhase
<1>2. \A r \in Resource : IsDeployment(r)' <=> IsDeployment(r)
  BY <1>1 DEF IsDeployment
<1>3. ASSUME NEW r \in Resource, IsDeployment(r)
      PROVE  Settled(r)
  <2>1. Typed(r)
    BY <1>3 DEF Typed, IsDeployment, SD, SDGroup
  <2>2. r \in Listed /\ expanded = <<>>
    BY <1>1, <2>1 DEF OrderInv, TypedListed, Collected
  <2>3. r \in ToSet(resources)
    BY <2>2 DEF Listed, ToSet
  <2>4. PICK i \in DOMAIN resources : resources[i] = r
    BY <2>3 DEF ToSet
  <2>5. resources \in Seq(Resource) /\ pos \in Nat
    BY DEF IInv, TypeOK
  <2>6. i < pos
    BY <1>1, <2>4, <2>5
  <2> QED
    BY <1>1, <2>4, <2>6 DEF Settled
<1>4. \A n, q : ConnectDone(n, q)
  BY <1>1 DEF ConnectDone
<1>5. SearchKeepsServers'
  BY <1>1 DEF SearchKeepsServers
<1> QED
  BY <1>1, <1>2, <1>3, <1>4, <1>5, QuietHostStep, ConnectResource DEF IInv

\* Every step of the passes of NodeTranslation keeps the invariant.
LEMMA NextHostInv ==
    ASSUME IInv, OrderInv, Collected, HostInv, Hostable(tpl), Next
    PROVE  HostInv'
<1>1. CASE CopyNode \/ AttachVolume
  BY <1>1, NodesHostStep
<1>2. CASE \/ SkipVolume \/ NextNode \/ FinishNodes \/ SkipAttachment
           \/ FinishLifeCycle \/ SkipConnect \/ FinishConnect
           \/ SkipRelated \/ FinishDepend \/ RaiseNoHost \/ FinishRemove
           \/ RemoveTypeless
  BY <1>2, CursorHostStep
<1>3. CASE FollowLifeCycleHosting \/ FollowConnectHosting
  BY <1>3, FollowHostStep
<1>4. CASE HandleLifeCycle
  BY <1>4, LifeCycleHostStep
<1>5. CASE HandleConnectsTo
  BY <1>5, ConnectHostStep
<1>6. CASE CopyDependency
  BY <1>6, CopyHostStep
<1>7. CASE HandleHosting
  BY <1>7, HostingHostStep
<1>8. CASE FinishHosting
  BY <1>8, FinishHostingHostStep
<1> QED
  BY <1>1, <1>2, <1>3, <1>4, <1>5, <1>6, <1>7, <1>8 DEF Next

-----------------------------------------------------------------------------
(* The passes of PropertyPass keep the invariant.                          *)

\* A late step that changes no deployment.
LEMMA LateHostStep ==
    ASSUME IInv, HostInv, phase = "remove", phase' \in {"remove", "failed"},
           UNCHANGED tpl,
           \A r \in Resource : IsDeployment(r) => hot'[r] = hot[r],
           \A r \in Resource : IsDeployment(r)' => IsDeployment(r)
    PROVE  HostInv'
<1>1. \A r : Settled(r)
  BY DEF Settled
<1>2. \A n, q : ConnectDone(n, q)
  BY DEF ConnectDone, Removing
<1>3. SearchKeepsServers'
  BY DEF SearchKeepsServers
<1> QED
  BY <1>1, <1>2, <1>3, QuietHostStep, ConnectResource DEF IInv

\* The handlers of properties replace those of main resources that are no
\* deployment.
LEMMA OverwriteHostStep ==
    ASSUME IInv, HostInv, PassTypeOK,
           HandleServer \/ HandleVolume \/ HandleNetwork \/ HandlePort
    PROVE  HostInv'
<1>1. /\ calls # <<>> /\ phase = "remove" /\ phase' = "remove" /\ tpl' = tpl
      /\ Overwrite(Self)
      /\ KindOfSelf \in {"compute", "volume", "network", "port"}
  BY DEF HandleServer, HandleVolume, HandleNetwork, HandlePort, DependenciesWalked,
         InCall, Running, cursors
<1>2. PICK r \in Resource : r = Self
  BY <1>1, SelfFacts
<1>3. hot \in [Resource -> HotAttributes] /\ hot' = [hot EXCEPT ![r] = Blank(hot[r].type)]
  BY <1>1, <1>2 DEF Overwrite, IInv, TypeOK
<1>4. ~ IsDeployment(r)
  <2> SUFFICES ASSUME Placed(r) PROVE FALSE
    BY DEF HostInv, DeploymentsPlaced
  <2>1. r.part = "main"
    BY <1>1, <1>2 DEF KindOfSelf, Placed, Operation
  <2>2. tpl.kind[r.node] = "software"
    BY <2>1 DEF Placed, Component
  <2> QED
    BY <1>1, <1>2, <2>1, <2>2 DEF KindOfSelf
<1>5. \A x \in Resource : IsDeployment(x) => hot'[x] = hot[x]
  BY <1>3, <1>4
<1>6. \A x \in Resource : IsDeployment(x)' => IsDeployment(x)
  BY <1>3 DEF IsDeployment, Blank
<1> QED
  BY <1>1, <1>5, <1>6, LateHostStep

\* A subnet is no deployment.
LEMMA SubnetHostStep ==
    ASSUME IInv, HostInv, ExpandNetwork
    PROVE  HostInv'
<1>1. /\ phase = "remove" /\ phase' = "remove" /\ tpl' = tpl
      /\ AtResource \in Resource
      /\ hot' = [hot EXCEPT ![Subnet(AtResource.node)] = Blank("OS::Neutron::Subnet")]
  BY AtFacts DEF ExpandNetwork, Expanding, Running, NextPosition
<1>2. PICK r \in Resource : r = Subnet(AtResource.node)
  BY <1>1, ResourceNode DEF Subnet, Resource
<1>3. ~ IsDeployment(r)
  <2>1. r.part = "subnet"
    BY <1>2 DEF Subnet
  <2> QED
    BY <2>1 DEF HostInv, DeploymentsPlaced, Placed, Operation
<1>4. hot \in [Resource -> HotAttributes]
  BY DEF IInv, TypeOK
<1>5. \A x \in Resource : IsDeployment(x) => hot'[x] = hot[x]
  BY <1>1, <1>2, <1>3, <1>4
<1>6. \A x \in Resource : IsDeployment(x)' => IsDeployment(x)
  BY <1>1, <1>2, <1>4 DEF IsDeployment, Blank, SD, SDGroup
<1> QED
  BY <1>1, <1>5, <1>6, LateHostStep

\* Every step keeps the invariant.
LEMMA PassKeepsHostInv ==
    ASSUME PInv, PassOrderInv, HostInv, Hostable(tpl), [PassNext]_allVars
    PROVE  HostInv'
<1> USE DEF PInv
<1>1. CASE OtherPass
  <2>1. Next /\ (phase = "remove" => stage = "finished")
    BY <1>1 DEF OtherPass
  <2>2. Collected
    BY <2>1 DEF PassOrderInv, PassCollected, Collected
  <2> QED
    BY <2>1, <2>2, NextHostInv DEF PassOrderInv
<1>2. CASE \/ WalkResource \/ WalkDependency \/ HandleOther \/ Bisect \/ InsertPort
           \/ FinishProperties \/ RaiseHalfRange \/ SkipExpansion \/ FinishExpansion
  <2>1. phase = "remove" /\ phase' \in {"remove", "failed"} /\ UNCHANGED <<tpl, hot>>
    <3>1. CASE \/ WalkResource \/ FinishProperties \/ RaiseHalfRange \/ SkipExpansion
               \/ FinishExpansion
      BY <3>1 DEF WalkResource, FinishProperties, RaiseHalfRange, SkipExpansion,
         FinishExpansion, Expanding, Running, NextPosition, EnterPhase, cursors
    <3>2. CASE WalkDependency \/ HandleOther \/ Bisect \/ InsertPort
      BY <3>2 DEF WalkDependency, HandleOther, Bisect, InsertPort, DependenciesWalked,
         InCall, Inserting, Running, vars, cursors
    <3> QED
      BY <1>2, <3>1, <3>2
  <2>2. \A r : IsDeployment(r)' <=> IsDeployment(r)
    BY <2>1 DEF IsDeployment
  <2> QED
    BY <2>1, <2>2, LateHostStep
<1>3. CASE HandleServer \/ HandleVolume \/ HandleNetwork \/ HandlePort
  BY <1>3, OverwriteHostStep
<1>4. CASE ExpandNetwork
  BY <1>4, SubnetHostStep
<1>5. CASE UNCHANGED allVars
  <2>1. UNCHANGED <<tpl, phase, pos, req, visiting, resources, hot>>
    BY <1>5 DEF allVars, vars, cursors
  <2>2. \A r : /\ IsDeployment(r)' <=> IsDeployment(r)
               /\ Settled(r)' <=> Settled(r)
    BY <2>1 DEF IsDeployment, Settled
  <2>3. \A n, q : ConnectDone(n, q)' <=> ConnectDone(n, q)
    BY <2>1 DEF ConnectDone
  <2>4. SearchKeepsServers'
    <3>1. PICK n : n = AtResource.node
      OBVIOUS
    <3>2. PICK m : m = ConnectEnd
      OBVIOUS
    <3>3. PICK v : v = visiting
      OBVIOUS
    <3>4. n = AtResource.node' /\ m = ConnectEnd' /\ v = visiting'
      BY <2>1, <3>1, <3>2, <3>3 DEF AtResource, ConnectEnd, AtNode, Target
    <3>5. v # NoNode =>
            /\ phase = "lifecycle" /\ Runs(n) =>
                /\ tpl.kind[n] # "compute" /\ Component(v)
                /\ HostServers(v) = HostServers(n)
            /\ phase = "connect" =>
                Component(v) /\ HostServers(v) = HostServers(m)
      BY <3>1, <3>2, <3>3 DEF HostInv, SearchKeepsServers
    <3>6. /\ Runs(n)' <=> Runs(n)
          /\ Component(v)' <=> Component(v)
          /\ HostServers(v)' = HostServers(v)
          /\ HostServers(n)' = HostServers(n) /\ HostServers(m)' = HostServers(m)
      BY <2>1, SameHosts
    <3> QED
      BY <2>1, <3>4, <3>5, <3>6 DEF SearchKeepsServers
  <2> QED
    BY <2>1, <2>2, <2>3, <2>4, QuietHostStep, ConnectResource DEF IInv
<1> QED
  BY <1>1, <1>2, <1>3, <1>4, <1>5 DEF PassNext

\* It holds in the beginning.
LEMMA InitHostInv == Init => HostInv
<1> SUFFICES ASSUME Init PROVE HostInv
  OBVIOUS
<1>1. \A r \in Resource : ~ IsDeployment(r)
  BY DEF Init, IsDeployment, Blank, SD, SDGroup
<1> QED
  BY <1>1 DEF Init, HostInv, SearchKeepsServers, DeploymentsPlaced, NoneYet,
     ConnectsDeployed, ConnectDone, Removing

\* A deployment stays one.
LEMMA NextKeepsDeployments ==
    ASSUME IInv, HostInv, Next, NEW r \in Resource, IsDeployment(r)
    PROVE  IsDeployment(r)'
<1>1. hot \in [Resource -> HotAttributes]
  BY DEF IInv, TypeOK
<1>2. CASE CopyNode \/ AttachVolume
  BY <1>2 DEF HostInv, NoneYet, CopyNode, AttachVolume, AtRequirement
<1>3. \A v : Deployment(v).type \in {SD, SDGroup}
  BY DEF Deployment, Blank
<1>4. CASE HandleLifeCycle
  <2>1. \A n, v : OpDeployment(n, v).type \in {SD, SDGroup}
    BY <1>3 DEF OpDeployment, Blank
  <2>2. \A d : RolesDeployment(d).type \in {SD, SDGroup}
    BY DEF RolesDeployment, Blank
  <2>3. \E n : hot' = [x \in Resource |->
                    IF x \in OpDeploys(n) THEN OpDeployment(n, Visited(n))
                    ELSE IF tpl.roles[n] /\ x = Roles(n)
                         THEN RolesDeployment(OpDeployment(n, Visited(n)))
                         ELSE hot[x]]
    BY <1>4 DEF HandleLifeCycle
  <2> QED
    BY <2>1, <2>2, <2>3 DEF IsDeployment
<1>5. CASE HandleConnectsTo
  <2>1. \E x, v : hot' = [hot EXCEPT ![x] = Deployment(v)]
    BY <1>5 DEF HandleConnectsTo
  <2> QED
    BY <1>1, <1>3, <2>1 DEF IsDeployment
<1>6. CASE CopyDependency
  <2>1. hot' = hot \/ \E x, v : hot' = [hot EXCEPT ![x].server = v]
    BY <1>6 DEF CopyDependency
  <2> QED
    BY <1>1, <2>1 DEF IsDeployment, HotAttributes
<1>7. CASE HandleHosting
  <2>1. \E x, v : hot' = [hot EXCEPT ![x] = Pruned(x)]
                  \/ hot' = [hot EXCEPT ![x] = [Pruned(x) EXCEPT !.servers = v]]
    BY <1>7 DEF HandleHosting
  <2>2. Pruned(r) \in HotAttributes /\ Pruned(r).type = hot[r].type
    <3>1. hot[r] \in HotAttributes
      BY <1>1
    <3> QED
      BY <3>1 DEF Pruned, HotAttributes
  <2>3. \A v : [Pruned(r) EXCEPT !.servers = v].type = hot[r].type
    BY <2>2 DEF HotAttributes
  <2>4. PICK x : \/ hot' = [hot EXCEPT ![x] = Pruned(x)]
                 \/ \E v : hot' = [hot EXCEPT ![x] = [Pruned(x) EXCEPT !.servers = v]]
    BY <2>1
  <2>5. CASE x = r
    <3>1. hot'[r] = Pruned(r) \/ \E v : hot'[r] = [Pruned(r) EXCEPT !.servers = v]
      BY <1>1, <2>4, <2>5
    <3> QED
      BY <2>2, <2>3, <3>1 DEF IsDeployment
  <2>6. CASE x # r
    <3>1. hot'[r] = hot[r]
      BY <1>1, <2>4, <2>6
    <3> QED
      BY <3>1 DEF IsDeployment
  <2> QED
    BY <2>5, <2>6
<1>8. CASE \/ SkipVolume \/ NextNode \/ FinishNodes \/ FollowLifeCycleHosting
           \/ SkipAttachment \/ FinishLifeCycle \/ FollowConnectHosting
           \/ SkipConnect \/ FinishConnect \/ SkipRelated \/ FinishDepend
           \/ RaiseNoHost \/ FinishHosting \/ RemoveTypeless \/ FinishRemove
  <2>1. hot' = hot
    BY <1>8
       DEF SkipVolume, NextNode, FinishNodes, FollowLifeCycleHosting,
         SkipAttachment, FinishLifeCycle, FollowConnectHosting, FollowHosting,
         SkipConnect, FinishConnect, SkipRelated, FinishDepend, RaiseNoHost,
         FinishHosting, RemoveTypeless, FinishRemove
  <2> QED
    BY <2>1 DEF IsDeployment
<1> QED
  BY <1>2, <1>4, <1>5, <1>6, <1>7, <1>8 DEF Next

\* A deployment stays one, in every pass.
LEMMA PassKeepsDeployments ==
    ASSUME PInv, HostInv, [PassNext]_allVars, NEW r \in Resource, IsDeployment(r)
    PROVE  IsDeployment(r)'
<1>1. hot \in [Resource -> HotAttributes]
  BY DEF PInv, IInv, TypeOK
<1>2. CASE OtherPass
  BY <1>2, NextKeepsDeployments DEF OtherPass, PInv
<1>3. CASE HandleServer \/ HandleVolume \/ HandleNetwork \/ HandlePort
  <2>1. \E x : hot' = [hot EXCEPT ![x] = Blank(hot[x].type)]
    BY <1>3 DEF HandleServer, HandleVolume, HandleNetwork, HandlePort, Overwrite
  <2> QED
    BY <1>1, <2>1 DEF IsDeployment, Blank
<1>4. CASE ExpandNetwork
  <2>1. \E x : hot' = [hot EXCEPT ![Subnet(x)] = Blank("OS::Neutron::Subnet")]
    BY <1>4 DEF ExpandNetwork
  <2>2. \A x : r # Subnet(x)
    BY DEF HostInv, DeploymentsPlaced, Placed, Operation, Subnet
  <2> QED
    BY <1>1, <2>1, <2>2 DEF IsDeployment
<1>5. CASE UNCHANGED hot
  BY <1>5 DEF IsDeployment
<1> QED
  BY <1>2, <1>3, <1>4, <1>5
     DEF PassNext, WalkResource, WalkDependency, HandleOther, Bisect, InsertPort,
         FinishProperties, RaiseHalfRange, SkipExpansion, FinishExpansion,
         allVars, vars

-----------------------------------------------------------------------------
(* The theorems.                                                           *)

\* What the proofs assume of the templates.
AllHostable == \A t \in Templates : Hostable(t)

\* No step changes the template.
LEMMA PassTemplate == [PassNext]_allVars => UNCHANGED tpl
<1> SUFFICES ASSUME [PassNext]_allVars PROVE tpl' = tpl
  OBVIOUS
<1>1. CASE OtherPass
  BY <1>1, NextTemplate DEF OtherPass
<1>2. CASE \/ WalkResource \/ FinishProperties \/ RaiseHalfRange \/ SkipExpansion
           \/ FinishExpansion \/ ExpandNetwork
  BY <1>2 DEF WalkResource, FinishProperties, RaiseHalfRange, SkipExpansion,
     FinishExpansion, ExpandNetwork
<1>3. CASE \/ WalkDependency \/ HandleOther \/ Bisect \/ InsertPort
           \/ UNCHANGED allVars
  BY <1>3 DEF WalkDependency, HandleOther, Bisect, InsertPort, vars, allVars
<1>4. CASE HandleServer \/ HandleVolume \/ HandleNetwork \/ HandlePort
  BY <1>4 DEF HandleServer, HandleVolume, HandleNetwork, HandlePort
<1> QED
  BY <1>1, <1>2, <1>3, <1>4 DEF PassNext

\* A step of the translation, or one of Heat that leaves the output alone.
LEMMA StackStep == [StackNext]_stackVars => [PassNext]_allVars
  BY DEF StackNext, Translate, CreateResource, stackVars

\* The invariants hold for the translation and for what Heat does after it.
LEMMA StackInvariance == AllHostable /\ StackSpec => [](PInv /\ PassOrderInv /\ HostInv)
<1> SUFFICES ASSUME AllHostable
             PROVE  StackSpec => [](PInv /\ PassOrderInv /\ HostInv)
  OBVIOUS
<1>1. StackInit => PInv /\ PassOrderInv /\ HostInv
  BY InitPInv, InitPassOrderInv, InitHostInv DEF StackInit, PassInit
<1>2. PInv /\ PassOrderInv /\ HostInv /\ [StackNext]_stackVars
        => PInv' /\ PassOrderInv' /\ HostInv'
  <2> SUFFICES ASSUME PInv, PassOrderInv, HostInv, [PassNext]_allVars
               PROVE  PInv' /\ PassOrderInv' /\ HostInv'
    BY StackStep
  <2>1. Hostable(tpl)
    BY DEF PInv, IInv, AllHostable
  <2>2. PInv'
    BY PassKeepsIInv, PassTypeStep, WalkStep, InsertionStep DEF PInv
  <2> QED
    BY <2>1, <2>2, PassKeepsOrderInv, PassKeepsHostInv
<1> QED
  BY <1>1, <1>2, PTL DEF StackSpec

\* Whatever the template of that kind, every operation and every installation of
\* roles runs on the servers that host its node, at the end of the hosting
\* chain, in the property that the type of the deployment has.
THEOREM DeploymentsRunOnHosts == AllHostable /\ StackSpec => []DeployedOnHost
<1> SUFFICES ASSUME AllHostable PROVE StackSpec => []DeployedOnHost
  OBVIOUS
<1>1. PInv /\ PassOrderInv /\ HostInv => DeployedOnHost
  <2> SUFFICES ASSUME PInv, PassOrderInv, HostInv, phase = "done"
               PROVE  /\ \A n \in Node : \A r \in Deployments(n) : RunsOn(r) = HostServers(n)
                      /\ \A r \in ToSet(resources) : IsDeployment(r) => ServersAsTyped(r)
    BY DEF DeployedOnHost
  <2>0. tpl \in Templates /\ Hostable(tpl) /\ resources \in Seq(Resource)
    BY DEF PInv, IInv, TypeOK, AllHostable
  <2>1. ASSUME NEW n \in Node, NEW r \in Deployments(n)
        PROVE  RunsOn(r) = HostServers(n)
    <3>1. LifeCycleHandled(n)
      BY DEF LifeCycleHandled
    <3>2. IsDeployment(r)
      BY <3>1 DEF PassOrderInv, OrderInv, LifeCycleOrder
    <3>3. r \in Resource /\ r.node = n /\ r.part # "connect"
      BY <2>0, DeploymentsFacts
    <3>4. Placed(r) /\ PlaceOf(r) = n
      BY <3>2, <3>3 DEF HostInv, DeploymentsPlaced, PlaceOf
    <3> QED
      BY <2>0, <3>3, <3>4, PlacedServers
  <2>2. ASSUME NEW r \in ToSet(resources), IsDeployment(r)
        PROVE  ServersAsTyped(r)
    <3>1. r \in Resource
      BY <2>0 DEF ToSet
    <3>2. Placed(r) /\ Settled(r)
      BY <2>2, <3>1 DEF HostInv, DeploymentsPlaced, Settled
    <3>3. PICK S \in SUBSET Node :
            S # {} /\ IsFiniteSet(S) /\ hot[r] = HostAttributes(S)
      BY <2>0, <3>1, <3>2, PlacedServers DEF PlacedOn
    <3>4. /\ Reference(S).servers = S /\ Reference(S).form = "reference"
          /\ ServerMap(S).servers = S
          /\ Reference(S) # Absent /\ ServerMap(S) # Absent
      BY SentinelAssumption DEF Reference, ServerMap, ServerValue
    <3>5. Cardinality(S) \in Nat /\ Cardinality(S) # 0
      BY <3>3, FS_CardinalityType, FS_EmptySet
    <3> QED
      BY <3>3, <3>4, <3>5 DEF ServersAsTyped, HostAttributes, Blank, Given, SD, SDGroup
  <2> QED
    BY <2>1, <2>2
<1> QED
  BY <1>1, StackInvariance, PTL

\* Whatever the template of that kind, the deployment of a ConnectsTo runs on
\* the servers of the node that it configures.
THEOREM ConnectsRunOnEnds == AllHostable /\ StackSpec => []ConnectRunsOnEnd
<1> SUFFICES ASSUME AllHostable PROVE StackSpec => []ConnectRunsOnEnd
  OBVIOUS
<1>1. PInv /\ HostInv => ConnectRunsOnEnd
  <2> SUFFICES ASSUME PInv, HostInv, phase = "done",
                      NEW n \in Node, NEW q \in DOMAIN tpl.reqs[n],
                      tpl.reqs[n][q].configures # "nothing"
               PROVE  RunsOn(Connect(n, q)) = HostServers(EndOf(n, q))
    BY DEF ConnectRunsOnEnd, EndOf, Target
  <2>1. tpl \in Templates /\ Hostable(tpl)
    BY DEF PInv, IInv, AllHostable
  <2>2. PICK r \in Resource : r = Connect(n, q)
    BY <2>1, ConnectResource
  <2>3. IsDeployment(r)
    BY <2>2 DEF HostInv, ConnectsDeployed, ConnectDone, Removing
  <2>4. Placed(r) /\ PlaceOf(r) = EndOf(n, q)
    BY <2>2, <2>3 DEF HostInv, DeploymentsPlaced, PlaceOf, Connect
  <2> QED
    BY <2>1, <2>2, <2>4, PlacedServers
<1> QED
  BY <1>1, StackInvariance, PTL

\* Whatever the template of that kind, no pass moves a deployment that has
\* servers, and nothing that Heat does.
THEOREM HostsAreStable == AllHostable /\ StackSpec => HostIsStable
<1> SUFFICES ASSUME AllHostable PROVE StackSpec => HostIsStable
  OBVIOUS
<1>1. ASSUME PInv, PassOrderInv, HostInv, [StackNext]_stackVars
      PROVE  [\A r \in Resource :
                IsDeployment(r) /\ RunsOn(r) # {} => RunsOn(r)' = RunsOn(r)]_vars
  <2> SUFFICES ASSUME NEW r \in Resource, IsDeployment(r)
               PROVE  RunsOn(r)' = RunsOn(r)
    OBVIOUS
  <2>1. [PassNext]_allVars /\ tpl \in Templates /\ Hostable(tpl)
    BY <1>1, StackStep DEF PInv, IInv, AllHostable
  <2>2. IsDeployment(r)' /\ HostInv'
    BY <1>1, <2>1, PassKeepsDeployments, PassKeepsHostInv
  <2>3. tpl' = tpl
    BY <2>1, PassTemplate
  <2>4. Placed(r) /\ Placed(r)'
    BY <1>1, <2>2 DEF HostInv, DeploymentsPlaced
  <2>5. PICK S \in SUBSET Node :
            /\ S = HostServers(PlaceOf(r)) /\ S # {} /\ IsFiniteSet(S) /\ RunsOn(r) = S
    BY <2>1, <2>4, PlacedServers
  <2>6. PICK n : n = PlaceOf(r)
    OBVIOUS
  <2>7. n = PlaceOf(r)' /\ S = HostServers(n)'
    BY <2>3, <2>5, <2>6, SameHosts
  <2>8. PlacedOn(r, S)'
    BY <2>4, <2>7 DEF Placed
  <2>9. RunsOn(r)' = S
    BY <2>5, <2>8, HostAttributesFacts DEF PlacedOn, RunsOn
  <2> QED
    BY <2>5, <2>9
<1> QED
  BY <1>1, StackInvariance, PTL DEF StackSpec, HostIsStable

-----------------------------------------------------------------------------
(* Heat and the abstract specification.                                    *)

\* Heat begins when the output is there, and what a created resource waits for
\* is created.
CreatedInv ==
    /\ phase # "done" => created = {}
    /\ created \subseteq Resource
    /\ \A r \in created : WaitsFor(r) \subseteq created

\* The output is final.
LEMMA DoneIsFinal == phase = "done" => ~ PassNext
<1> SUFFICES ASSUME phase = "done", PassNext PROVE FALSE
  OBVIOUS
<1>1. ~ Next
  BY DEF Next, CopyNode, AttachVolume, SkipVolume, NextNode, FinishNodes,
     FollowLifeCycleHosting, HandleLifeCycle, SkipAttachment, FinishLifeCycle,
     FollowConnectHosting, HandleConnectsTo, SkipConnect, FinishConnect,
     CopyDependency, SkipRelated, FinishDepend, HandleHosting, RaiseNoHost,
     FinishHosting, RemoveTypeless, FinishRemove, AtRequirement
<1> QED
  BY <1>1 DEF PassNext, OtherPass, WalkResource, WalkDependency, HandleServer,
     HandleVolume, HandleOther, HandleNetwork, HandlePort, Bisect, InsertPort,
     FinishProperties, ExpandNetwork, RaiseHalfRange, SkipExpansion,
     FinishExpansion, Expanding, DependenciesWalked, InCall, Inserting, Running

\* Heat creates a resource after all it waits for, in an output that is final.
LEMMA CreatedStep ==
    ASSUME PInv, CreatedInv, [StackNext]_stackVars
    PROVE  CreatedInv'
<1>1. CASE Translate
  <2>1. phase # "done" /\ created = {} /\ created' = {}
    BY <1>1, DoneIsFinal DEF Translate, CreatedInv
  <2> QED
    BY <2>1 DEF CreatedInv
<1>2. CASE UNCHANGED stackVars \/ \E r \in Output : CreateResource(r)
  <2>1. UNCHANGED <<tpl, phase, hot, dependsOn>>
    BY <1>2 DEF stackVars, CreateResource, allVars, vars, cursors, links
  <2>2. \A r : WaitsFor(r)' = WaitsFor(r)
    BY <2>1 DEF WaitsFor, RunsOn
  <2>3. CASE UNCHANGED created
    BY <2>1, <2>2, <2>3 DEF CreatedInv
  <2>4. ASSUME NEW r \in Output, CreateResource(r)
        PROVE  CreatedInv'
    <3>1. /\ phase = "done" /\ created' = created \cup {r}
          /\ WaitsFor(r) \subseteq created
      BY <2>4 DEF CreateResource, References
    <3>2. r \in Resource
      BY DEF Output, PInv, IInv, TypeOK, ToSet
    <3> QED
      BY <2>1, <2>2, <3>1, <3>2 DEF CreatedInv
  <2> QED
    BY <1>2, <2>3, <2>4 DEF stackVars
<1> QED
  BY <1>1, <1>2 DEF StackNext

\* A set of resources with all that they wait for.
Closed(C) == \A r \in C : WaitsFor(r) \subseteq C

\* With a deployment it has those of the operations before.
LEMMA EarlierInClosed ==
    ASSUME tpl \in Templates, OrderInv, phase = "done", NEW C, Closed(C),
           NEW n \in Node, NEW op \in Declared(n), NEW later \in Declared(n),
           OpIndex[op] < OpIndex[later], OpDeploy(n, later) \in C
    PROVE  OpDeploy(n, op) \in C
<1>1. \A o, l \in Declared(n) :
        FollowsDirectly(n, o, l) /\ OpDeploy(n, l) \in C => OpDeploy(n, o) \in C
  <2>1. LifeCycleHandled(n)
    BY DEF LifeCycleHandled
  <2> QED
    BY <2>1 DEF OrderInv, LifeCycleOrder, Closed, WaitsFor
<1>2. CASE FollowsDirectly(n, op, later)
  BY <1>1, <1>2
<1>3. CASE ~ FollowsDirectly(n, op, later)
  <2>1. PICK o \in Declared(n) : OpIndex[op] < OpIndex[o] /\ OpIndex[o] < OpIndex[later]
    BY <1>3 DEF FollowsDirectly
  <2>2. \A x \in Declared(n) : x \in Operation
    BY TemplateFacts
  <2>3. \A x \in Operation : OpIndex[x] \in 0..2
    BY DEF OpIndex, Operation
  <2>4. FollowsDirectly(n, op, o) /\ FollowsDirectly(n, o, later)
    <3>1. \A x \in Declared(n) : OpIndex[x] \in 0..2
      BY <2>2, <2>3
    <3> QED
      BY <2>1, <3>1 DEF FollowsDirectly
  <2> QED
    BY <1>1, <2>4
<1> QED
  BY <1>2, <1>3

\* With the main resource of a node it has every deployment of the operations of
\* the nodes that it requires.
LEMMA RequiredInClosed ==
    ASSUME tpl \in Templates, OrderInv, phase = "done", NEW C, Closed(C),
           NEW n \in Node, Main(n) \in C,
           NEW q \in DOMAIN tpl.reqs[n], NEW o \in Declared(Target(n, q))
    PROVE  OpDeploy(Target(n, q), o) \in C
<1>1. PICK m \in Node : m = Target(n, q)
  BY TemplateFacts
<1>2. Declared(m) \subseteq Operation /\ LastOp(m) \in Declared(m)
  BY <1>1, TemplateFacts, LastOpFacts
<1>3. OpDeploy(m, LastOp(m)) \in C
  <2>1. DependDone(n, q)
    BY DEF DependDone, Removing
  <2> QED
    BY <1>1, <2>1 DEF OrderInv, LastCopied, Closed, WaitsFor
<1>4. OpIndex[o] <= OpIndex[LastOp(m)]
  <2>1. \E x \in Declared(m) : \A y \in Declared(m) : OpIndex[y] <= OpIndex[x]
    <3>1. CASE "start" \in Declared(m)
      BY <1>2, <3>1 DEF OpIndex, Operation
    <3>2. CASE "start" \notin Declared(m) /\ "configure" \in Declared(m)
      BY <1>2, <3>2 DEF OpIndex, Operation
    <3>3. CASE "start" \notin Declared(m) /\ "configure" \notin Declared(m)
      BY <1>1, <1>2, <3>3 DEF OpIndex, Operation
    <3> QED
      BY <3>1, <3>2, <3>3
  <2> QED
    BY <1>1, <2>1 DEF LastOp
<1>5. OpIndex[o] < OpIndex[LastOp(m)] \/ o = LastOp(m)
  <2>1. o \in Operation /\ LastOp(m) \in Operation
    BY <1>1, <1>2
  <2>2. \A x, y \in Operation :
            OpIndex[x] <= OpIndex[y] => OpIndex[x] < OpIndex[y] \/ x = y
    BY DEF OpIndex, Operation
  <2> QED
    BY <1>4, <2>1, <2>2
<1> QED
  BY <1>1, <1>2, <1>3, <1>5, EarlierInClosed

\* With a deployment of an operation it has the servers of the node, and the
\* main resource of the node.
LEMMA HostsInClosed ==
    ASSUME tpl \in Templates, Hostable(tpl), OrderInv, DeployedOnHost, phase = "done",
           NEW C, Closed(C), NEW n \in Node, NEW op \in Declared(n),
           OpDeploy(n, op) \in C
    PROVE  (\A s \in HostServers(n) : Main(s) \in C) /\ Main(n) \in C
<1>1. OpDeploy(n, op) \in Deployments(n)
  BY DEF Deployments, OpDeploys
<1>2. RunsOn(OpDeploy(n, op)) = HostServers(n)
  BY <1>1 DEF DeployedOnHost
<1>3. \A s \in HostServers(n) : Main(s) \in C
  BY <1>2 DEF Closed, WaitsFor
<1>4. CASE tpl.kind[n] = "compute"
  BY <1>3, <1>4, HostServersFacts DEF Hosted
<1>5. CASE tpl.kind[n] # "compute"
  <2>1. Declared(n) \subseteq Operation /\ FirstOp(n) \in Declared(n)
        /\ \A o \in Declared(n) : OpIndex[FirstOp(n)] <= OpIndex[o]
    BY TemplateFacts, FirstOpFacts
  <2>2. OpDeploy(n, FirstOp(n)) = Main(n)
    BY <1>5 DEF OpDeploy
  <2>3. \A x, y \in Operation :
            OpIndex[x] <= OpIndex[y] => OpIndex[x] < OpIndex[y] \/ x = y
    BY DEF OpIndex, Operation
  <2>4. OpIndex[FirstOp(n)] < OpIndex[op] \/ op = FirstOp(n)
    BY <2>1, <2>3
  <2> QED
    BY <1>3, <2>1, <2>2, <2>4, EarlierInClosed
<1> QED
  BY <1>3, <1>4, <1>5

\* What the refinement mapping reads.
LEMMA RanFacts ==
    \A n, o : <<n, o>> \in Ran <=>
                n \in Node /\ o \in Declared(n) /\ OpDeploy(n, o) \in created
  BY DEF Ran

\* A server comes up after the operations of the nodes that it requires.
LEMMA StartServerStep ==
    ASSUME IInv, OrderInv, CreatedInv, NEW n \in Node, tpl.kind[n] = "compute",
           CreateResource(Main(n))
    PROVE  Orchestrated!StartServer(n)
<1>1. /\ phase = "done" /\ Main(n) \notin created /\ tpl' = tpl
      /\ WaitsFor(Main(n)) \subseteq created
      /\ created' = created \cup {Main(n)}
  BY DEF CreateResource, References, allVars, vars
<1>2. PICK C : C = created \cup {Main(n)}
  OBVIOUS
<1>3. Closed(C)
  BY <1>1, <1>2 DEF Closed, CreatedInv
<1>4. \A m, o : o \in Declared(m) /\ m \in Node => OpDeploy(m, o) # Main(n)
  <2> SUFFICES ASSUME NEW m \in Node, NEW o \in Declared(m), OpDeploy(m, o) = Main(n)
               PROVE  FALSE
    OBVIOUS
  <2>1. o \in Operation
    BY TemplateFacts DEF IInv
  <2> QED
    BY <2>1 DEF OpDeploy, Main, Operation
<1>5. Orchestrated!RequirementsMet(n)
  <2> SUFFICES ASSUME NEW m \in Orchestrated!Required(n),
                      NEW x \in Orchestrated!Operations(m)
               PROVE  x \in Ran
    BY DEF Orchestrated!RequirementsMet
  <2>1. PICK q \in DOMAIN tpl.reqs[n] : m = Target(n, q)
    BY DEF Orchestrated!Required, Target
  <2>2. PICK o \in ToSet(tpl.ops[m]) : x = <<m, o>>
    BY DEF Orchestrated!Operations, Orchestrated!ToSet, ToSet
  <2>3. o \in Declared(m) /\ m \in Node
    BY <2>1, TemplateFacts DEF Declared, IInv
  <2>4. OpDeploy(m, o) \in C
    BY <1>1, <1>2, <1>3, <2>1, <2>3, RequiredInClosed DEF IInv
  <2> QED
    BY <1>2, <1>4, <2>2, <2>3, <2>4, RanFacts
<1>6. n \notin Up /\ Up' = Up \cup {n}
  <2>1. \A m \in Node : Main(m) = Main(n) => m = n
    BY DEF Main
  <2> QED
    BY <1>1, <2>1 DEF Up
<1>7. Ran' = Ran
  <2>1. \A m : /\ Declared(m)' = Declared(m)
               /\ \A o : OpDeploy(m, o)' = OpDeploy(m, o)
    BY <1>1, SameTemplate
  <2>2. \A m \in Node : {o \in Declared(m) : OpDeploy(m, o) \in created'} =
                        {o \in Declared(m) : OpDeploy(m, o) \in created}
    BY <1>1, <1>4
  <2> QED
    BY <2>1, <2>2 DEF Ran
<1> QED
  BY <1>1, <1>5, <1>6, <1>7 DEF Orchestrated!StartServer

\* An operation is complete after those that precede it in its node, those of
\* the nodes that its node requires, and its servers.
LEMMA RunOperationStep ==
    ASSUME IInv, OrderInv, CreatedInv, Hostable(tpl), DeployedOnHost,
           NEW n \in Node, NEW op \in Declared(n), CreateResource(OpDeploy(n, op))
    PROVE  Orchestrated!RunOperation(n, op)
<1> DEFINE r == OpDeploy(n, op)
<1>1. /\ phase = "done" /\ r \notin created /\ tpl' = tpl
      /\ WaitsFor(r) \subseteq created
      /\ created' = created \cup {r}
  BY DEF CreateResource, References, allVars, vars
<1>2. PICK C : C = created \cup {r}
  OBVIOUS
<1>3. Closed(C)
  BY <1>1, <1>2 DEF Closed, CreatedInv
<1>4. /\ tpl \in Templates /\ Declared(n) \subseteq Operation
      /\ r.node = n /\ (r.part = "main" => tpl.kind[n] # "compute")
  <2>1. tpl \in Templates /\ Declared(n) \subseteq Operation
    BY TemplateFacts DEF IInv
  <2> QED
    BY <2>1, ResourceFacts DEF OpDeploy, Operation
<1> HIDE DEF r
<1>5. ASSUME NEW m \in Node, NEW o \in Declared(m), OpDeploy(m, o) = r
      PROVE  m = n /\ o = op
  <2>1. o \in Operation
    BY <1>4, TemplateFacts
  <2>2. m = n
    BY <1>4, <1>5, <2>1, ResourceFacts
  <2> QED
    BY <1>4, <1>5, <2>2, OpDeployInjective DEF r
<1>6. \A m \in Node : tpl.kind[m] = "compute" => Main(m) # r
  BY <1>4, ResourceFacts
<1>7. op \in ToSet(tpl.ops[n]) /\ <<n, op>> \notin Ran
  BY <1>1, RanFacts DEF Declared, r
<1>8. Main(n) \in C /\ \A s \in HostServers(n) : Main(s) \in C
  BY <1>1, <1>2, <1>3, <1>4, HostsInClosed DEF r
<1>9. Orchestrated!Earlier(n, op) \subseteq Ran
  <2> SUFFICES ASSUME NEW x \in Orchestrated!Earlier(n, op) PROVE x \in Ran
    OBVIOUS
  <2>1. PICK o \in ToSet(tpl.ops[n]) :
            x = <<n, o>> /\ Orchestrated!Precedes(o, op)
    BY DEF Orchestrated!Earlier, Orchestrated!Operations, Orchestrated!ToSet, ToSet
  <2>2. o \in Declared(n) /\ o \in Operation /\ op \in Operation
    BY <1>4, <2>1 DEF Declared
  <2>3. OpIndex[o] < OpIndex[op]
    BY <2>1, <2>2
       DEF Orchestrated!Precedes, Orchestrated!Sequence, OpIndex, Operation
  <2>4. OpDeploy(n, op) \in C
    BY <1>2 DEF r
  <2>5. OpDeploy(n, o) \in C
    BY <1>1, <1>3, <1>4, <2>2, <2>3, <2>4, EarlierInClosed
  <2>6. o # op
    BY <2>2, <2>3 DEF OpIndex, Operation
  <2>7. OpDeploy(n, o) \in created
    BY <1>2, <1>5, <2>2, <2>5, <2>6
  <2> QED
    BY <2>1, <2>2, <2>7, RanFacts
<1>10. Orchestrated!RequirementsMet(n)
  <2> SUFFICES ASSUME NEW m \in Orchestrated!Required(n),
                      NEW x \in Orchestrated!Operations(m)
               PROVE  x \in Ran
    BY DEF Orchestrated!RequirementsMet
  <2>1. PICK q \in DOMAIN tpl.reqs[n] : m = Target(n, q)
    BY DEF Orchestrated!Required, Target
  <2>2. PICK o \in ToSet(tpl.ops[m]) : x = <<m, o>>
    BY DEF Orchestrated!Operations, Orchestrated!ToSet, ToSet
  <2>3. o \in Declared(m) /\ m \in Node /\ m < n
    BY <1>4, <2>1, TemplateFacts DEF Declared
  <2>4. OpDeploy(m, o) \in C
    BY <1>1, <1>3, <1>4, <1>8, <2>1, <2>3, RequiredInClosed
  <2>5. OpDeploy(m, o) \in created
    BY <1>2, <1>5, <2>3, <2>4 DEF Node
  <2> QED
    BY <2>2, <2>3, <2>5, RanFacts
<1>11. HostsIn(tpl, n) \subseteq Up
  <2>1. Hosted(n)
    BY <1>4, RunningHosted DEF Hosted
  <2>2. HostServers(n) \subseteq {s \in Node : tpl.kind[s] = "compute"}
    BY <1>4, <2>1, HostServersFacts
  <2>3. \A s \in HostServers(n) : Main(s) \in created
    BY <1>2, <1>6, <1>8, <2>2
  <2> QED
    BY <2>2, <2>3 DEF Up, HostServers
<1>12. Up' = Up
  BY <1>1, <1>6 DEF Up
<1>13. Ran' = Ran \cup {<<n, op>>}
  <2>1. \A m : /\ Declared(m)' = Declared(m)
               /\ \A o : OpDeploy(m, o)' = OpDeploy(m, o)
    BY <1>1, SameTemplate
  <2>2. Ran' = UNION {{<<m, o>> : o \in {y \in Declared(m) : OpDeploy(m, y) \in created'}} :
                        m \in Node}
    BY <2>1 DEF Ran
  <2>3. \A x : x \in Ran' <=> \E m \in Node : \E o \in Declared(m) :
                    x = <<m, o>> /\ (OpDeploy(m, o) \in created \/ OpDeploy(m, o) = r)
    BY <1>1, <2>2
  <2>4. \A x : x \in Ran <=> \E m \in Node : \E o \in Declared(m) :
                    x = <<m, o>> /\ OpDeploy(m, o) \in created
    BY DEF Ran
  <2>5. r = OpDeploy(n, op)
    BY DEF r
  <2> QED
    BY <1>5, <2>3, <2>4, <2>5
<1> QED
  BY <1>1, <1>7, <1>9, <1>10, <1>11, <1>12, <1>13
     DEF Orchestrated!RunOperation, Orchestrated!ToSet, ToSet

\* Whatever the template of that kind and the order in which Heat creates what
\* it may: a server comes up, an operation completes only when the abstract
\* specification lets it, and nothing else does.
THEOREM StackIsOrchestrated ==
    AllHostable /\ StackSpec =>
        Orchestrated!Init /\ [][Orchestrated!Next]_(Orchestrated!vars)
<1> SUFFICES ASSUME AllHostable
             PROVE  StackSpec => Orchestrated!Init
                                 /\ [][Orchestrated!Next]_(Orchestrated!vars)
  OBVIOUS
<1>1. StackInit => Orchestrated!Init /\ CreatedInv
  BY DEF StackInit, PassInit, Init, Orchestrated!Init, Up, Ran, CreatedInv
<1>2. PInv /\ CreatedInv /\ [StackNext]_stackVars => CreatedInv'
  BY CreatedStep
<1>3. ASSUME PInv, PassOrderInv, HostInv, CreatedInv, DeployedOnHost,
             [StackNext]_stackVars
      PROVE  [Orchestrated!Next]_(Orchestrated!vars)
  <2>0. /\ IInv /\ OrderInv /\ tpl \in Templates /\ Hostable(tpl)
        /\ resources \in Seq(Resource)
    BY <1>3 DEF PInv, IInv, TypeOK, PassOrderInv, AllHostable
  <2>1. CASE created' = created
    <3>1. tpl' = tpl
      BY <1>3, StackStep, PassTemplate
    <3>2. Up' = Up /\ Ran' = Ran
      <4>1. \A m : /\ Declared(m)' = Declared(m)
                   /\ \A o : OpDeploy(m, o)' = OpDeploy(m, o)
        BY <3>1, SameTemplate
      <4> QED
        BY <2>1, <3>1, <4>1 DEF Up, Ran
    <3> QED
      BY <3>1, <3>2 DEF Orchestrated!vars
  <2>2. ASSUME NEW r \in Output, CreateResource(r)
        PROVE  [Orchestrated!Next]_(Orchestrated!vars)
    <3>1. CASE \E n \in Node : tpl.kind[n] = "compute" /\ r = Main(n)
      BY <2>0, <1>3, <2>2, <3>1, StartServerStep DEF Orchestrated!Next
    <3>2. CASE \E n \in Node : \E op \in Declared(n) : r = OpDeploy(n, op)
      <4>0. PICK n \in Node : \E op \in Declared(n) : r = OpDeploy(n, op)
        BY <3>2
      <4>1. PICK op \in Declared(n) : r = OpDeploy(n, op)
        BY <4>0
      <4>2. Orchestrated!RunOperation(n, op)
        BY <2>0, <1>3, <2>2, <4>1, RunOperationStep
      <4>3. op \in Orchestrated!ToSet(tpl.ops[n])
        BY DEF Declared, Orchestrated!ToSet, ToSet
      <4> QED
        BY <4>2, <4>3 DEF Orchestrated!Next
    <3>3. CASE /\ ~ \E n \in Node : tpl.kind[n] = "compute" /\ r = Main(n)
               /\ ~ \E n \in Node : \E op \in Declared(n) : r = OpDeploy(n, op)
      <4>1. tpl' = tpl /\ created' = created \cup {r}
        BY <2>2 DEF CreateResource, allVars, vars
      <4>2. \A m : /\ Declared(m)' = Declared(m)
                   /\ \A o : OpDeploy(m, o)' = OpDeploy(m, o)
        BY <4>1, SameTemplate
      <4>3. Up' = Up
        BY <3>3, <4>1 DEF Up
      <4>4. \A m \in Node : {o \in Declared(m) : OpDeploy(m, o) \in created'} =
                            {o \in Declared(m) : OpDeploy(m, o) \in created}
        BY <3>3, <4>1
      <4>5. Ran' = Ran
        BY <4>2, <4>4 DEF Ran
      <4> QED
        BY <4>1, <4>3, <4>5 DEF Orchestrated!vars
    <3> QED
      BY <3>1, <3>2, <3>3
  <2> QED
    BY <1>3, <2>1, <2>2 DEF StackNext, Translate, stackVars
<1> QED
  BY <1>1, <1>2, <1>3, StackInvariance, DeploymentsRunOnHosts, PTL DEF StackSpec

===============================================================================
