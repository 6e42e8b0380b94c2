--------------------------- MODULE NodeTranslation ---------------------------
(***************************************************************************)
(* TranslateNodeTemplates._translate_nodetemplates                         *)
(* (src/translator/hot/translate_node_templates.py): a list of HOT         *)
(* resources is built from the TOSCA node templates and then rewritten in  *)
(* place by a fixed series of passes.  The passes modelled here decide     *)
(* which deployments exist, the server each runs on and the order in which *)
(* Heat will run them:                                                     *)
(*                                                                         *)
(*   nodes      one main resource per node template, and the volume        *)
(*              attachments of a Compute;                                  *)
(*   lifecycle  handle_life_cycle of every resource: a deployment per      *)
(*              operation, chained, and a deployment of the Ansible roles; *)
(*   connect    a deployment per ConnectsTo that configures something;     *)
(*   depend     the requirements become depends_on or a server property;   *)
(*   hosting    handle_hosting of every resource;                          *)
(*   remove     resources that never got a type are dropped.               *)
(*                                                                         *)
(* A deployment stands for the pair the code makes, a SoftwareConfig and   *)
(* the SoftwareDeployment that refers to it: a SoftwareConfig has no       *)
(* dependency and no server, and no pass changes it.  The property pass    *)
(* and the expansion, between hosting and remove, are in PropertyPass;     *)
(* policies, which have no operations, are another component.              *)
(***************************************************************************)
EXTENDS Integers, FiniteSets, SequencesExt

CONSTANTS
    NumNodes,         \* bound: node templates of a service template
    MaxRequirements,  \* bound: requirements of a node template
    Templates,        \* the service templates that may be translated
    NoResource,       \* None, where a resource is expected
    Absent            \* a key that a properties dictionary does not have

VARIABLES
    tpl,             \* the parsed service template: self.tosca
    phase,           \* the pass that is running
    pos, req,        \* its cursors: a place in a list, a requirement of a node
    visiting,        \* the node whose requirements _get_hosting_server reads
    resources,       \* self.hot_resources
    expanded,        \* lifecycle_resources, then connectsto_resources
    hot,             \* per resource: its type and its server properties
    dependsOn,       \* per resource: depends_on
    dependsOnNodes,  \* per resource: depends_on_nodes
    chain,           \* group_dependencies: a deployment to the next of its node
    lastDeploy       \* last_deploy_map

cursors == <<phase, pos, req, visiting>>
links   == <<dependsOn, dependsOnNodes, chain, lastDeploy>>
vars    == <<tpl, cursors, resources, expanded, hot, links>>

-----------------------------------------------------------------------------
(* The TOSCA template, as tosca-parser hands it over.  Nodes are numbered   *)
(* so that a requirement points to a smaller number: no cycles.             *)

Node   == 1..NumNodes
NoNode == 0

Operation == {"create", "configure", "start"}

\* Place of an operation in operations_deploy_sequence.
OpIndex ==
    [op \in Operation |-> CASE op = "create" -> 0 [] op = "configure" -> 1
                             [] op = "start" -> 2]

\* What a ConnectsTo configures: nothing if it has no interfaces, or else the end
\* whose pre_configure operation they have.  Interfaces with neither operation,
\* for which _create_connect_config raises, are left out.
Requirement ==
    [target     : Node,
     relation   : {"HostedOn", "DependsOn", "ConnectsTo", "AttachesTo",
                   "LinksTo", "BindsTo"},
     configures : {"nothing", "target", "source"}]

\* A node is a Compute, a software component (no HOT type of its own), a
\* BlockStorage, a network or a port of a server on a network.  A network is to
\* be created, exists (it is named by its identifier, or by its name alone), or
\* gives only one end of the address range of its subnet.
Template ==
    [listing : Seq(Node),                     \* tosca.nodetemplates, in order
     kind    : [Node -> {"compute", "software", "volume", "network", "port"}],
     ops     : [Node -> Seq(Operation)],      \* in the order they are declared
     roles   : [Node -> BOOLEAN],             \* has AnsibleGalaxy role artifacts
     order   : [Node -> Nat],                 \* the property of a port
     network : [Node -> {"new", "existing", "half range"}],
     reqs    : [Node -> Seq(Requirement)]]

WellFormed(t) ==
    /\ t \in Template
    /\ IsInjective(t.listing) /\ ToSet(t.listing) = Node
    /\ \A n \in Node :
        /\ IsInjective(t.ops[n])
        /\ t.kind[n] \in {"network", "port"} => t.ops[n] = <<>> /\ ~ t.roles[n]
        /\ Len(t.reqs[n]) <= MaxRequirements
        /\ \A q \in 1..Len(t.reqs[n]) :
            LET r == t.reqs[n][q] IN
            /\ r.target < n
            /\ r.configures # "nothing" => r.relation = "ConnectsTo"
            /\ r.relation = "AttachesTo" =>
                   t.kind[n] = "compute" /\ t.kind[r.target] = "volume"
            /\ r.relation = "LinksTo" =>
                   t.kind[n] = "port" /\ t.kind[r.target] = "network"
            /\ r.relation = "BindsTo" =>
                   t.kind[n] = "port" /\ t.kind[r.target] = "compute"
            /\ t.kind[n] = "port" =>
                   r.relation \in {"LinksTo", "BindsTo", "DependsOn"}

ASSUME BoundsAssumption == NumNodes \in Nat \ {0} /\ MaxRequirements \in Nat
ASSUME TemplatesAssumption == \A t \in Templates : WellFormed(t)

-----------------------------------------------------------------------------
(* HOT resources are objects: an identity that never changes, while the     *)
(* attributes do.  "main" is the resource created for the node itself.      *)

Resource ==
    [node : Node, part : Operation \cup {"main", "roles", "subnet"}, req : {0}]
    \cup
    [node : Node, part : {"connect", "attachment"}, req : 1..MaxRequirements]

Main(n)          == [node |-> n, part |-> "main", req |-> 0]
Roles(n)         == [node |-> n, part |-> "roles", req |-> 0]
Connect(n, q)    == [node |-> n, part |-> "connect", req |-> q]
Attachment(n, q) == [node |-> n, part |-> "attachment", req |-> q]

SD      == "OS::Heat::SoftwareDeployment"
SDGroup == "OS::Heat::SoftwareDeploymentGroup"
HotType == {"None", "OS::Nova::Server", "OS::Cinder::Volume",
            "OS::Cinder::VolumeAttachment", "OS::Neutron::Net",
            "OS::Neutron::Subnet", "OS::Neutron::Port", SD, SDGroup}

\* The value of a server property: {'get_resource': s}, or a dictionary that
\* maps the name of each server to such a reference.
ServerValue == [form : {"reference", "map"}, servers : SUBSET Node]
Reference(S) == [form |-> "reference", servers |-> S]
ServerMap(S) == [form |-> "map", servers |-> S]

\* Truth of a property as Python has it: a missing one and {} are false.
Given(v) == v # Absent /\ v.servers # {}

ASSUME SentinelAssumption ==
    NoResource \notin Resource /\ Absent \notin ServerValue

HotAttributes ==
    [type    : HotType,
     server  : ServerValue \cup {Absent},
     servers : ServerValue \cup {Absent}]

Blank(type) == [type |-> type, server |-> Absent, servers |-> Absent]

-----------------------------------------------------------------------------
(* Operations of a node and the deployments that run them.                 *)

Declared(n) == ToSet(tpl.ops[n])

FirstOp(n) ==
    CHOOSE op \in Declared(n) :
        \A o \in Declared(n) : OpIndex[op] <= OpIndex[o]

\* Plausible bug: the first operation is recorded as the last.
LastOpIsFirst(n) == FirstOp(n)

LastOp(n) ==
    CHOOSE op \in Declared(n) :
        \A o \in Declared(n) : OpIndex[o] <= OpIndex[op]

\* A node that is not a Compute turns its main resource into the deployment
\* of its first operation.
OpDeploy(n, op) ==
    IF tpl.kind[n] # "compute" /\ op = FirstOp(n)
    THEN Main(n)
    ELSE [node |-> n, part |-> op, req |-> 0]

OpDeploys(n) == {OpDeploy(n, op) : op \in Declared(n)}

\* Plausible bug: the loop looks after the operation instead of before it.
FollowsDirectlyReversed(n, op, later) ==
    /\ {op, later} \subseteq Declared(n)
    /\ OpIndex[later] < OpIndex[op]
    /\ ~ \E o \in Declared(n) :
            OpIndex[later] < OpIndex[o] /\ OpIndex[o] < OpIndex[op]

\* `later` is the operation that the loop over deploy_lookup places right
\* after `op`.
FollowsDirectly(n, op, later) ==
    /\ {op, later} \subseteq Declared(n)
    /\ OpIndex[op] < OpIndex[later]
    /\ ~ \E o \in Declared(n) :
            OpIndex[op] < OpIndex[o] /\ OpIndex[o] < OpIndex[later]

\* Plausible bug: the end of a chain gives None instead of itself.
TopOfChainOrNone(r) == IF chain[r] = r THEN NoResource ELSE chain[chain[r]]

\* At most three operations, so two steps reach the end of any chain.
TopOfChain(r) == chain[chain[r]]

-----------------------------------------------------------------------------
(* The search for the hosting server.                                      *)

Target(n, q) == tpl.reqs[n][q].target

IsContainer(n, q) == tpl.kind[Target(n, q)] = "compute"

Containers(n) == {q \in DOMAIN tpl.reqs[n] : IsContainer(n, q)}

\* _get_hosting_server(n) calls itself on the target of requirement q: it is
\* no Compute, it has requirements, and no requirement before q stopped the
\* search or found a server.
Redirects(n, q) ==
    /\ ~ IsContainer(n, q)
    /\ tpl.reqs[Target(n, q)] # <<>>
    /\ \A p \in 1..(q - 1) :
        ~ IsContainer(n, p) /\ tpl.reqs[Target(n, p)] = <<>>

Redirected(n) == \E q \in DOMAIN tpl.reqs[n] : Redirects(n, q)

\* HOTSoftwareDeploymentResources for the servers that the call on v found.
Deployment(v) ==
    LET servers == {Target(v, q) : q \in Containers(v)} IN
    CASE Containers(v) = {} ->
            [Blank(SD) EXCEPT !.server = ServerMap({})]
      [] Cardinality(Containers(v)) = 1 ->
            [Blank(SD) EXCEPT !.server = Reference(servers)]
      [] OTHER ->
            [Blank(SDGroup) EXCEPT !.servers = ServerMap(servers)]

\* Plausible bug: a Compute is treated as a component without a host.
OpDeploymentUnhosted(n, v) == Deployment(v)

\* A Compute without a host runs its own operations.
OpDeployment(n, v) ==
    IF Containers(v) = {} /\ tpl.kind[n] = "compute"
    THEN [Blank(SD) EXCEPT !.server = Reference({n})]
    ELSE Deployment(v)

\* The roles get HOTSoftwareDeploymentResources of the dictionary `servers`,
\* whose length is the number of its keys.
RolesDeployment(d) ==
    LET value == IF d.server = Absent THEN d.servers ELSE d.server IN
    IF value.form = "reference" \/ Cardinality(value.servers) = 1
    THEN [Blank(SD) EXCEPT !.server = value]
    ELSE [Blank(SDGroup) EXCEPT !.servers = value]

-----------------------------------------------------------------------------
Init ==
    /\ tpl \in Templates
    /\ phase = "nodes" /\ pos = 1 /\ req = 0 /\ visiting = NoNode
    /\ resources = <<>> /\ expanded = <<>>
    /\ hot = [r \in Resource |-> Blank("None")]
    /\ dependsOn = [r \in Resource |-> <<>>]
    /\ dependsOnNodes = [r \in Resource |-> <<>>]
    /\ chain = [r \in Resource |-> r]
    /\ lastDeploy = [n \in Node |-> NoResource]

AtNode   == tpl.listing[pos]
AtResource == resources[pos]

EnterPhase(next) ==
    phase' = next /\ pos' = 1 /\ req' = 1 /\ visiting' = NoNode

NextPosition ==
    /\ pos' = pos + 1 /\ req' = (IF phase = "nodes" THEN 0 ELSE 1)
    /\ visiting' = NoNode
    /\ UNCHANGED phase

NextRequirement ==
    req' = req + 1 /\ visiting' = NoNode /\ UNCHANGED <<phase, pos>>

(* Pass "nodes".                                                           *)

\* The type that the class of the node passes to HotResource.__init__.
MainType(n) ==
    CASE tpl.kind[n] = "compute"  -> "OS::Nova::Server"
      [] tpl.kind[n] = "software" -> "None"
      [] tpl.kind[n] = "network"  -> "OS::Neutron::Net"
      [] tpl.kind[n] = "port"     -> "OS::Neutron::Port"
      [] OTHER                    -> "OS::Cinder::Volume"

\* A main resource for the node; its requirements come next.
CopyNode ==
    /\ phase = "nodes" /\ pos <= Len(tpl.listing) /\ req = 0
    /\ resources' = Append(resources, Main(AtNode))
    /\ hot' = [hot EXCEPT ![Main(AtNode)] = Blank(MainType(AtNode))]
    /\ NextRequirement
    /\ UNCHANGED <<tpl, expanded, links>>

AtRequirement(pass) ==
    /\ phase = pass /\ pos <= Len(tpl.listing)
    /\ req \in 1..Len(tpl.reqs[AtNode])

\* Requirement q of a Compute names a BlockStorage, and _get_attachment_node
\* finds an AttachesTo relationship to it.
Attaches(n, q) ==
    \E p \in DOMAIN tpl.reqs[n] :
        tpl.reqs[n][p].relation = "AttachesTo" /\ Target(n, p) = Target(n, q)

AttachVolume ==
    /\ AtRequirement("nodes") /\ Attaches(AtNode, req)
    /\ LET r == Attachment(AtNode, req) IN
        /\ resources' = Append(resources, r)
        /\ hot' = [hot EXCEPT ![r] = Blank("OS::Cinder::VolumeAttachment")]
    /\ NextRequirement
    /\ UNCHANGED <<tpl, expanded, links>>

SkipVolume ==
    /\ AtRequirement("nodes") /\ ~ Attaches(AtNode, req)
    /\ NextRequirement
    /\ UNCHANGED <<tpl, resources, expanded, hot, links>>

\* The loop over the requirements of a node is over.
NextNode ==
    /\ phase \in {"nodes", "connect", "depend"} /\ pos <= Len(tpl.listing)
    /\ req > Len(tpl.reqs[AtNode])
    /\ NextPosition
    /\ UNCHANGED <<tpl, resources, expanded, hot, links>>

FinishNodes ==
    /\ phase = "nodes" /\ pos > Len(tpl.listing)
    /\ EnterPhase("lifecycle")
    /\ UNCHANGED <<tpl, resources, expanded, hot, links>>

(* Pass "lifecycle".                                                       *)

\* node_template of the running call of _get_hosting_server: the argument of
\* a nested call, the resource's own node of the first.
Visited(own) == IF visiting = NoNode THEN own ELSE visiting

\* Plausible bug: the nested call gets the same node again.
FollowHostingAgain(own) ==
    /\ \E q \in DOMAIN tpl.reqs[Visited(own)] :
        /\ Redirects(Visited(own), q)
        /\ visiting' = Visited(own)
    /\ UNCHANGED <<tpl, phase, pos, req, resources, expanded, hot, links>>

\* A nested call of _get_hosting_server.
FollowHosting(own) ==
    /\ \E q \in DOMAIN tpl.reqs[Visited(own)] :
        /\ Redirects(Visited(own), q)
        /\ visiting' = Target(Visited(own), q)
    /\ UNCHANGED <<tpl, phase, pos, req, resources, expanded, hot, links>>

FollowLifeCycleHosting ==
    /\ phase = "lifecycle" /\ pos <= Len(resources)
    /\ AtResource.part = "main"
    /\ FollowHosting(AtResource.node)

\* The deployments a node adds to lifecycle_resources: one per operation in
\* the order of declaration, without the one its main resource turned into.
AddedDeploys(n) ==
    LET all == [i \in DOMAIN tpl.ops[n] |-> OpDeploy(n, tpl.ops[n][i])]
    IN  RemoveFirst(all, Main(n))

\* Plausible bug: nothing waits for the roles.
LifeCycleDependenciesOnOps(n, r) ==
    {OpDeploy(n, op) : op \in {o \in Declared(n) :
        \E later \in Declared(n) :
            r = OpDeploy(n, later) /\ FollowsDirectly(n, o, later)}}

\* The dependencies that handle_life_cycle gives r: on the deployment of the
\* operation before it, and, for the first operation, on the roles -- but
\* `op_index_min` is false when it is 0, the index of create.
LifeCycleDependencies(n, r) ==
    {OpDeploy(n, op) : op \in {o \in Declared(n) :
        \E later \in Declared(n) :
            r = OpDeploy(n, later) /\ FollowsDirectly(n, o, later)}}
    \cup {x \in {Roles(n)} :
            /\ tpl.roles[n] /\ Declared(n) # {}
            /\ OpIndex[FirstOp(n)] > 0 /\ r = OpDeploy(n, FirstOp(n))}

\* Every resource gains at most one dependency here.
AppendLifeCycle(n, d) ==
    [r \in Resource |->
        IF LifeCycleDependencies(n, r) = {} THEN d[r]
        ELSE Append(d[r], CHOOSE x \in LifeCycleDependencies(n, r) : TRUE)]

HandleLifeCycle ==
    /\ phase = "lifecycle" /\ pos <= Len(resources)
    /\ AtResource.part = "main"
    /\ ~ Redirected(Visited(AtResource.node))
    /\ LET n == AtResource.node
           deployment == OpDeployment(n, Visited(n))
       IN
        /\ expanded' = expanded \o AddedDeploys(n)
                        \o (IF tpl.roles[n] THEN <<Roles(n)>> ELSE <<>>)
        /\ hot' = [r \in Resource |->
                    IF r \in OpDeploys(n) THEN deployment
                    ELSE IF tpl.roles[n] /\ r = Roles(n)
                         THEN RolesDeployment(deployment)
                         ELSE hot[r]]
        /\ dependsOn' = AppendLifeCycle(n, dependsOn)
        /\ dependsOnNodes' = AppendLifeCycle(n, dependsOnNodes)
        /\ chain' = [r \in Resource |->
                IF \E op, later \in Declared(n) :
                        FollowsDirectly(n, op, later) /\ r = OpDeploy(n, op)
                THEN CHOOSE x \in OpDeploys(n) :
                        \E op, later \in Declared(n) :
                            /\ FollowsDirectly(n, op, later)
                            /\ r = OpDeploy(n, op) /\ x = OpDeploy(n, later)
                ELSE chain[r]]
        /\ lastDeploy' = IF Declared(n) = {} THEN lastDeploy
                         ELSE [lastDeploy EXCEPT ![n] = OpDeploy(n, LastOp(n))]
    /\ NextPosition
    /\ UNCHANGED <<tpl, resources>>

\* ToscaBlockStorageAttachment.handle_life_cycle returns nothing.
SkipAttachment ==
    /\ phase = "lifecycle" /\ pos <= Len(resources)
    /\ AtResource.part = "attachment"
    /\ NextPosition
    /\ UNCHANGED <<tpl, resources, expanded, hot, links>>

FinishLifeCycle ==
    /\ phase = "lifecycle" /\ pos > Len(resources)
    /\ resources' = resources \o expanded
    /\ expanded' = <<>>
    /\ EnterPhase("connect")
    /\ UNCHANGED <<tpl, hot, links>>

(* Pass "connect": _create_connect_configs for each requirement, in order.  *)

\* Plausible bug: the configuration always belongs to the source.
ConnectEndIsSource == AtNode

\* The node the configuration belongs to: its resource is hot_depends, and
\* the search for the server starts from it.
ConnectEnd ==
    IF tpl.reqs[AtNode][req].configures = "target"
    THEN Target(AtNode, req) ELSE AtNode

ConfiguresNothing == tpl.reqs[AtNode][req].configures = "nothing"

FollowConnectHosting ==
    /\ AtRequirement("connect") /\ ~ ConfiguresNothing
    /\ FollowHosting(ConnectEnd)

HandleConnectsTo ==
    /\ AtRequirement("connect") /\ ~ ConfiguresNothing
    /\ ~ Redirected(Visited(ConnectEnd))
    /\ LET r == Connect(AtNode, req) IN
        /\ expanded' = Append(expanded, r)
        /\ hot' = [hot EXCEPT ![r] = Deployment(Visited(ConnectEnd))]
        /\ dependsOn' = [dependsOn EXCEPT ![r] = <<Main(ConnectEnd)>>]
        /\ dependsOnNodes' = [dependsOnNodes EXCEPT ![r] = <<Main(ConnectEnd)>>]
    /\ NextRequirement
    /\ UNCHANGED <<tpl, resources, chain, lastDeploy>>

SkipConnect ==
    /\ AtRequirement("connect") /\ ConfiguresNothing
    /\ NextRequirement
    /\ UNCHANGED <<tpl, resources, expanded, hot, links>>

FinishConnect ==
    /\ phase = "connect" /\ pos > Len(tpl.listing)
    /\ resources' = resources \o expanded
    /\ expanded' = <<>>
    /\ EnterPhase("depend")
    /\ UNCHANGED <<tpl, hot, links>>

(* Pass "depend".  node.related holds a target once, at the place of the    *)
(* first requirement that names it, with the relation of the last.          *)

SameTarget(n, q) == {p \in DOMAIN tpl.reqs[n] : Target(n, p) = Target(n, q)}

NamedBefore(n, q) == \E p \in SameTarget(n, q) : p < q

RelatedBy(n, q) ==
    LET last == CHOOSE p \in SameTarget(n, q) : \A o \in SameTarget(n, q) : o <= p
    IN  tpl.reqs[n][last].relation

\* The dependency becomes a reference of the server property.
HostedOnCompute(n, q) == IsContainer(n, q) /\ RelatedBy(n, q) = "HostedOn"

DependOnTop(n, q) ==
    IF HostedOnCompute(n, q) THEN dependsOn[Main(n)]
    ELSE Append(dependsOn[Main(n)], TopOfChain(Main(Target(n, q))))

\* The last deployment of the target is still to be added.
AddsLast(n, q) ==
    /\ lastDeploy[Target(n, q)] # NoResource
    /\ ~ Contains(DependOnTop(n, q), lastDeploy[Target(n, q)])

CopiedDependsOn(n, q) ==
    IF AddsLast(n, q)
    THEN Append(DependOnTop(n, q), lastDeploy[Target(n, q)])
    ELSE DependOnTop(n, q)

CopiedDependsOnNodes(n, q) ==
    LET nodes == Append(dependsOnNodes[Main(n)], TopOfChain(Main(Target(n, q))))
    IN  IF AddsLast(n, q) THEN Append(nodes, lastDeploy[Target(n, q)]) ELSE nodes

CopyDependency ==
    /\ AtRequirement("depend") /\ ~ NamedBefore(AtNode, req)
    /\ LET main == Main(AtNode) IN
        /\ hot' = IF HostedOnCompute(AtNode, req)
                  THEN [hot EXCEPT ![main].server =
                            Reference({Target(AtNode, req)})]
                  ELSE hot
        /\ dependsOn' =
                [dependsOn EXCEPT ![main] = CopiedDependsOn(AtNode, req)]
        /\ dependsOnNodes' =
                [dependsOnNodes EXCEPT ![main] = CopiedDependsOnNodes(AtNode, req)]
    /\ NextRequirement
    /\ UNCHANGED <<tpl, resources, expanded, chain, lastDeploy>>

SkipRelated ==
    /\ AtRequirement("depend") /\ NamedBefore(AtNode, req)
    /\ NextRequirement
    /\ UNCHANGED <<tpl, resources, expanded, hot, links>>

FinishDepend ==
    /\ phase = "depend" /\ pos > Len(tpl.listing)
    /\ EnterPhase("hosting")
    /\ UNCHANGED <<tpl, resources, expanded, hot, links>>

(* Pass "hosting".                                                         *)

IsDeployment(r) == hot[r].type \in {SD, SDGroup}

\* Plausible bugs: both properties stay; the wrong one goes.
PrunedNever(r) == hot[r]
PrunedServers(r) ==
    IF Given(hot[r].servers) /\ Given(hot[r].server)
    THEN [hot[r] EXCEPT !.servers = Absent] ELSE hot[r]

\* The attributes of r once the single server gave way to the list.
Pruned(r) ==
    IF Given(hot[r].servers) /\ Given(hot[r].server)
    THEN [hot[r] EXCEPT !.server = Absent] ELSE hot[r]

HostServer(r) ==
    IF Given(Pruned(r).servers) THEN Pruned(r).servers ELSE Pruned(r).server

HandleHosting ==
    /\ phase = "hosting" /\ pos <= Len(resources)
    /\ LET r == AtResource IN
        /\ IsDeployment(r) => HostServer(r) # Absent
        /\ hot' = [hot EXCEPT ![r] =
                    IF IsDeployment(r) /\ HostServer(r).form = "map"
                    THEN [Pruned(r) EXCEPT !.servers = HostServer(r)]
                    ELSE Pruned(r)]
    /\ NextPosition
    /\ UNCHANGED <<tpl, resources, expanded, links>>

\* "Internal Error: expecting host in software deployment"
RaiseNoHost ==
    /\ phase = "hosting" /\ pos <= Len(resources)
    /\ IsDeployment(AtResource) /\ HostServer(AtResource) = Absent
    /\ EnterPhase("failed")
    /\ UNCHANGED <<tpl, resources, expanded, hot, links>>

FinishHosting ==
    /\ phase = "hosting" /\ pos > Len(resources)
    /\ EnterPhase("remove")
    /\ UNCHANGED <<tpl, resources, expanded, hot, links>>

(* Pass "remove": one resource without a type at a time, from the list and  *)
(* from the depends_on of every resource that stays.  The two lists of a    *)
(* connect deployment are one object (HotResource.__init__).                *)

Typeless == {i \in DOMAIN resources : hot[resources[i]].type = "None"}

\* Plausible bug: only the main resources are cleaned of the removed ones.
StaysMain(r) ==
    Contains(resources, r) /\ hot[r].type # "None" /\ r.part = "main"

Stays(r) == Contains(resources, r) /\ hot[r].type # "None"

RemoveTypeless ==
    /\ phase = "remove"
    /\ \E i \in Typeless :
        /\ \A j \in Typeless : i <= j
        /\ LET gone == resources[i] IN
            /\ resources' = RemoveFirst(resources, gone)
            /\ dependsOn' = [r \in Resource |->
                    IF Stays(r) THEN RemoveFirst(dependsOn[r], gone)
                    ELSE dependsOn[r]]
            /\ dependsOnNodes' = [r \in Resource |->
                    IF Stays(r) /\ r.part = "connect"
                    THEN RemoveFirst(dependsOnNodes[r], gone)
                    ELSE dependsOnNodes[r]]
    /\ UNCHANGED <<tpl, cursors, expanded, hot, chain, lastDeploy>>

FinishRemove ==
    /\ phase = "remove" /\ Typeless = {}
    /\ EnterPhase("done")
    /\ UNCHANGED <<tpl, resources, expanded, hot, links>>

Next ==
    \/ CopyNode \/ AttachVolume \/ SkipVolume \/ NextNode \/ FinishNodes
    \/ FollowLifeCycleHosting \/ HandleLifeCycle \/ SkipAttachment
    \/ FinishLifeCycle
    \/ FollowConnectHosting \/ HandleConnectsTo \/ SkipConnect \/ FinishConnect
    \/ CopyDependency \/ SkipRelated \/ FinishDepend
    \/ HandleHosting \/ RaiseNoHost \/ FinishHosting
    \/ RemoveTypeless \/ FinishRemove

\* The translator is one thread that keeps running.
Spec == Init /\ [][Next]_vars /\ WF_vars(Next)

-----------------------------------------------------------------------------
(* Properties.                                                             *)

Phase == {"nodes", "lifecycle", "connect", "depend", "hosting", "remove",
          "done", "failed"}

\* Type invariant of the translator's state.
TypeOK ==
    /\ tpl \in Template
    /\ phase \in Phase /\ pos \in Nat \ {0} /\ req \in Nat
    /\ visiting \in Node \cup {NoNode}
    /\ resources \in Seq(Resource) /\ expanded \in Seq(Resource)
    /\ hot \in [Resource -> HotAttributes]
    /\ dependsOn \in [Resource -> Seq(Resource)]
    /\ dependsOnNodes \in [Resource -> Seq(Resource)]
    /\ chain \in [Resource -> Resource]
    /\ lastDeploy \in [Node -> Resource \cup {NoResource}]

\* Place of a resource in one order that every template agrees with: a node
\* after the nodes it requires; in a node, a server before what runs on it,
\* the roles before the operations, the operations in their sequence.
PartRank(r) ==
    CASE r.part = "main"      -> IF tpl.kind[r.node] = "compute" THEN 1 ELSE 3
      [] r.part = "roles"     -> 2
      [] r.part \in Operation -> 4 + OpIndex[r.part]
      [] OTHER                -> 7

Rank(r) == 10 * r.node + PartRank(r)

\* The servers whose name is in a server property.
ServersOf(attributes) ==
    UNION {v.servers : v \in {attributes.server, attributes.servers} \ {Absent}}

RunsOn(r) == ServersOf(hot[r])

\* The resources Heat creates before r: depends_on and get_resource.
WaitsFor(r) == ToSet(dependsOn[r]) \cup {Main(s) : s \in RunsOn(r)}

\* No pass ever makes two resources wait for each other, directly or through
\* others, whatever the requirements: Heat refuses a template with a
\* circular dependency.
NoCircularDependency ==
    \A r \in Resource : \A d \in WaitsFor(r) : Rank(d) < Rank(r)

\* What the output lists under depends_on, and the servers it refers to, are
\* resources of the output: removing the resources without a type leaves no
\* reference to them.
NoDanglingReference ==
    phase = "done" =>
        \A r \in ToSet(resources) : WaitsFor(r) \subseteq ToSet(resources)

\* Whatever r depends on is also in its depends_on_nodes, which the property
\* pass walks to handle the dependencies of a resource before it.
NodesCoverDependencies ==
    \A r \in Resource : ToSet(dependsOn[r]) \subseteq ToSet(dependsOnNodes[r])

\* The servers of node n by the HostedOn relations alone: itself if it is a
\* Compute, or else those of the nodes it is hosted on.
HostsIn(t, n) ==
    LET hosts[m \in Node] ==
            IF t.kind[m] = "compute" THEN {m}
            ELSE UNION {hosts[t.reqs[m][q].target] : q \in
                    {p \in DOMAIN t.reqs[m] : t.reqs[m][p].relation = "HostedOn"}}
    IN  hosts[n]

HostServers(n) == HostsIn(tpl, n)

\* The templates for which the search of the hosting server finds the servers of
\* HostsIn.  The first requirement of a node that the search does not pass over
\* decides, whatever its relation is.
HostRequirements(t, n) ==
    {q \in DOMAIN t.reqs[n] : t.reqs[n][q].relation = "HostedOn"}

PassedOver(t, n, q) ==
    LET m == t.reqs[n][q].target IN t.kind[m] # "compute" /\ t.reqs[m] = <<>>

OnServers(t, n) ==
    /\ HostRequirements(t, n) =
            {q \in DOMAIN t.reqs[n] : t.kind[t.reqs[n][q].target] = "compute"}
    /\ \A p, q \in HostRequirements(t, n) :
            t.reqs[n][p].target = t.reqs[n][q].target => p = q
    /\ \A q \in DOMAIN t.reqs[n] :
            (\A h \in HostRequirements(t, n) : q < h) => PassedOver(t, n, q)

OnComponent(t, n) ==
    \E h \in HostRequirements(t, n) :
        /\ HostRequirements(t, n) = {h}
        /\ t.kind[t.reqs[n][h].target] = "software"
        /\ HostRequirements(t, t.reqs[n][h].target) # {}
        /\ \A q \in 1..(h - 1) : PassedOver(t, n, q)

\* A ConnectsTo configures the node.
Configured(t, n) ==
    \/ \E q \in DOMAIN t.reqs[n] : t.reqs[n][q].configures = "source"
    \/ \E m \in Node : \E q \in DOMAIN t.reqs[m] :
            t.reqs[m][q].target = n /\ t.reqs[m][q].configures = "target"

Hostable(t) ==
    \A n \in Node :
        /\ t.kind[n] = "software" /\ HostRequirements(t, n) # {} =>
                OnServers(t, n) \/ OnComponent(t, n)
        /\ t.ops[n] # <<>> \/ t.roles[n] \/ Configured(t, n) =>
                \/ t.kind[n] = "software" /\ HostRequirements(t, n) # {}
                \/ /\ t.kind[n] = "compute" /\ ~ Configured(t, n)
                   /\ \A q \in DOMAIN t.reqs[n] : PassedOver(t, n, q)

Deployments(n) ==
    OpDeploys(n) \cup {r \in {Roles(n)} : tpl.roles[n]}

\* A SoftwareDeployment names one server, a SoftwareDeploymentGroup several,
\* each in the one property that its HOT type has.
ServersAsTyped(r) ==
    IF hot[r].type = SD
    THEN /\ Given(hot[r].server) /\ ~ Given(hot[r].servers)
         /\ hot[r].server.form = "reference"
    ELSE /\ Given(hot[r].servers) /\ ~ Given(hot[r].server)
         /\ Cardinality(hot[r].servers.servers) > 1

\* Every operation of a node, and the installation of its roles, runs on the
\* servers that host it: _get_hosting_server is to "find the server that
\* hosts this software by checking the requirements and following the
\* hosting chain", and the later passes are to keep what it found, in the
\* property that fits the HOT type.
DeployedOnHost ==
    phase = "done" =>
        /\ \A n \in Node : \A r \in Deployments(n) : RunsOn(r) = HostServers(n)
        /\ \A r \in ToSet(resources) : IsDeployment(r) => ServersAsTyped(r)

\* Once a pass gave a deployment its servers, no later pass moves it.
HostIsStable ==
    [][\A r \in Resource :
        IsDeployment(r) /\ RunsOn(r) # {} => RunsOn(r)' = RunsOn(r)]_vars

\* handle_connectsto "adds the matching software deployment with the proper
\* target server": the deployment runs where the configured node runs.
ConnectRunsOnEnd ==
    phase = "done" =>
        \A n \in Node : \A q \in DOMAIN tpl.reqs[n] :
            LET r == tpl.reqs[n][q] IN
            r.configures # "nothing" =>
                RunsOn(Connect(n, q)) =
                    HostServers(IF r.configures = "target" THEN r.target ELSE n)

\* handle_life_cycle is to "add a dependency to this ansible roles deploy to
\* the first classic deploy generated for this node".  It adds none if that
\* deploy is the one of create, whose index is 0 (hot_resource.py:247).
RolesBeforeFirstDeploy ==
    phase = "done" =>
        \A n \in Node : tpl.roles[n] /\ Declared(n) # {} /\ FirstOp(n) # "create" =>
            Roles(n) \in ToSet(dependsOn[OpDeploy(n, FirstOp(n))])

\* The same of every first deploy, as that comment has it.
RolesBeforeClassicDeploys ==
    phase = "done" =>
        \A n \in Node : tpl.roles[n] /\ Declared(n) # {} =>
            Roles(n) \in ToSet(dependsOn[OpDeploy(n, FirstOp(n))])

\* The loops end and the recursion of _get_hosting_server returns.
Terminates == <>(phase \in {"done", "failed"})

=============================================================================
