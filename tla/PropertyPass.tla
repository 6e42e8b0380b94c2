---------------------------- MODULE PropertyPass ----------------------------
(***************************************************************************)
(* The passes between hosting and remove of _translate_nodetemplates       *)
(* (src/translator/hot/translate_node_templates.py), added to those of     *)
(* NodeTranslation:                                                        *)
(*                                                                         *)
(*   properties  _recursive_handle_properties: handle_properties of every  *)
(*               resource, once, after those of its depends_on_nodes;      *)
(*   expansion   handle_expansion: the subnet of a network.                *)
(*                                                                         *)
(* The handlers that reach beyond their own resource are the ones of the   *)
(* network resources (src/translator/hot/tosca/tosca_network_port.py,      *)
(* tosca_network_network.py) and of the Compute they belong to.  Policies  *)
(* and the resolution of functions are other components.                   *)
(***************************************************************************)
EXTENDS NodeTranslation

VARIABLES
    stage,      \* the pass that is running, or the insertion of a port
    processed,  \* processed_resources
    calls,      \* the running calls of _recursive_handle_properties
    handled,    \* the resources whose handle_properties has returned
    portsOf,    \* per Compute: assoc_port_resources
    networks,   \* per Compute: the ports of its property "networks"
    linked,     \* per port: the network its property "network" refers to
    hidden,     \* the networks with hide_resource
    lo, hi      \* the bounds of _insert_sorted_resource

walk     == <<stage, processed, calls, handled>>
network  == <<portsOf, networks, linked, hidden>>
search   == <<lo, hi>>
passVars == <<walk, network, search>>
allVars  == <<vars, passVars>>

Call == [resource : Resource, next : Nat \ {0}]

Subnet(n) == [node |-> n, part |-> "subnet", req |-> 0]

PassInit ==
    /\ Init
    /\ stage = "properties" /\ processed = {} /\ calls = <<>> /\ handled = {}
    /\ portsOf = [n \in Node |-> <<>>] /\ networks = [n \in Node |-> <<>>]
    /\ linked = [n \in Node |-> NoNode] /\ hidden = {}
    /\ lo = 0 /\ hi = 0

\* The passes of NodeTranslation, before and after.
OtherPass ==
    /\ phase = "remove" => stage = "finished"
    /\ Next
    /\ UNCHANGED passVars

Running(pass) == phase = "remove" /\ stage = pass

-----------------------------------------------------------------------------
(* The walk over the dependencies.                                         *)

Begin(r) == [resource |-> r, next |-> 1]

\* The loop over self.hot_resources.
WalkResource ==
    /\ Running("properties") /\ calls = <<>> /\ pos <= Len(resources)
    /\ calls' = IF AtResource \in processed THEN <<>> ELSE <<Begin(AtResource)>>
    /\ processed' = processed \cup {AtResource}
    /\ NextPosition
    /\ UNCHANGED <<tpl, resources, expanded, hot, links>>
    /\ UNCHANGED <<stage, handled, network, search>>

InCall == Running("properties") /\ calls # <<>>
Top    == Last(calls)
Self   == Top.resource

\* Plausible bug: the walk follows depends_on.
ToWalkOutput(r) == dependsOn[r]

ToWalk(r) == dependsOnNodes[r]

\* The loop of a call over depends_on_nodes; the call for a resource that was
\* processed returns at once.
WalkDependency ==
    /\ InCall /\ Top.next <= Len(ToWalk(Self))
    /\ LET d    == ToWalk(Self)[Top.next]
           rest == [calls EXCEPT ![Len(calls)].next = @ + 1]
       IN
        /\ calls' = IF d \in processed THEN rest ELSE Append(rest, Begin(d))
        /\ processed' = processed \cup {d}
    /\ UNCHANGED <<vars, stage, handled, network, search>>

\* Plausible bug: the resource is handled before its dependencies.
DependenciesIgnored == InCall

\* The innermost call gets to handle_properties of its resource.
DependenciesWalked == InCall /\ Top.next > Len(ToWalk(Self))

Return ==
    calls' = Front(calls) /\ handled' = handled \cup {Self} /\ UNCHANGED processed

KindOfSelf == IF Self.part = "main" THEN tpl.kind[Self.node] ELSE Self.part

\* The handler assigns a new dictionary to properties.
Overwrite(r) == hot' = [hot EXCEPT ![r] = Blank(hot[r].type)]

HandleServer ==
    /\ DependenciesWalked /\ KindOfSelf = "compute"
    /\ Overwrite(Self)
    /\ networks' = [networks EXCEPT ![Self.node] = <<>>]
    /\ Return
    /\ UNCHANGED <<tpl, cursors, resources, expanded, links>>
    /\ UNCHANGED <<stage, portsOf, linked, hidden, search>>

HandleVolume ==
    /\ DependenciesWalked /\ KindOfSelf = "volume"
    /\ Overwrite(Self)
    /\ Return
    /\ UNCHANGED <<tpl, cursors, resources, expanded, links, stage, network, search>>

\* Components, deployments and attachments: no property that is modelled.
HandleOther ==
    /\ DependenciesWalked
    /\ KindOfSelf \notin {"compute", "volume", "network", "port"}
    /\ Return
    /\ UNCHANGED <<vars, stage, network, search>>

\* An existing network is not created again.
HandleNetwork ==
    /\ DependenciesWalked /\ KindOfSelf = "network"
    /\ Overwrite(Self)
    /\ hidden' = IF tpl.network[Self.node] = "existing"
                 THEN hidden \cup {Self.node} ELSE hidden
    /\ Return
    /\ UNCHANGED <<tpl, cursors, resources, expanded, links>>
    /\ UNCHANGED <<stage, portsOf, networks, linked, search>>

-----------------------------------------------------------------------------
(* Ports.                                                                  *)

\* Target of the first requirement of that relation.
FirstTarget(n, relation) ==
    LET related == {q \in DOMAIN tpl.reqs[n] : tpl.reqs[n][q].relation = relation}
    IN  IF related = {} THEN NoNode
        ELSE Target(n, CHOOSE q \in related : \A p \in related : q <= p)

LinksTo(n) == FirstTarget(n, "LinksTo")
BindsTo(n) == FirstTarget(n, "BindsTo")

\* Plausible bug: the port keeps its dependency on the server.
DropLink(d, n) ==
    IF LinksTo(n) = NoNode THEN d ELSE RemoveFirst(d, Main(LinksTo(n)))

\* depends_on without the network and the server, which get_resource names.
DropLinks(d, n) ==
    IF BindsTo(n) = NoNode THEN DropLink(d, n)
    ELSE RemoveFirst(DropLink(d, n), Main(BindsTo(n)))

\* Plausible bug: a port refers to a network that is not created.
LinkAlways(n) == LinksTo(n)

\* What get_resource of the property "network" names: no existing network.
Link(n) == IF LinksTo(n) \in hidden THEN NoNode ELSE LinksTo(n)

HandlePort ==
    /\ DependenciesWalked /\ KindOfSelf = "port"
    /\ Overwrite(Self)
    /\ dependsOn' = [dependsOn EXCEPT ![Self] = DropLinks(@, Self.node)]
    /\ linked' = [linked EXCEPT ![Self.node] = Link(Self.node)]
    /\ IF BindsTo(Self.node) = NoNode
       THEN Return /\ UNCHANGED <<stage, search>>
       ELSE /\ stage' = "insertion"
            /\ lo' = 0 /\ hi' = Len(portsOf[BindsTo(Self.node)])
            /\ UNCHANGED <<processed, calls, handled>>
    /\ UNCHANGED <<tpl, cursors, resources, expanded, dependsOnNodes, chain, lastDeploy>>
    /\ UNCHANGED <<portsOf, networks, hidden>>

Inserting == Running("insertion")
Port      == Self.node
Ports     == portsOf[BindsTo(Port)]

\* Plausible bug: the ports that precede are searched for a larger order.
GoesBeforeReversed(mid) == tpl.order[Ports[mid + 1]] < tpl.order[Port]

\* resource.order < resources[mid].order, where lists start at 0.
GoesBefore(mid) == tpl.order[Port] < tpl.order[Ports[mid + 1]]

Bisect ==
    /\ Inserting /\ lo < hi
    /\ LET mid == (lo + hi) \div 2 IN
        IF GoesBefore(mid) THEN hi' = mid /\ UNCHANGED lo
                           ELSE lo' = mid + 1 /\ UNCHANGED hi
    /\ UNCHANGED <<vars, walk, network>>

InsertPort ==
    /\ Inserting /\ lo >= hi
    /\ LET s == BindsTo(Port)  ports == InsertAt(Ports, lo + 1, Port) IN
        /\ portsOf' = [portsOf EXCEPT ![s] = ports]
        /\ networks' = [networks EXCEPT ![s] = ports]
    /\ Return
    /\ stage' = "properties"
    /\ UNCHANGED <<vars, linked, hidden, search>>

FinishProperties ==
    /\ Running("properties") /\ calls = <<>> /\ pos > Len(resources)
    /\ stage' = "expansion"
    /\ pos' = 1
    /\ UNCHANGED <<tpl, phase, req, visiting, resources, expanded, hot, links>>
    /\ UNCHANGED <<processed, calls, handled, network, search>>

-----------------------------------------------------------------------------
(* Expansion.                                                              *)

Expanding == Running("expansion") /\ pos <= Len(resources)

\* The resource is a network that the output creates.
Expands(r) ==
    r.part = "main" /\ tpl.kind[r.node] = "network" /\ r.node \notin hidden

ExpandNetwork ==
    /\ Expanding /\ Expands(AtResource)
    /\ tpl.network[AtResource.node] # "half range"
    /\ expanded' = Append(expanded, Subnet(AtResource.node))
    /\ hot' = [hot EXCEPT ![Subnet(AtResource.node)] = Blank("OS::Neutron::Subnet")]
    /\ NextPosition
    /\ UNCHANGED <<tpl, resources, links, passVars>>

\* InvalidPropertyValueError of start_ip or end_ip.
RaiseHalfRange ==
    /\ Expanding /\ Expands(AtResource)
    /\ tpl.network[AtResource.node] = "half range"
    /\ EnterPhase("failed")
    /\ UNCHANGED <<tpl, resources, expanded, hot, links, passVars>>

SkipExpansion ==
    /\ Expanding /\ ~ Expands(AtResource)
    /\ NextPosition
    /\ UNCHANGED <<tpl, resources, expanded, hot, links, passVars>>

FinishExpansion ==
    /\ Running("expansion") /\ pos > Len(resources)
    /\ resources' = resources \o expanded
    /\ expanded' = <<>>
    /\ stage' = "finished"
    /\ UNCHANGED <<tpl, cursors, hot, links>>
    /\ UNCHANGED <<processed, calls, handled, network, search>>

PassNext ==
    \/ OtherPass
    \/ WalkResource \/ WalkDependency
    \/ HandleServer \/ HandleVolume \/ HandleOther \/ HandleNetwork
    \/ HandlePort \/ Bisect \/ InsertPort
    \/ FinishProperties
    \/ ExpandNetwork \/ RaiseHalfRange \/ SkipExpansion \/ FinishExpansion

\* As in NodeTranslation: one thread that keeps running.
PassSpec == PassInit /\ [][PassNext]_allVars /\ WF_allVars(PassNext)

-----------------------------------------------------------------------------
(* What Heat gets (HotTemplate.output_to_yaml, get_dict_output).           *)

\* The resources that are written: all but the hidden ones.
Output == {r \in ToSet(resources) : ~ (r.part = "main" /\ r.node \in hidden)}

\* get_resource in the properties instance_uuid and volume_id of an
\* attachment, networks of a server, network of a port and of a subnet.
PropertyReferences(r) ==
    CASE r.part = "attachment" -> {Main(r.node), Main(Target(r.node, r.req))}
      [] r.part = "subnet"     -> {Main(r.node)}
      [] r.part = "main"       ->
            {Main(n) : n \in ToSet(networks[r.node])
                             \cup ({linked[r.node]} \ {NoNode})}
      [] OTHER                 -> {}

\* The resources Heat creates before r.
References(r) == WaitsFor(r) \cup PropertyReferences(r)

-----------------------------------------------------------------------------
(* Conditions on a template, for the two properties of the output.         *)

\* Requirement q is the first of that relation.
IsFirst(t, n, q, relation) ==
    /\ t.reqs[n][q].relation = relation
    /\ \A p \in 1..(q - 1) : t.reqs[n][p].relation # relation

\* Only a port requires a network that exists, as the network it links to, and
\* no ConnectsTo configures that network.
ExistingLinked(t) ==
    \A n \in Node : t.kind[n] = "network" /\ t.network[n] = "existing" =>
        /\ ~ Configured(t, n)
        /\ \A m \in Node : \A q \in DOMAIN t.reqs[m] : t.reqs[m][q].target = n =>
                \E p \in DOMAIN t.reqs[m] :
                    t.reqs[m][p].target = n /\ IsFirst(t, m, p, "LinksTo")

\* A server can be created after its ports: it has no operations, and what the
\* ports require besides can be created before it.
PortsFirst(t) ==
    \A p \in Node : \A b \in DOMAIN t.reqs[p] : IsFirst(t, p, b, "BindsTo") =>
        /\ t.ops[t.reqs[p][b].target] = <<>>
        /\ \A q \in DOMAIN t.reqs[p] : t.reqs[p][q].target <= t.reqs[p][b].target

-----------------------------------------------------------------------------
(* Properties.                                                             *)

\* Type invariant of the two passes.
PassTypeOK ==
    /\ stage \in {"properties", "insertion", "expansion", "finished"}
    /\ processed \subseteq Resource /\ handled \subseteq Resource
    /\ calls \in Seq(Call)
    /\ portsOf \in [Node -> Seq(Node)] /\ networks \in [Node -> Seq(Node)]
    /\ linked \in [Node -> Node \cup {NoNode}]
    /\ hidden \subseteq Node
    /\ lo \in Nat /\ hi \in Nat

\* The ports of a server are in the order they ask for at any time, whatever
\* the order in which they are handled ("keep the order").
PortsSorted ==
    \A s \in Node : \A i, j \in DOMAIN portsOf[s] :
        i < j => tpl.order[portsOf[s][i]] <= tpl.order[portsOf[s][j]]

\* The networks of a server name exactly the ports that bind to it, each once,
\* as sorted: no handler of the server runs after one of its ports and drops
\* what the port wrote.
ServersKeepPorts ==
    phase = "done" =>
        \A s \in {n \in Node : tpl.kind[n] = "compute"} :
            /\ networks[s] = portsOf[s] /\ IsInjective(networks[s])
            /\ ToSet(networks[s]) = {p \in Node : BindsTo(p) = s}

\* "if a resource depends on other resources, their properties need to be
\* handled first".
DependenciesHandledFirst ==
    [][\A r \in handled' \ handled : ToSet(dependsOnNodes[r]) \subseteq handled]_allVars

\* The resources of the output that k rounds create, if each round creates
\* all that refers to nothing but created resources.
CreatedIn(k) ==
    LET created[i \in 0..k] ==
            IF i = 0 THEN {}
            ELSE LET before == created[i - 1]
                 IN  {r \in Output : References(r) \cap Output \subseteq before}
    IN  created[k]

\* The references of the output form no cycle, those of properties included:
\* Heat "can deploy" it.
OutputAcyclic ==
    phase = "done" => CreatedIn(Cardinality(Output)) = Output

\* What a written resource refers to is written too.
OutputClosed ==
    phase = "done" => \A r \in Output : References(r) \subseteq Output

=============================================================================
