---------------------------- MODULE MCPolicyPass ----------------------------
(* Topologies for PolicyPass.                                              *)
EXTENDS PolicyPass

Server(s) == Resource(<<s>>, "Server")

Net(hidden) == [Resource(<<"net">>, "Net") EXCEPT !.hidden = hidden]

\* A server with a port, whose network has been handled before.
Attached(s) == [Server(s) EXCEPT !.refs = {<<s, "port">>}]

PortOf(s, net) ==
    [Resource(<<s, "port">>, "Port") EXCEPT
        !.server = <<s>>, !.refs = IF net.hidden THEN {} ELSE {net.name}]

DeploymentOn(s) == [Resource(<<s, "deploy">>, "Deployment") EXCEPT !.refs = {<<s>>}]

Policy(name, kind, targets, triggers) ==
    [Resource(<<name>>, kind) EXCEPT
        !.policy = name, !.triggers = triggers, !.section = (triggers # <<>>),
        !.targets = [k \in DOMAIN targets |-> <<targets[k]>>]]

Placement(targets) == Policy("placement", "ServerGroup", targets, <<>>)

Scaling(name, targets, increment, triggers) ==
    [Policy(name, "ScalingPolicy", targets, triggers) EXCEPT !.increment = increment]

Cluster(targets, triggers) == Policy("senlin", "SenlinPolicy", targets, triggers)

Monitoring(triggers) == Policy("monitor", "Monitoring", <<>>, triggers)

Reservation(actions) == Policy("lease", "Reservation", <<>>, actions)

\* A section without a trigger or an action.
Blank(policy) == [policy EXCEPT !.section = TRUE]

\* Resources before and after the policies.
Around(before, policies, after) == {b \o p \o a : b \in before, p \in policies, a \in after}

OnePort(net)  == <<net, Attached("a"), PortOf("a", net)>>
TwoPorts(net) == <<PortOf("b", net), Attached("a"), PortOf("a", net), net, Attached("b")>>
BarePort(net) == Append(OnePort(net), Server("b"))

Components == {<<>>, <<DeploymentOn("a")>>}

Alarms == {Blank(Monitoring(<<>>)), Blank(Reservation(<<>>))}
            \cup {Monitoring(t) : t \in {<<>>, <<"high">>, <<"high", "low">>}}
            \cup {Reservation(a) : a \in {<<>>, <<"start_actions">>, <<"start_actions", "end_actions">>}}

\* A group that servers belong to is a target, but no resource.
Scalings == {Scaling("asg", targets, n, t) : targets \in {<<"a">>, <<"servers">>},
                n \in -1 .. 1, t \in {<<>>, <<"resize_compute">>}}

Triggers == {<<>>, <<"grow">>, <<"grow", "shrink">>}

Clusterings(targets) == {Cluster(targets, t) : t \in Triggers}

Optional(policies) == {<<>>} \cup {<<p>> : p \in policies}

\* At most one policy that scales, the placement before it, alarms around it.
PlainPolicies ==
    {placement \o early \o scaling \o late :
        placement \in {<<>>, <<Placement(<<"a">>)>>},
        early \in Optional(Alarms), scaling \in Optional(Scalings), late \in Optional(Alarms)}

\* A cluster at the end, of all servers that have ports.
ClusterPolicies(targets) ==
    {placement \o early \o <<c>> :
        placement \in {<<>>, <<Placement(<<"a">>)>>},
        early \in Optional(Alarms), c \in Clusterings(targets)}

TwoAlike(p) == Cardinality({p[k].policy : k \in DOMAIN p}) < Len(p)

PlainTopologies ==
    Around({OnePort(Net(FALSE)), TwoPorts(Net(FALSE)), BarePort(Net(TRUE))},
           {p \in PlainPolicies : ~ TwoAlike(p)}, Components)
    \cup Around({OnePort(Net(TRUE)), BarePort(Net(TRUE))}, ClusterPolicies(<<"a">>), Components)
    \cup Around({TwoPorts(Net(TRUE)), BarePort(Net(TRUE))}, ClusterPolicies(<<"a", "b">>), Components)

Words ==
    MadeOf \cup {"a", "b", "net", "port", "servers", "deploy", "placement", "asg", "senlin", "monitor", "lease",
                "high", "low", "grow", "shrink", "start_actions", "end_actions", "resize_compute"}

ASSUME RegularAssumption == Regular

=============================================================================
