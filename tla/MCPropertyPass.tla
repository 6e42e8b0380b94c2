--------------------------- MODULE MCPropertyPass ---------------------------
(***************************************************************************)
(* Service templates with networks and ports for PropertyPass.             *)
(***************************************************************************)
EXTENDS PropertyPass, MCNodeTranslation

Link_(m) == Req(m, "LinksTo", "nothing")
Bind(m)  == Req(m, "BindsTo", "nothing")

\* A template with the given orders of ports and states of networks.
Networked(template, orders, states) ==
    [template EXCEPT !.order = orders, !.network = states]

Idle == Content([n \in Node |-> <<>>], {})

-----------------------------------------------------------------------------
(* Five nodes, NumNodes = 5.                                               *)

Listings5 ==
    {<<1, 2, 3, 4, 5>>, <<5, 4, 3, 2, 1>>, <<4, 2, 5, 1, 3>>, <<3, 5, 4, 1, 2>>}

\* Three ports of one server, in every order they may ask for.
ThreePorts ==
    {Networked(MakeTemplate(s, <<"network", "compute", "port", "port", "port">>,
                            Idle, <<<<>>, <<>>, <<Link_(1), Bind(2)>>,
                                    <<Bind(2), Link_(1)>>, <<Bind(2)>>>>),
               <<0, 0, a, b, c>>, <<state, "new", "new", "new", "new">>) :
        s \in Listings5, a \in 0..2, b \in 0..2, c \in 0..2,
        state \in {"new", "existing"}}

\* Two networks and two ports, of one server or none, on one network or none.
TwoNetworks ==
    {Networked(MakeTemplate(s, <<"network", "network", "compute", "port", "port">>,
                            Idle, <<<<>>, <<>>, <<>>, four, five>>),
               <<0, 0, 0, a, 1>>, <<one, two, "new", "new", "new">>) :
        s \in Listings5, a \in 1..2,
        one \in {"new", "existing"}, two \in {"new", "half range"},
        four \in {<<Bind(3)>>, <<Link_(1), Bind(3)>>},
        five \in {<<Link_(2)>>, <<Bind(3), Link_(1)>>, <<Link_(2), Depend(4)>>}}

\* A component on a server that has a port; it requires the port, or the
\* network, which is created.  The other server is started after the port.
ComponentOnServer(ops) ==
    {Networked(MakeTemplate(s, <<"network", "compute", "port", "compute", "software">>,
                            Content(<<<<>>, <<>>, <<>>, <<>>, ops>>, {}),
                            <<<<>>, <<>>, <<Link_(1), Bind(2)>>, <<Depend(3)>>, five>>),
               <<0, 0, 0, 0, 0>>, [n \in 1..5 |-> "new"]) :
        s \in Listings5,
        five \in {<<Host(2), Depend(3)>>, <<Host(4), Depend(1)>>,
                  <<Host(2), Depend(4)>>}}

\* A server with a volume and two ports.
PortsAndVolume ==
    {Networked(MakeTemplate(s, <<"network", "volume", "compute", "port", "port">>,
                            Idle, <<<<>>, <<>>, <<Attach(2)>>,
                                    <<Bind(3), Link_(1)>>, <<Bind(3)>>>>),
               <<0, 0, 0, a, 1>>, [n \in 1..5 |-> "new"]) :
        s \in Listings5, a \in 0..2}

Networks ==
    ThreePorts \cup PortsAndVolume \cup TwoNetworks \cup ComponentOnServer(<<>>)
    \cup ComponentOnServer(<<"start", "create">>)

ASSUME NetworksAssumption == \A t \in Networks : ExistingLinked(t) /\ PortsFirst(t)

-----------------------------------------------------------------------------
(* A template whose output is refused, NumNodes = 4.                       *)

\* A server that has operations of its own and a port.
BusyServer ==
    {MakeTemplate(s, <<"network", "compute", "port", "software">>,
                  Content(<<<<>>, <<"create">>, <<>>, <<>>>>, {}),
                  <<<<>>, <<>>, <<Link_(1), Bind(2)>>, <<Host(2)>>>>) :
        s \in Listings4}

=============================================================================
