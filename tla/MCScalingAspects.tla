-------------------------- MODULE MCScalingAspects --------------------------
(* Network functions for ScalingAspects.                                   *)
EXTENDS ScalingAspects

Vdu(name, parts) ==
    [Resource(name, "Server") EXCEPT !.parts = parts, !.refs = parts \cup {FlavorName(name)}]

Port(name, vdu, link) ==
    [Resource(name, "Port") EXCEPT !.binding = vdu, !.link = link,
                                   !.refs = IF link = None THEN {} ELSE {link}]

Net(name, leaf) ==
    [Resource(name, "Net") EXCEPT !.leaf = leaf,
                                  !.refs = IF leaf THEN {Parted(name, "qospolicy")} ELSE {}]

\* Two VDUs, each with a port; the first with a storage as well, and in some
\* with a second port.
Layouts(bindings) ==
    {<<Net(<<"VL">>, leaf), Vdu(<<"v1">>, {<<"cp1">>, <<"vs1">>} \cup extra), Port(<<"cp1">>, binding, link),
       Resource(<<"vs1">>, "Volume"), Port(<<"cp2">>, <<"v2">>, <<"VL">>), Vdu(<<"v2">>, {<<"cp2">>})>>
     \o IF extra = {} THEN <<>> ELSE <<Port(<<"cp3">>, <<"v1">>, None)>> :
        leaf \in BOOLEAN, link \in {<<"VL">>, None}, extra \in {{}, {<<"cp3">>}}, binding \in bindings}

OneAspect(name, level) == [name |-> name, level |-> level, delta |-> "delta_1"]

Aspects(aspects) == [kind |-> "Aspects", name |-> <<"aspects">>, aspects |-> aspects]

Affinity(targets, scope) ==
    [kind |-> "Affinity", name |-> <<"near">>, targets |-> targets, scope |-> scope]

Listed(policies) ==
    [k \in DOMAIN policies |->
        IF policies[k].kind = "Aspects" THEN Resource(<<"aspects">>, "Aspects")
        ELSE Resource(Parted(policies[k].name, "group"), "ServerGroup")]

Delta(name, targets, num) ==
    [aspect |-> name, targets |-> targets, deltas |-> IF num = None THEN << >> ELSE "delta_1" :> num]

Initial(targets, num) == [targets |-> targets, num |-> num]

Functions(layouts, policies, deltas, initial) ==
    {[resources |-> l \o Listed(p), policies |-> p, deltas |-> d, initial |-> i] :
        l \in layouts, p \in policies, d \in deltas, i \in initial}

BothAspects == {<<Aspects(<<OneAspect(<<"a">>, 2), OneAspect(<<"b">>, 3)>>)>>}
OnlyAspect  == {<<Aspects(<<OneAspect(<<"a">>, level)>>)>> : level \in {0, 2}}

\* Affinity of VDUs that no aspect scales, or of a scope that is not supported.
WithAffinity(targets, scope) ==
    {<<Affinity(targets, scope), Aspects(<<OneAspect(<<"a">>, 2)>>)>>,
     <<Aspects(<<OneAspect(<<"a">>, 2)>>), Affinity(targets, scope)>>}

Initials == {<<>>, <<Initial({<<"v1">>}, 1)>>, <<Initial({<<"v1">>}, 0), Initial({<<"v2">>}, 2)>>,
             <<Initial({<<"v1">>, <<"v2">>}, 1)>>}

FirstScaled == {<<Delta(<<"a">>, targets, num)>> : targets \in {{<<"v1">>}, {<<"none">>}, {<<"v1">>, <<"cp2">>}}, num \in {1, 2, None}}

PlainVnfs ==
    Functions(Layouts({<<"v1">>}), BothAspects,
              {<<Delta(<<"a">>, t, n), Delta(<<"b">>, u, 1)>> :
                    t \in {{<<"v1">>}, {<<"none">>}}, u \in {{<<"v2">>}, {<<"v1">>}}, n \in {1, 3}}, Initials)
    \cup Functions(Layouts({<<"v1">>}), OnlyAspect,
                   {<<Delta(<<"a">>, {<<"v1">>, <<"v2">>}, n)>> : n \in {1, None}} \cup {<<>>}, Initials)
    \cup Functions(Layouts({<<"v1">>}), WithAffinity({<<"v2">>}, "nfvi_node")
                                    \cup WithAffinity({<<"v1">>, <<"v2">>}, "zone"),
                   FirstScaled, Initials)

\* Functions whose virtual link is not an IP network.
OtherLinks ==
    LET Other(l) == [k \in DOMAIN l |-> IF l[k].kind = "Net" THEN Resource(l[k].name, "Typeless") ELSE l[k]]
    IN  Functions({Other(l) : l \in Layouts({<<"v1">>})}, OnlyAspect,
                  {<<Delta(<<"a">>, {<<"v1">>}, 1)>>}, Initials)

\* Functions with an affinity rule about a VDU that an aspect scales.
ScaledAffinity ==
    Functions(Layouts({<<"v1">>}), WithAffinity({<<"v1">>, <<"v2">>}, "nfvi_node"),
              {<<Delta(<<"a">>, {<<"v1">>}, 1)>>}, Initials)

Words == MadeOf \cup {"id", "VL", "vl", "v1", "v2", "cp1", "cp2", "cp3", "vs1", "a", "b", "aspects", "near", "none"}

Lowers == [w \in Words |-> IF w = "VL" THEN "vl" ELSE w]

\* The functions of this family are as the theorems want them.
ASSUME RegularAssumption ==
    \A v \in PlainVnfs : NamesApart(v) /\ PartsGiven(v) /\ References(v) /\ AffinityApart(v)

=============================================================================
