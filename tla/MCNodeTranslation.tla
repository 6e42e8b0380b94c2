-------------------------- MODULE MCNodeTranslation --------------------------
(***************************************************************************)
(* Service templates for NodeTranslation: all topologies of three nodes,   *)
(* and four-node templates in the style of the repository's samples.       *)
(***************************************************************************)
EXTENDS NodeTranslation

Req(target, relation, configures) ==
    [target |-> target, relation |-> relation, configures |-> configures]

Host(m)   == Req(m, "HostedOn", "nothing")
Depend(m) == Req(m, "DependsOn", "nothing")
Attach(m) == Req(m, "AttachesTo", "nothing")

Others(m) ==
    {Depend(m), Req(m, "ConnectsTo", "target"), Req(m, "ConnectsTo", "source")}

RequirementsOn(m) == {Host(m)} \cup Others(m)

\* content: the operations of each node, as declared, and who has roles.
MakeTemplate(listing, kind, content, reqs) ==
    [listing |-> listing, kind |-> kind, ops |-> content.ops,
     roles |-> content.roles, reqs |-> reqs,
     order |-> [n \in DOMAIN kind |-> 0],
     network |-> [n \in DOMAIN kind |-> "new"]]

Content(ops, withRoles) ==
    [ops |-> ops, roles |-> [n \in DOMAIN ops |-> n \in withRoles]]

Inert(content, n) == content.ops[n] = <<>> /\ ~ content.roles[n]

-----------------------------------------------------------------------------
(* Three nodes, NumNodes = 3.  Every kind, one or two requirements of every *)
(* relation in every order, operations in and out of sequence, roles with   *)
(* and without operations, nodes without a host.                            *)

Contents ==
    {Content(<<<<>>, <<"create">>, <<"configure", "create">>>>, {3}),
     Content(<<<<"create", "start">>, <<>>, <<"configure">>>>, {3}),
     Content(<<<<"create">>, <<"start", "create">>, <<>>>>, {2, 3}),
     Content(<<<<>>, <<"start", "configure", "create">>, <<"create">>>>, {1})}

TwoRequires == {<<>>, <<Host(1)>>, <<Depend(1)>>, <<Host(1), Depend(1)>>}

ThreeRequires ==
    LET on == RequirementsOn(1) \cup RequirementsOn(2)
    IN  {<<>>} \cup {<<r>> : r \in on}
        \cup {<<r, s>> : r \in RequirementsOn(2), s \in RequirementsOn(1)}
        \cup {<<Depend(1), r>> : r \in RequirementsOn(2)}

AnyTemplates ==
    {MakeTemplate(<<1, 2, 3>>, <<k, l, m>>, c, <<<<>>, two, three>>) :
        k \in {"compute", "volume"}, l \in {"compute", "software", "volume"},
        m \in {"compute", "software"}, c \in Contents,
        two \in TwoRequires, three \in ThreeRequires}
    \cup
    {MakeTemplate(s, <<"volume", "compute", "software">>, c, <<<<>>, two, three>>) :
        s \in {<<1, 2, 3>>, <<3, 2, 1>>}, c \in Contents,
        two \in {<<Attach(1)>>, <<Attach(1), Depend(1)>>},
        three \in {<<r>> : r \in RequirementsOn(2)}}

\* A component connects to a Compute and configures it.
ComputeEnds ==
    {MakeTemplate(s, <<"compute", "compute", "software">>, c,
                  <<<<>>, <<>>, <<Host(2), Req(1, "ConnectsTo", "target")>>>>) :
        s \in {<<1, 2, 3>>, <<3, 2, 1>>}, c \in Contents}

-----------------------------------------------------------------------------
(* Four nodes, NumNodes = 4, as the samples have them: a component is hosted *)
(* on a Compute, on two of them, or on a hosted component; its host is its   *)
(* first requirement, and what else it requires is no Compute.  A Compute    *)
(* with operations requires only volumes.                                    *)

Contents4 ==
    {Content(<<<<>>, <<>>, <<"create">>, <<"configure", "create">>>>, {4}),
     Content(<<<<"create", "start">>, <<>>, <<"start", "create", "configure">>,
               <<"configure">>>>, {4}),
     Content(<<<<>>, <<"create">>, <<>>, <<"start">>>>, {3}),
     Content(<<<<"configure">>, <<"create">>, <<"create", "start">>, <<>>>>, {1}),
     Content(<<<<>>, <<"create">>, <<>>, <<"create", "configure">>>>, {4})}

Listings4 == {<<1, 2, 3, 4>>, <<4, 2, 3, 1>>}

\* Two servers, a component, and a second one on or beside it.
TwoServers ==
    {MakeTemplate(s, <<"compute", "compute", "software", "software">>, c,
                  <<<<>>, <<>>, three, four>>) :
        s \in Listings4, c \in Contents4,
        three \in {<<Host(1)>>, <<Host(2), Host(1)>>},
        four \in {<<Host(m)>> : m \in 1..3} \cup
                 {<<Host(m), r>> : m \in 1..3, r \in Others(3)}}

\* A server with a volume, used by a component.
WithVolume ==
    {MakeTemplate(s, <<"volume", "compute", "volume", "software">>, c,
                  <<<<>>, <<Attach(1)>>, <<>>, four>>) :
        s \in Listings4, c \in {x \in Contents4 : Inert(x, 1) /\ Inert(x, 3)},
        four \in {<<Host(2)>>, <<Host(2), Depend(1)>>, <<Host(2), Depend(3)>>}}

\* A server that is started after the component of another server.
ServerAfterComponent ==
    {MakeTemplate(s, <<"compute", "software", "compute", "software">>, c,
                  <<<<>>, <<Host(1)>>, <<Depend(2)>>, <<Host(3)>>>>) :
        s \in Listings4, c \in {x \in Contents4 : Inert(x, 3)}}

HostFirst == TwoServers \cup WithVolume \cup ServerAfterComponent

=============================================================================
