--------------------------- MODULE MCStackCreation ---------------------------
(* Service templates for StackCreation, NumNodes = 4.                       *)
EXTENDS StackCreation, MCPropertyPass

\* A server with a port on a network, and a component that is hosted on the
\* server or requires its port.
WithPort ==
    {Networked(MakeTemplate(s, <<"network", "compute", "port", "software">>,
                            Content(<<<<>>, <<>>, <<>>, <<"start", "create">>>>, {4}),
                            <<<<>>, <<>>, three, four>>),
               <<0, 0, 0, 0>>, <<state, "new", "new", "new">>) :
        s \in Listings4, state \in {"new", "existing"},
        three \in {<<Bind(2)>>, <<Link_(1), Bind(2)>>},
        four \in {<<Host(2)>>, <<Host(2), Depend(3)>>}}

Stacks == HostFirst \cup WithPort

\* The theorems of StackCreation_proofs are about these and all such templates.
ASSUME StacksAssumption == \A t \in Stacks : Hostable(t)

=============================================================================
