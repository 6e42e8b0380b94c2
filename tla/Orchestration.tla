---------------------------- MODULE Orchestration ----------------------------
(***************************************************************************)
(* What a service template asks for, with nothing about how: servers start *)
(* and operations run, in any order that respects the requirements.  The   *)
(* translator promises that Heat, given its output, does no more and no    *)
(* less (StackCreation).                                                   *)
(***************************************************************************)
EXTENDS Integers, SequencesExt

CONSTANTS
    Node,       \* the node templates
    Templates,  \* the service templates, as in NodeTranslation
    Hosts(_, _) \* the servers of a node of a template

VARIABLES
    tpl,   \* the service template
    up,    \* the Compute nodes whose server exists
    ran    \* pairs of a node and an operation that is complete

vars == <<tpl, up, ran>>

Sequence == <<"create", "configure", "start">>

Precedes(op, later) ==
    \E i, j \in 1..3 : i < j /\ Sequence[i] = op /\ Sequence[j] = later

Operations(n) == {<<n, op>> : op \in ToSet(tpl.ops[n])}

Required(n) == {tpl.reqs[n][q].target : q \in DOMAIN tpl.reqs[n]}

\* Every operation of every node that n requires is complete.
RequirementsMet(n) == \A m \in Required(n) : Operations(m) \subseteq ran

Earlier(n, op) == {x \in Operations(n) : Precedes(x[2], op)}

Init == tpl \in Templates /\ up = {} /\ ran = {}

StartServer(n) ==
    /\ tpl.kind[n] = "compute" /\ n \notin up
    /\ RequirementsMet(n)
    /\ up' = up \cup {n}
    /\ UNCHANGED <<tpl, ran>>

RunOperation(n, op) ==
    /\ op \in ToSet(tpl.ops[n]) /\ <<n, op>> \notin ran
    /\ Earlier(n, op) \subseteq ran
    /\ RequirementsMet(n)
    /\ Hosts(tpl, n) \subseteq up
    /\ ran' = ran \cup {<<n, op>>}
    /\ UNCHANGED <<tpl, up>>

Next == \E n \in Node :
            \/ StartServer(n)
            \/ \E op \in ToSet(tpl.ops[n]) : RunOperation(n, op)

\* Everything that can be done is done.
Spec == Init /\ [][Next]_vars /\ WF_vars(Next)

=============================================================================
