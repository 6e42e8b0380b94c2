----------------------------- MODULE PolicyPass -----------------------------
(***************************************************************************)
(* The policies of a topology in the passes of _translate_nodetemplates    *)
(* (src/translator/hot/translate_node_templates.py) that follow hosting:   *)
(* the walk that calls handle_properties of every resource, the expansion  *)
(* and the resolution of functions.  A policy reaches beyond its own       *)
(* resource: a scaling policy moves the resources it finds to a nested     *)
(* template and replaces self.hot_resources while the walk goes over it, a *)
(* cluster policy changes that list in place.  The properties of the nodes *)
(* themselves are the subject of PropertyPass.                             *)
(***************************************************************************)
EXTENDS Integers, FiniteSets, SequencesExt, Lists

CONSTANTS
    Word,        \* the parts of names
    Topologies   \* the resources after hosting, nodes before policies

Nodes    == {"Server", "Port", "Net", "Deployment", "Subnet"}
Policies == {"ServerGroup", "ScalingPolicy", "SenlinPolicy", "Monitoring", "Reservation"}
Made     == {"Group", "Alarm", "Profile", "Cluster", "Receiver", "MadePolicy"}

NoPolicy == ""

\* A resource and, if it is of a policy, what the policy says: section is
\* whether it has a section of triggers or, of a reservation, of actions.  A
\* name is the sequence of the parts that are joined with "_".
Resource(name, kind) ==
    [name |-> name, kind |-> kind, policy |-> NoPolicy, targets |-> <<>>, increment |-> 0,
     section |-> FALSE, triggers |-> <<>>, server |-> <<>>, hidden |-> FALSE,
     adjustment |-> 0, refs |-> {}, handled |-> FALSE, resolved |-> FALSE]

Name == Seq(Word)

ResourceRecord ==
    [name : Name, kind : Nodes \cup Policies \cup Made, policy : Word \cup {NoPolicy},
     targets : Seq(Name), increment : Int, section : BOOLEAN,
     triggers : Seq(Word), server : Name, hidden : BOOLEAN, adjustment : Int,
     refs : SUBSET Name, handled : BOOLEAN, resolved : BOOLEAN]

\* The last parts of the names that the translator makes.
MadeOf == {"group", "scale_in", "scale_out", "cluster", "alarm", "receiver", "subnet"}

ASSUME WordAssumption == MadeOf \subseteq Word

ASSUME TopologiesAssumption ==
    \A t \in Topologies :
        /\ t \in Seq(ResourceRecord)
        /\ \A r \in Range(t) :
                /\ r.kind \in Nodes \cup Policies
                /\ r.adjustment = 0 /\ ~ r.handled /\ ~ r.resolved
                /\ r.hidden => r.kind = "Net"
                /\ r.triggers # <<>> => r.section
                /\ r.kind = "SenlinPolicy" /\ r.section => r.triggers # <<>>
                /\ IF r.kind \in Nodes THEN r.policy = NoPolicy
                   ELSE r.policy # NoPolicy /\ r.name = <<r.policy>> /\ r.refs = {}

VARIABLES
    heap,       \* the resources that exist
    lists,      \* the list that is walked and, if it was replaced, the new one
    pos,        \* the position of the walk
    policyRes,  \* processed_policy_res
    nested,     \* the resources of the nested template, as they were written
    stage

vars == <<heap, lists, pos, policyRes, nested, stage>>

Walked == lists[1]
Hot    == Last(lists)   \* self.hot_resources

Init ==
    /\ heap \in Topologies
    /\ lists = <<[i \in DOMAIN heap |-> i]>>
    /\ pos = 1 /\ policyRes = {} /\ nested = <<>> /\ stage = "properties"

-----------------------------------------------------------------------------
(* The walk.                                                               *)

Visited == heap[Walked[pos]]

AtKind(kinds) ==
    stage = "properties" /\ pos <= Len(Walked) /\ Visited.kind \in kinds

Handled(r) == [r EXCEPT !.handled = TRUE]

\* HOT_SCALING_POLICY_TYPE, and name in processed_policy_res.
LeftAlone(r) ==
    \/ r.kind \in {"Group", "Profile"}
    \/ r.kind \in {"ScalingPolicy", "SenlinPolicy", "MadePolicy"} /\ r.name \in policyRes

\* A monitoring policy takes the name of its first trigger, a reservation
\* that of its first action.
OwnsTrigger(r) == r.kind \in {"Monitoring", "Reservation"} /\ r.triggers # <<>>

\* A reservation section has to have an action beside its properties.
NoAction(r) == r.kind = "Reservation" /\ r.section /\ r.triggers = <<>>

OwnHandled(r) ==
    CASE LeftAlone(r)   -> r
      [] OwnsTrigger(r) -> [Handled(r) EXCEPT !.name = <<r.triggers[1]>>]
      [] OTHER          -> Handled(r)

HandleResource ==
    /\ stage = "properties" /\ pos <= Len(Walked)
    /\ Visited.kind \in {"ServerGroup", "ScalingPolicy", "SenlinPolicy", "MadePolicy"}
            => LeftAlone(Visited)
    /\ ~ NoAction(Visited)
    /\ heap' = [heap EXCEPT ![Walked[pos]] = OwnHandled(Visited)]
    /\ pos' = pos + 1
    /\ UNCHANGED <<lists, policyRes, nested, stage>>

Targeted(i, r) == i \in Range(Hot) /\ heap[i].name \in Range(r.targets)

\* The group goes to the scheduler_hints of the targets in the list.
HandlePlacement ==
    /\ AtKind({"ServerGroup"})
    /\ heap' = [i \in DOMAIN heap |->
                    LET r == IF i = Walked[pos] THEN Handled(heap[i]) ELSE heap[i]
                    IN  IF Targeted(i, Visited) THEN [r EXCEPT !.refs = @ \cup {Visited.name}]
                                              ELSE r]
    /\ pos' = pos + 1
    /\ UNCHANGED <<lists, policyRes, nested, stage>>

-----------------------------------------------------------------------------
(* Scaling: a policy that scales out and one that scales in, and a group   *)
(* of what is in the nested template.                                      *)

Suffix(adjustment) == IF adjustment < 0 THEN "scale_in" ELSE "scale_out"

\* Plausible bug: the extra policy keeps the adjustment of the first.
OppositeKept(r) == [r EXCEPT !.name = Append(@, Suffix(- r.adjustment))]

Opposite(r) ==
    [r EXCEPT !.name = Append(@, Suffix(- r.adjustment)), !.adjustment = - r.adjustment]

\* The loop over the list that handle_properties returned; h are the
\* resources and ls the lists then.
Split(h, ls) ==
    LET Renamed(r) == [r EXCEPT !.name = Append(@, Suffix(r.adjustment))]
        both == Filter(Last(ls), {i \in Range(Last(ls)) :
                                    h[i].kind = "ScalingPolicy" /\ h[i].adjustment # 0})
        all  == [i \in DOMAIN h |-> IF i \in Range(both) THEN Renamed(h[i]) ELSE h[i]]
                    \o [k \in DOMAIN both |-> Opposite(h[both[k]])]
    IN  /\ heap' = all
        /\ lists' = [ls EXCEPT ![Len(ls)] = @ \o [k \in DOMAIN both |-> Len(h) + k]]
        /\ policyRes' = policyRes \cup {Visited.name}
                            \cup {all[i].name : i \in Range(both) \cup (Len(h) + 1 .. Len(all))}

\* A scaling policy that is still to be handled has no scaling_adjustment.
SplitFails(h, list) == \E i \in Range(list) : h[i].kind = "ScalingPolicy" /\ ~ h[i].handled

\* Plausible bug: the group is named after the server.
GroupNamedForTarget(r) == Append(r.targets[1], "group")

GroupName(r) == Append(r.name, "group")

\* SCALING_RESOURCES
StaysOut(i) == heap[i].kind \in {"ScalingPolicy", "Group", "Monitoring", "Reservation", "Alarm"}

Moved == Filter(Hot, {i \in Range(Hot) : ~ StaysOut(i)})

ScaledHeap ==
    Append([heap EXCEPT ![Walked[pos]] =
                [Handled(Visited) EXCEPT !.adjustment = Visited.increment,
                                         !.refs = {Append(Visited.name, "group")}]],
           [Resource(GroupName(Visited), "Group") EXCEPT !.policy = Visited.policy])

ScaledList ==
    Append(Filter(Hot, {i \in Range(Hot) :
                            heap[i].name \notin {heap[m].name : m \in Range(Moved)}}),
           Len(heap) + 1)

FindsTarget == \E i \in Range(Hot) : heap[i].kind # "Group" /\ Targeted(i, Visited)

\* The nested template is written at once.  The walk keeps the old list.
HandleScaling ==
    /\ AtKind({"ScalingPolicy"}) /\ ~ LeftAlone(Visited)
    /\ FindsTarget /\ ~ SplitFails(ScaledHeap, ScaledList)
    /\ nested' = [k \in DOMAIN Moved |-> heap[Moved[k]]]
    /\ Split(ScaledHeap, <<Walked, ScaledList>>)
    /\ pos' = pos + 1
    /\ UNCHANGED stage

-----------------------------------------------------------------------------
(* A cluster: a profile instead of each target, a cluster of it, a Senlin  *)
(* policy for each trigger, and neither ports nor networks.                *)

\* Plausible bug: a cluster is named as its profile.
ClusterNamedAsProfile(t) == t

ClusterName(t) == Append(t, "cluster")

PortsOf(i) == {j \in Range(Hot) : heap[j].kind = "Port" /\ heap[j].server = heap[i].name}

Replaced ==
    Filter(Hot, {i \in Range(Hot) : Targeted(i, Visited) /\ heap[i].kind # "SenlinPolicy"})

\* Plausible bug: the profile takes nothing but the networks.
ProfileOfNetworks(i) ==
    [Resource(heap[i].name, "Profile") EXCEPT !.refs = UNION {heap[j].refs : j \in PortsOf(i)}]

\* The profile takes the properties of the server; the networks of its ports
\* replace the ports.
Profile(i) ==
    [Resource(heap[i].name, "Profile") EXCEPT
        !.refs = (heap[i].refs \ {heap[j].name : j \in PortsOf(i)})
                    \cup UNION {heap[j].refs : j \in PortsOf(i)}]

Clusters(r) ==
    [k \in DOMAIN r.targets |->
        [Resource(ClusterName(r.targets[k]), "Cluster") EXCEPT !.policy = r.policy,
                                                               !.refs = {r.targets[k]}]]

TriggerPolicy(r, k) ==
    [Resource(Append(r.name, r.triggers[k]), "MadePolicy") EXCEPT
        !.policy = r.policy, !.refs = {Append(t, "cluster") : t \in Range(r.targets)}]

\* The last trigger's policy is the resource itself.
ClusterHeap ==
    LET r    == Visited
        last == TriggerPolicy(r, Len(r.triggers))
    IN  [heap EXCEPT ![Walked[pos]] = [Handled(r) EXCEPT !.name = last.name, !.refs = last.refs]]
            \o [k \in DOMAIN Replaced |-> Profile(Replaced[k])]
            \o Clusters(r)
            \o [k \in 1 .. Len(r.triggers) - 1 |-> TriggerPolicy(r, k)]

\* The same list object: resources.pop, insert, remove and append.
ClusterList ==
    LET stays == Filter(Hot, {i \in Range(Hot) : heap[i].kind \notin {"Port", "Net"}})
    IN  [k \in DOMAIN stays |->
            IF stays[k] \in Range(Replaced)
            THEN Len(heap) + CHOOSE n \in DOMAIN Replaced : Replaced[n] = stays[k]
            ELSE stays[k]]
        \o [k \in 1 .. Len(ClusterHeap) - Len(heap) - Len(Replaced) |->
                Len(heap) + Len(Replaced) + k]

\* There are triggers, and every target has the property "networks".
ClusterSucceeds ==
    /\ Visited.triggers # <<>>
    /\ \A i \in Range(Replaced) : PortsOf(i) # {}
    /\ ~ SplitFails(ClusterHeap, ClusterList)

HandleCluster ==
    /\ AtKind({"SenlinPolicy"}) /\ ~ LeftAlone(Visited) /\ ClusterSucceeds
    /\ Split(ClusterHeap, [lists EXCEPT ![Len(lists)] = ClusterList])
    /\ pos' = pos + 1
    /\ UNCHANGED <<nested, stage>>

\* The expansion of these reads their section of triggers.
ExpansionFails ==
    \E i \in Range(Hot) : heap[i].kind \in {"Monitoring", "SenlinPolicy"} /\ ~ heap[i].section

\* handle_properties of a policy that another one made takes no list.
Fail ==
    /\ \/ AtKind({"ScalingPolicy"}) /\ ~ LeftAlone(Visited)
            /\ ~ (FindsTarget /\ ~ SplitFails(ScaledHeap, ScaledList))
       \/ AtKind({"SenlinPolicy"}) /\ ~ LeftAlone(Visited) /\ ~ ClusterSucceeds
       \/ AtKind({"MadePolicy"}) /\ ~ LeftAlone(Visited)
       \/ AtKind({"Reservation"}) /\ NoAction(Visited)
       \/ stage = "expansion" /\ ExpansionFails
    /\ stage' = "failed"
    /\ UNCHANGED <<heap, lists, pos, policyRes, nested>>

FinishProperties ==
    /\ stage = "properties" /\ pos > Len(Walked)
    /\ stage' = "expansion"
    /\ UNCHANGED <<heap, lists, pos, policyRes, nested>>

-----------------------------------------------------------------------------
(* Expansion, functions and output.                                        *)

Of(r, name, kind, refs) ==
    [Resource(name, kind) EXCEPT !.policy = r.policy, !.refs = refs]

\* Plausible bug: the alarm of a policy takes the name with its suffix.
AlarmNamedWithSuffix(name) == Append(name, "alarm")

AlarmName(name) ==
    Append(Filter(name, Range(name) \ {"scale_in", "scale_out"}), "alarm")

\* A receiver for each target and the action of each trigger, which is named
\* as the trigger; an alarm for each trigger.
ClusterExpansion(r) ==
    LET Receiver(t, g) == t \o <<g, "receiver">>
    IN  FlattenSeq([n \in DOMAIN r.targets |->
            [k \in DOMAIN r.triggers |->
                Of(r, Receiver(r.targets[n], r.triggers[k]), "Receiver",
                   {ClusterName(r.targets[n])})]])
        \o [k \in DOMAIN r.triggers |->
                Of(r, <<r.triggers[k], "alarm">>, "Alarm",
                   {Receiver(t, r.triggers[k]) : t \in Range(r.targets)})]

\* The triggers that are not in the filter yet.
Unfiltered(r) == IF r.handled /\ r.triggers # <<>> THEN Tail(r.triggers) ELSE r.triggers

Expansion(r) ==
    CASE r.kind = "Net" /\ ~ r.hidden -> <<Of(r, Append(r.name, "subnet"), "Subnet", {r.name})>>
      [] r.kind = "ScalingPolicy" /\ r.triggers # <<>> ->
            <<Of(r, AlarmName(r.name), "Alarm", {})>>
      [] r.kind = "SenlinPolicy" -> ClusterExpansion(r)
      [] r.kind = "Monitoring" ->
            [k \in DOMAIN Unfiltered(r) |-> Of(r, <<Unfiltered(r)[k]>>, "Alarm", {})]
      [] r.kind = "Reservation" /\ r.handled ->
            [k \in DOMAIN r.triggers |-> Of(r, <<r.triggers[k]>>, "Alarm", {})]
      [] OTHER -> <<>>

Expand ==
    /\ stage = "expansion" /\ ~ ExpansionFails
    /\ LET expanded == FlattenSeq([k \in DOMAIN Hot |-> Expansion(heap[Hot[k]])])
       IN  /\ heap' = heap \o expanded
           /\ lists' = [lists EXCEPT ![Len(lists)] =
                            @ \o [k \in DOMAIN expanded |-> Len(heap) + k]]
    /\ stage' = "functions"
    /\ UNCHANGED <<pos, policyRes, nested>>

\* translate_param_value of the input_values of each resource.
ResolveFunctions ==
    /\ stage = "functions"
    /\ heap' = [i \in DOMAIN heap |-> [heap[i] EXCEPT !.resolved = @ \/ i \in Range(Hot)]]
    /\ stage' = "written"
    /\ UNCHANGED <<lists, pos, policyRes, nested>>

Next ==
    \/ HandleResource \/ HandlePlacement \/ HandleScaling \/ HandleCluster
    \/ Fail \/ FinishProperties \/ Expand \/ ResolveFunctions

Spec == Init /\ [][Next]_vars

\* The output: the last of the resources with a name.
Output ==
    {heap[i] : i \in {i \in Range(Hot) :
        /\ ~ heap[i].hidden
        /\ \A k, n \in DOMAIN Hot :
                Hot[k] = i /\ n > k => heap[Hot[n]].hidden \/ heap[Hot[n]].name # heap[i].name}}

Nested == Range(nested)

-----------------------------------------------------------------------------
(* Conditions on the topologies.                                           *)

\* The names that the resource of a node or policy may get.
TakenNames(r) ==
    {r.name} \cup CASE r.kind \in {"Monitoring", "Reservation"} -> {<<g>> : g \in Range(r.triggers)}
                    [] r.kind = "SenlinPolicy" -> {Append(r.name, g) : g \in Range(r.triggers)}
                    [] OTHER -> {}

\* No two may get the same name, and none the name of what the translator makes.
NamesApart(t) ==
    \A i \in DOMAIN t :
        /\ \A name \in TakenNames(t[i]) : name # <<>> /\ Last(name) \notin MadeOf
        /\ \A j \in DOMAIN t \ {i} : TakenNames(t[i]) \cap TakenNames(t[j]) = {}

Scalers == {"ScalingPolicy", "SenlinPolicy"}

\* One policy scales, after the placements.
ScaledOnce(t) ==
    \A i, j \in DOMAIN t :
        i # j /\ t[i].kind \in Scalers /\ t[j].kind \in Scalers \cup {"ServerGroup"}
            => t[j].kind = "ServerGroup" /\ j < i

NodeNames(t) == {r.name : r \in {r \in Range(t) : r.kind \in Nodes /\ ~ r.hidden}}

ServerNames(t) == {r.name : r \in {r \in Range(t) : r.kind = "Server"}}

RefsGiven(t) == \A r \in Range(t) : r.refs \subseteq NodeNames(t)

ServersPlaced(t) ==
    \A r \in Range(t) : r.kind = "ServerGroup" => Range(r.targets) \subseteq ServerNames(t)

\* A cluster is of servers and after every other policy, and no resource that
\* it leaves refers to the ports and networks that it takes away.
ClusterFits(t) ==
    \A c \in DOMAIN t : t[c].kind = "SenlinPolicy" =>
        /\ Range(t[c].targets) \subseteq ServerNames(t)
        /\ \A i \in DOMAIN t : i > c => t[i].kind \in Nodes
        /\ \A r, q \in Range(t) :
                r.kind # "Net" /\ q.kind \in {"Port", "Net"} /\ q.name \in r.refs =>
                    /\ q.kind = "Port" /\ q.server = r.name
                    /\ r.name \in Range(t[c].targets)

Regular ==
    \A t \in Topologies :
        /\ NamesApart(t) /\ ScaledOnce(t) /\ RefsGiven(t)
        /\ ServersPlaced(t) /\ ClusterFits(t)

-----------------------------------------------------------------------------
(* Properties.                                                             *)

Written == stage = "written"

Names(resources) == {r.name : r \in resources}

\* Every reference of the output is to a resource of the same template: of a
\* policy to its group, of a cluster to its profile, of an alarm to its
\* receivers, of a server to its server group.
OutputClosed ==
    Written =>
        /\ \A r \in Output : r.refs \subseteq Names(Output)
        /\ \A r \in Nested : r.refs \subseteq Names(Nested)

\* A scaling policy comes out as exactly two: one that scales out by the
\* increment and one that scales in by the same.
ScalingPaired ==
    Written =>
        \A p \in {r \in Range(heap) : r.kind = "ScalingPolicy" /\ r.increment > 0} :
            {<<r.name, r.adjustment>> : r \in {q \in Output :
                        q.kind = "ScalingPolicy" /\ q.policy = p.policy}}
                = {<<<<p.policy, "scale_out">>, p.increment>>,
                   <<<<p.policy, "scale_in">>, - p.increment>>}

\* Every trigger or action of a policy has one alarm in the output, and a
\* policy has no other: neither the copies that the two scaling policies make,
\* nor the resource of a monitoring policy beside those of its triggers.  The
\* resource of one without triggers is an alarm that is named as the policy.
AlarmPerTrigger ==
    Written =>
        \A p \in {r \in Range(heap) : r.kind \in Policies \ {"ServerGroup"}} :
            Names({r \in Output : r.policy = p.policy
                        /\ r.kind \in {"Alarm", "Monitoring", "Reservation"}})
                = CASE p.kind = "ScalingPolicy" ->
                            {<<p.policy, "alarm">> : t \in Range(p.triggers)}
                    [] p.kind = "SenlinPolicy" -> {<<t, "alarm">> : t \in Range(p.triggers)}
                    [] OTHER -> IF p.triggers = <<>> THEN {<<p.policy>>}
                                ELSE {<<t>> : t \in Range(p.triggers)}

\* Resources that the output merges, having one name, are of one policy.
MergesAlike ==
    Written =>
        \A i, j \in {i \in Range(Hot) : ~ heap[i].hidden} :
            i # j /\ heap[i].name = heap[j].name =>
                heap[i].policy = heap[j].policy /\ heap[i].policy # NoPolicy

\* "Translate TOSCA policy type tosca.policies.Placement.": every target of a
\* placement is in the output, with the group in its scheduler hints.
PlacementKept ==
    Written =>
        \A p \in {r \in Range(heap) : r.kind = "ServerGroup"} :
            \A t \in Range(p.targets) :
                \E r \in Output \cup Nested : r.name = t /\ p.name \in r.refs

\* Every policy is in the output with all that stands for it.
PoliciesKept == ScalingPaired /\ AlarmPerTrigger /\ PlacementKept

\* "Resolve function calls: ... at this point, all the HOT resources should
\* have been created in the graph" (translate_node_templates.py:387-389): the
\* functions in the input_values of deployments are resolved in every template
\* that is written.
FunctionsResolved ==
    Written => \A r \in Output \cup Nested : r.kind = "Deployment" => r.resolved

=============================================================================
