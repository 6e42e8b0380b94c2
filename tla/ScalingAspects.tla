--------------------------- MODULE ScalingAspects ---------------------------
(***************************************************************************)
(* The ETSI NFV policies of a virtual network function: each scaling       *)
(* aspect moves the VDUs it scales, with what belongs to them, to a nested *)
(* template of its own, and leaves a group and two scaling policies in the *)
(* main template; an affinity rule puts VDUs in a server group.  Code:     *)
(* src/translator/hot/tosca/etsi_nfv/.                                     *)
(*                                                                         *)
(* A name is the sequence of the parts that are joined with "_".  A        *)
(* resource is a record: refs are the resources and params the             *)
(* parameters it refers to, parts what belongs to a VDU: its ports         *)
(* (assoc_port_resources) and its virtual_storages.  A virtual link that   *)
(* is not an IP network is a resource without a type from the start.       *)
(***************************************************************************)
EXTENDS Integers, FiniteSets, SequencesExt, TLC, Lists

CONSTANTS
    Word,   \* the parts of names
    Lower,  \* each part in lower case
    Vnfs,   \* records: resources, policies, deltas, initial
    None    \* no number, no link, no binding

Resource(name, kind) ==
    [name |-> name, kind |-> kind, refs |-> {}, params |-> {}, parts |-> {},
     link |-> None, binding |-> None, leaf |-> FALSE,
     min |-> None, max |-> None, passes |-> {}, adjustment |-> None, aspect |-> None]

Name == Seq(Word)

Kinds == {"Server", "Port", "Volume", "Net", "Subnet", "QoS", "Bandwidth", "Flavor",
          "ServerGroup", "Group", "ScalingPolicy", "Aspects", "Typeless"}

\* The parts that the translator adds, without the "id" of a parameter.
MadeOf == {"flavor", "group", "subnet", "qospolicy", "bandwidth", "scale_out", "scale_in"}

ResourceRecord ==
    [name : Name, kind : Kinds, refs : SUBSET Name, params : SUBSET Name,
     parts : SUBSET Name, link : {None} \cup Name, binding : {None} \cup Name,
     leaf : BOOLEAN, min : {None} \cup Int, max : {None} \cup Int,
     passes : SUBSET [param : Name, value : Name],
     adjustment : {None} \cup Int, aspect : {None} \cup Name]

ASSUME WordAssumption == MadeOf \cup {"id"} \subseteq Word /\ Lower \in [Word -> Word]

ASSUME VnfsAssumption ==
    \A v \in Vnfs :
        /\ v.resources \in Seq(ResourceRecord)
        /\ v.policies \in Seq(ToSet(v.policies)) /\ v.deltas \in Seq(ToSet(v.deltas))
        /\ v.initial \in Seq(ToSet(v.initial))
        /\ \A p \in ToSet(v.policies) :
                /\ p.kind \in {"Aspects", "Affinity"} /\ p.name \in Name
                /\ p.kind = "Aspects" => p.aspects \in Seq([name : Name, level : Int, delta : STRING])
        /\ \A d \in ToSet(v.deltas) : \A delta \in DOMAIN d.deltas : d.deltas[delta] \in Int
        /\ \A i \in ToSet(v.initial) : i.num \in Int

VARIABLES
    vnf,
    resources,  \* self.hot_resources
    policy,     \* the position of the walk over the policies
    aspect,     \* the position in scaling_aspect_objs
    adjusted,   \* per aspect that was handled: scaling_adjustment
    nested,     \* per aspect that was handled: its nested template
    stage

vars == <<vnf, resources, policy, aspect, adjusted, nested, stage>>

Init ==
    /\ vnf \in Vnfs
    /\ resources = vnf.resources
    /\ policy = 1 /\ aspect = 1 /\ adjusted = << >> /\ nested = << >>
    /\ stage = "properties"

-----------------------------------------------------------------------------

At(kind) ==
    stage = "properties" /\ policy <= Len(vnf.policies) /\ vnf.policies[policy].kind = kind

Policy == vnf.policies[policy]
Aspect == Policy.aspects[aspect]
Parted(name, suffix) == Append(name, suffix)

\* Plausible bug: the rules of every scope but this one are applied.
AffinityOfOthers(r) ==
    /\ Policy.scope # "nfvi_node"
    /\ r.kind = "Server" /\ r.name \in Policy.targets

AffinityOf(r) ==
    /\ Policy.scope = "nfvi_node"
    /\ r.kind = "Server" /\ r.name \in Policy.targets

\* handle_properties of an affinity rule: its server group stays only if one
\* of its targets is a server that is still in the list.
HandleAffinity ==
    /\ At("Affinity")
    /\ LET group == Parted(Policy.name, "group")
           hinted == \E r \in Range(resources) : AffinityOf(r)
       IN  resources' = [k \in DOMAIN resources |->
                LET r == resources[k]
                IN  IF AffinityOf(r) THEN [r EXCEPT !.refs = @ \cup {group}]
                    ELSE IF r.name = group /\ ~ hinted THEN [r EXCEPT !.kind = "Typeless"]
                    ELSE r]
    /\ policy' = policy + 1
    /\ UNCHANGED <<vnf, aspect, adjusted, nested, stage>>

-----------------------------------------------------------------------------
(* One scaling aspect.                                                     *)

FlavorName(vdu)  == Parted(vdu, "flavor")
Lowered(name)    == [k \in DOMAIN name |-> Lower[name[k]]]
Parameter(name)  == Append(Lowered(name), "id")
FlavorParam(vdu) == Parameter(FlavorName(vdu))

\* The VduScalingAspectDeltas of the aspect; only the first is used.
Deltas == Filter(vnf.deltas, {d \in ToSet(vnf.deltas) : d.aspect = Aspect.name})

\* Every target in the list is asked for its ports, which only a server has.
Scalable ==
    /\ Deltas # <<>>
    /\ \A r \in Range(resources) : r.name \in Deltas[1].targets => r.kind = "Server"

\* vdu_infos
Vdus == {r \in Range(resources) : r.kind = "Server" /\ r.name \in Deltas[1].targets}

Names(records) == {r.name : r \in records}

\* related_rsrc_names
Related == Names(Vdus) \cup UNION {v.parts : v \in Vdus}

\* related_vl_names: the links of ports that name one of the VDUs as binding.
Links == {p.link : p \in {r \in Range(resources) :
                            r.kind = "Port" /\ r.binding \in Names(Vdus) /\ r.link # None}}

\* Replace flavor id, replace network id.
Scaled(r) ==
    CASE r.kind = "Server" ->
            [r EXCEPT !.refs = @ \ {FlavorName(r.name)}, !.params = @ \cup {FlavorParam(r.name)}]
      [] r.kind = "Port" /\ r.link \in Links ->
            [r EXCEPT !.refs = @ \ {r.link}, !.params = @ \cup {Parameter(r.link)}]
      [] OTHER -> r

NestedTemplate ==
    LET scaled == {Scaled(r) : r \in {q \in Range(resources) : q.name \in Related}}
    IN  [resources |-> scaled, parameters |-> UNION {r.params : r \in scaled}]

\* Only the first step of an aspect is used.
Adjustment ==
    IF Vdus = {} \/ Aspect.delta \notin DOMAIN Deltas[1].deltas THEN None
    ELSE Deltas[1].deltas[Aspect.delta]

MinSize(vdu) ==
    LET initial == Filter(vnf.initial, {i \in ToSet(vnf.initial) : vdu \in i.targets})
    IN  IF initial = <<>> THEN None ELSE initial[1].num

\* Plausible bug: the maximum is counted from 0.
MaxSizeFromZero(vdu) == Aspect.level * Adjustment

MaxSize(vdu) == MinSize(vdu) + Aspect.level * Adjustment

Sized(vdu) == MinSize(vdu) # None /\ Adjustment # None

\* Plausible bug: a group passes nothing but the flavors.
PassedFlavors == {[param |-> FlavorParam(v.name), value |-> FlavorName(v.name)] : v \in Vdus}

\* asg_props, which the groups of the aspect share.
Passed ==
    {[param |-> FlavorParam(v.name), value |-> FlavorName(v.name)] : v \in Vdus}
        \cup {[param |-> Parameter(l), value |-> l] : l \in Links}

\* Plausible bug: the group is named after the VDU.
GroupNamedForVdu(vdu) ==
    [Resource(Parted(vdu, "group"), "Group") EXCEPT
        !.passes = Passed, !.refs = {p.value : p \in Passed}, !.aspect = Aspect.name]

\* A group for each VDU, all with the name of the aspect.
Group(vdu) ==
    [Resource(Aspect.name, "Group") EXCEPT
        !.min    = IF Sized(vdu) THEN MinSize(vdu) ELSE None,
        !.max    = IF Sized(vdu) THEN MaxSize(vdu) ELSE None,
        !.passes = Passed,
        !.refs   = {p.value : p \in Passed},
        !.aspect = Aspect.name]

Flavor(vdu) == Resource(FlavorName(vdu), "Flavor")

\* Plausible bug: the flavors of the scaled VDUs are forgotten.
StayingWithoutFlavors ==
    FlattenSeq([k \in DOMAIN resources |->
        LET r == resources[k]
        IN  IF r.name \notin Related THEN <<r>>
            ELSE IF r.kind = "Server" THEN <<Group(r.name)>> ELSE <<>>])

\* non_scl_rsrcs
Staying ==
    LET vdus == Filter(resources,
                       {r \in Range(resources) : r.name \in Related /\ r.kind = "Server"})
    IN  [k \in DOMAIN vdus |-> Flavor(vdus[k].name)] \o
        FlattenSeq([k \in DOMAIN resources |->
            LET r == resources[k]
            IN  IF r.name \notin Related THEN <<r>>
                ELSE IF r.kind = "Server" THEN <<Group(r.name)>> ELSE <<>>])

AtAspect == At("Aspects") /\ aspect <= Len(Policy.aspects)

\* What is known of the aspects, with a value for the one that is handled.
OfAspect(known, value) ==
    [a \in DOMAIN known \cup {Aspect.name} |-> IF a = Aspect.name THEN value ELSE known[a]]

HandleAspect ==
    /\ AtAspect /\ Scalable
    /\ adjusted'  = OfAspect(adjusted, Adjustment)
    /\ nested'    = OfAspect(nested, NestedTemplate)
    /\ resources' = Staying
    /\ aspect' = aspect + 1
    /\ UNCHANGED <<vnf, policy, stage>>

\* IndexError at vsad_rsrcs[0], AttributeError at assoc_port_resources.
Fail ==
    /\ AtAspect /\ ~ Scalable
    /\ stage' = "failed"
    /\ UNCHANGED <<vnf, resources, policy, aspect, adjusted, nested>>

ScaleIn(a) == IF adjusted[a] = None THEN None ELSE - adjusted[a]

ScalingPolicies(a) ==
    LET Toward(suffix, n) ==
            [Resource(Parted(a, suffix), "ScalingPolicy") EXCEPT
                !.adjustment = n, !.refs = {a}, !.aspect = a]
    IN  <<Toward("scale_out", adjusted[a]), Toward("scale_in", ScaleIn(a))>>

\* _create_scale_out_in_resources
CreatePolicies ==
    /\ At("Aspects") /\ aspect > Len(Policy.aspects)
    /\ resources' = Filter(resources, {r \in Range(resources) : r.kind # "Aspects"})
            \o FlattenSeq([k \in DOMAIN Policy.aspects |-> ScalingPolicies(Policy.aspects[k].name)])
    /\ policy' = policy + 1
    /\ UNCHANGED <<vnf, aspect, adjusted, nested, stage>>

FinishProperties ==
    /\ stage = "properties" /\ policy > Len(vnf.policies)
    /\ stage' = "expansion"
    /\ UNCHANGED <<vnf, resources, policy, aspect, adjusted, nested>>

-----------------------------------------------------------------------------
(* The expansion of what is left in the main template, and the removal of  *)
(* what has no type.                                                       *)

Expansion(r) ==
    CASE r.kind = "Server" -> <<Flavor(r.name)>>
      [] r.kind = "Net" ->
            <<[Resource(Parted(r.name, "subnet"), "Subnet") EXCEPT !.refs = {r.name}]>> \o
            IF r.leaf
            THEN <<Resource(Parted(r.name, "qospolicy"), "QoS"),
                   [Resource(Parted(r.name, "bandwidth"), "Bandwidth") EXCEPT
                        !.refs = {Parted(r.name, "qospolicy")}]>>
            ELSE <<>>
      [] OTHER -> <<>>

Expand ==
    /\ stage = "expansion"
    /\ LET all == resources
                    \o FlattenSeq([k \in DOMAIN resources |-> Expansion(resources[k])])
       IN  resources' = Filter(all, {r \in Range(all) : r.kind # "Typeless"})
    /\ stage' = "written"
    /\ UNCHANGED <<vnf, policy, aspect, adjusted, nested>>

Next ==
    HandleAffinity \/ HandleAspect \/ Fail \/ CreatePolicies \/ FinishProperties \/ Expand

Spec == Init /\ [][Next]_vars

-----------------------------------------------------------------------------
(* What a network function may be like.                                    *)

\* A name the translator does not make.
OwnName(name) == name # <<>> /\ Last(name) \notin MadeOf

\* Names are not confused: every resource and aspect has one of its own, in lower
\* case too, and there is one policy with aspects.
NamesApart(v) ==
    /\ \A j, k \in DOMAIN v.resources :
            Lowered(v.resources[j].name) = Lowered(v.resources[k].name) => j = k
    /\ \A r \in Range(v.resources) :
            /\ r.kind \in {"Server", "Port", "Volume", "Net", "ServerGroup", "Aspects"}
            /\ IF r.kind = "ServerGroup" THEN r.name # <<>> /\ Last(r.name) = "group"
               ELSE OwnName(r.name)
    /\ \A j, k \in DOMAIN v.policies :
            v.policies[j].kind = "Aspects" /\ v.policies[k].kind = "Aspects" => j = k
    /\ \A p \in Range(v.policies) : p.kind = "Aspects" =>
            /\ \A j, k \in DOMAIN p.aspects : p.aspects[j].name = p.aspects[k].name => j = k
            /\ \A a \in Range(p.aspects) :
                    OwnName(a.name) /\ a.name \notin Names(Range(v.resources))

\* The parts of a VDU exist.
PartsGiven(v) ==
    \A r \in Range(v.resources) : r.kind = "Server" => r.parts \subseteq Names(Range(v.resources))

\* A VDU refers to its parts and its flavor, a port to its network, a network to
\* its policy.  The parts of a VDU are storages, and the ports bound to it.
References(v) ==
    LET given == Range(v.resources)
        Kind(kinds) == {r \in given : r.kind \in kinds}
    IN  /\ \A r \in given :
            /\ r.params = {}
            /\ r.refs \subseteq
                    CASE r.kind = "Server" -> r.parts \cup {FlavorName(r.name)}
                      [] r.kind = "Port"   -> {r.link} \ {None}
                      [] r.kind = "Net"    -> IF r.leaf THEN {Parted(r.name, "qospolicy")} ELSE {}
                      [] OTHER             -> {}
        /\ \A vdu \in Kind({"Server"}) :
            /\ vdu.parts \subseteq Names(Kind({"Port", "Volume"}))
            /\ \A p \in Kind({"Port"}) : p.name \in vdu.parts <=> p.binding = vdu.name
            /\ \A other \in Kind({"Server"}) : vdu.parts \cap other.parts # {} => vdu = other
        /\ \A p \in Kind({"Port"}) : p.link # None => p.link \in Names(Kind({"Net"}))

\* The VDUs of an affinity rule are not scaled, and it has a server group.
AffinityApart(v) ==
    /\ \A j, k \in DOMAIN v.policies :
            /\ v.policies[j].kind = "Affinity" /\ v.policies[k].kind = "Affinity"
            /\ v.policies[j].name = v.policies[k].name
            => j = k
    /\ \A p \in Range(v.policies) : p.kind = "Affinity" =>
            /\ \E r \in Range(v.resources) :
                    r.kind = "ServerGroup" /\ r.name = Parted(p.name, "group")
            /\ p.scope = "nfvi_node" => \A d \in Range(v.deltas) : p.targets \cap d.targets = {}

-----------------------------------------------------------------------------
(* Properties.                                                             *)

Written == stage = "written"

\* The main template: the last of the resources with a name.
Main ==
    {resources[k] : k \in {k \in DOMAIN resources :
        \A n \in k + 1 .. Len(resources) : resources[n].name # resources[k].name}}

Templates == {Main} \cup {nested[a].resources : a \in DOMAIN nested}

Groups == {r \in Main : r.kind = "Group"}

\* Every resource of the network function is in exactly one template, and
\* every VDU has its flavor in the main template.
EachOnce ==
    Written =>
        /\ \A r \in Range(vnf.resources) : r.kind \in {"Server", "Port", "Volume", "Net"} =>
                /\ Cardinality({t \in Templates : r.name \in Names(t)}) = 1
                /\ r.kind = "Server" => FlavorName(r.name) \in Names(Main)

\* A nested template is closed: what it refers to is in it, and the group of
\* the aspect passes just the parameters it has.
NestedClosed ==
    Written =>
        \A a \in DOMAIN nested :
            /\ \A r \in nested[a].resources : r.refs \subseteq Names(nested[a].resources)
            /\ \A g \in Groups : g.aspect = a =>
                    {p.param : p \in g.passes} = nested[a].parameters

\* The output "can be deployed by Heat": what the main template refers to is in it.
MainClosed == Written => \A r \in Main : r.refs \subseteq Names(Main)

\* Every aspect has moved a VDU to its template.
EachScales == \A a \in DOMAIN nested : nested[a].resources # {}

\* Every template is closed: the main one if each aspect has a VDU to scale,
\* as its scaling policies refer to the group that takes the place of one.
TemplatesClosed == NestedClosed /\ (EachScales => MainClosed)

\* A group reaches its maximum from its minimum in max_scale_level steps out,
\* and comes back with as many steps in.
LevelsReachSizes ==
    Written =>
        \A g \in Groups, p \in Range(vnf.policies) : p.kind = "Aspects" /\ g.max # None =>
            \A a \in Range(p.aspects), out, in \in Main :
                /\ g.aspect = a.name
                /\ out.name = Parted(a.name, "scale_out") /\ in.name = Parted(a.name, "scale_in")
                => /\ g.min + a.level * out.adjustment = g.max
                   /\ g.max + a.level * in.adjustment = g.min

\* "This code only supports tosca.nodes.nfv.Vdu.Compute as 'targets'": these
\* it does, so the VDUs of an affinity rule have its server group.
AffinityHolds ==
    Written =>
        \A p \in Range(vnf.policies) : p.kind = "Affinity" /\ p.scope = "nfvi_node" =>
            \A t \in Templates, r \in Range(vnf.resources) :
                r.kind = "Server" /\ r.name \in p.targets /\ r.name \in Names(t) =>
                    Parted(p.name, "group") \in Names(t)

=============================================================================
