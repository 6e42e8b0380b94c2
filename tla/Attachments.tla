---------------------------- MODULE Attachments ----------------------------
(***************************************************************************)
(* The block storage attachments of one translation:                       *)
(* TranslateNodeTemplates._translate_nodetemplates, lines 237 to 267, and  *)
(* _get_attachment_node.  The search writes into the requirements of the   *)
(* parsed template, which the next translation reads again.                *)
(*                                                                         *)
(* A requirement is a record: its form, "full" or "short"; the node it is  *)
(* to; its relationship, a record [form, of]: the "name" or the "type" of  *)
(* one, or a dictionary with its "inline" type or with a "template"; last, *)
(* the key that comes last in its dictionary.                              *)
(***************************************************************************)
EXTENDS Integers, SequencesExt, TLC

CONSTANTS
    Topologies,  \* sequences of servers, each the sequence of its requirements
    Volumes,     \* the nodes derived from BlockStorage
    TypeOf,      \* relationship template :> its type
    NoNode       \* no relationship, no volume

Relation == [form: {"type", "inline", "template"}, of: STRING]
            \cup [form: {"name"}, of: DOMAIN TypeOf]

RequirementRecord ==
    [form: {"full", "short"}, to: STRING, relation: Relation \cup {NoNode}, last: STRING]

ASSUME TopologiesAssumption ==
    /\ \A topology \in Topologies : topology \in Seq(Seq(RequirementRecord))
    /\ DOMAIN TypeOf \subseteq STRING /\ TypeOf \in [DOMAIN TypeOf -> STRING]
    /\ NoNode \notin Relation /\ NoNode \notin Volumes

VARIABLES
    servers,      \* the requirements of each server, node.requirements
    attached,     \* the attachments in hot_resources
    at,           \* <<server, requirement>>, the place of the search
    suffix,
    nodeName,     \* node_name, left from the last dictionary
    search        \* "off", "on", "failed"

attachmentVars == <<servers, attached, at, suffix, nodeName, search>>


AttachmentsInit ==
    /\ servers \in Topologies
    /\ attached = << >> /\ at = <<1, 1>> /\ suffix = 0 /\ nodeName = NoNode /\ search = "off"

-----------------------------------------------------------------------------

Requirements == servers[at[1]]
Requirement == Requirements[at[2]]

Searching == search = "on" /\ at[1] <= Len(servers) /\ at[2] <= Len(Requirements)

\* The requirements of a server that lead to a volume or to another node.
ToVolume(r) == r.to \in Volumes

\* The last value of the dictionary: a node, or what names no node.
LastValue(r) == IF r.last = "node" \/ r.relation = NoNode THEN r.to ELSE "relationship"

\* Plausible bug: volume_name is not reset before the next requirement.
VolumeNameKept(r, node) ==
    IF ~ ToVolume(r) THEN IF node \in Volumes THEN node ELSE NoNode
    ELSE IF r.form = "full" THEN r.to ELSE node

\* The value of volume_name: a requirement in short form takes node, which
\* node_name is since the dictionary before it (line 259).
VolumeName(r, node) ==
    IF ~ ToVolume(r) THEN NoNode ELSE IF r.form = "full" THEN r.to ELSE node

\* node_name has no value at the first requirement in short form to a volume.
Unassigned(r) == ToVolume(r) /\ r.form = "short" /\ nodeName = NoNode

\* Relationships in the order of their requirements (the parser): once one
\* leads to the volume attach stays true for those after it.
RelationsFrom(reqs, volume) ==
    {j \in DOMAIN reqs : \E k \in 1 .. j : reqs[k].to = volume /\ volume \in Volumes}

\* Plausible bug: the node of the requirement is not compared.
ComparedToAny(reqs, volume) ==
    {p \in RelationsFrom(reqs, volume) \X DOMAIN reqs : reqs[p[2]].relation # NoNode}

\* The requirements that are compared, those to the node of a relationship found.
Compared(reqs, volume) ==
    {p \in RelationsFrom(reqs, volume) \X DOMAIN reqs :
        LET r == reqs[p[2]]
        IN  r.to = reqs[p[1]].to /\ (r.form = "full" => r.relation # NoNode)}

Before(p, q) == p[1] < q[1] \/ (p[1] = q[1] /\ p[2] <= q[2])

\* The requirement whose relationship is used, 0 if there is none.
Chosen(reqs, volume) ==
    IF Compared(reqs, volume) = {} THEN 0
    ELSE (CHOOSE p \in Compared(reqs, volume) : \A q \in Compared(reqs, volume) : Before(p, q))[2]

\* The name of a type or of a template; a dictionary names its type.
AttachmentName(relation) == relation.of

\* The name of a relationship template is replaced by the template.
Resolved(relation) ==
    IF relation.form = "name" THEN [form |-> "inline", of |-> TypeOf[relation.of]] ELSE relation

Step == at' = <<at[1], at[2] + 1>>

\* A volume with a relationship.
Attach ==
    /\ Searching /\ ~ Unassigned(Requirement)
    /\ LET r == Requirement
           volume == VolumeName(r, nodeName)
           k == Chosen(Requirements, volume)
       IN  /\ volume # NoNode /\ k # 0 /\ Requirements[k].form = "full"
           /\ attached' = Append(attached,
                [server |-> at[1], volume |-> volume, from |-> k, suffix |-> suffix + 1,
                 name |-> AttachmentName(Requirements[k].relation)])
           /\ servers' = [servers EXCEPT ![at[1]][k].relation = Resolved(@)]
           /\ nodeName' = IF r.form = "full" THEN LastValue(r) ELSE nodeName
    /\ suffix' = suffix + 1 /\ Step
    /\ UNCHANGED search

\* No volume, or a volume without a relationship: nothing is attached.
Pass ==
    /\ Searching /\ ~ Unassigned(Requirement)
    /\ LET volume == VolumeName(Requirement, nodeName)
       IN  /\ volume = NoNode \/ Chosen(Requirements, volume) = 0
           /\ suffix' = IF volume = NoNode THEN suffix ELSE suffix + 1
           /\ nodeName' = IF Requirement.form = "full" THEN LastValue(Requirement) ELSE nodeName
    /\ Step
    /\ UNCHANGED <<servers, attached, search>>

\* The name of a node has no get, and node_name may have no value.
Break ==
    /\ Searching
    /\ \/ Unassigned(Requirement)
       \/ LET volume == VolumeName(Requirement, nodeName)
              k == Chosen(Requirements, volume)
          IN  volume # NoNode /\ k # 0 /\ Requirements[k].form = "short"
    /\ search' = "failed"
    /\ UNCHANGED <<servers, attached, at, suffix, nodeName>>

\* Plausible bug: the suffix starts anew with each server.
NextServerAnew ==
    /\ search = "on" /\ at[1] <= Len(servers) /\ at[2] > Len(Requirements)
    /\ at' = <<at[1] + 1, 1>> /\ suffix' = 0
    /\ UNCHANGED <<servers, attached, nodeName, search>>

NextServer ==
    /\ search = "on" /\ at[1] <= Len(servers) /\ at[2] > Len(Requirements)
    /\ at' = <<at[1] + 1, 1>>
    /\ UNCHANGED <<servers, attached, suffix, nodeName, search>>

Search == Attach \/ Pass \/ Break \/ NextServer

\* Plausible bug: the suffix is kept from one translation to the next.
StartSearchOn ==
    /\ search' = "on" /\ attached' = << >> /\ at' = <<1, 1>> /\ nodeName' = NoNode
    /\ UNCHANGED <<servers, suffix>>

\* The local variables of a translation start anew.
StartSearch ==
    /\ search' = "on" /\ attached' = << >> /\ at' = <<1, 1>> /\ suffix' = 0 /\ nodeName' = NoNode
    /\ UNCHANGED servers

EndSearch == search' = "off" /\ UNCHANGED <<servers, attached, at, suffix, nodeName>>

Searched == search = "on" /\ at[1] > Len(servers)

-----------------------------------------------------------------------------
(* What the requirements of a template may be like.                        *)

\* No relationship template is asked for by its name, which the search replaces.
NameFree(topology) ==
    \A s \in 1 .. Len(topology) : \A k \in 1 .. Len(topology[s]) :
        topology[s][k].relation # NoNode => topology[s][k].relation.form # "name"

\* Every dictionary that leads to a volume has a relationship.
Related(topology) ==
    \A s \in 1 .. Len(topology) : \A k \in 1 .. Len(topology[s]) :
        topology[s][k].to \in Volumes /\ topology[s][k].form = "full"
            => topology[s][k].relation # NoNode

\* Every requirement that leads to a volume is such a dictionary.
InFull(topology) ==
    \A s \in 1 .. Len(topology) : \A k \in 1 .. Len(topology[s]) :
        topology[s][k].to \in Volumes =>
            topology[s][k].form = "full" /\ topology[s][k].relation # NoNode

=============================================================================
