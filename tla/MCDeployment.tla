---------------------------- MODULE MCDeployment ----------------------------
(* Inputs of each type with each constraint around its boundary; and two   *)
(* servers, two volumes and each form of a requirement.                    *)
EXTENDS Deployment, MCParameters

Full(to, form, of) ==
    [form |-> "full", to |-> to, relation |-> [form |-> form, of |-> of], last |-> "relationship"]
Bare(to, form) == [form |-> form, to |-> to, relation |-> NoNode, last |-> "node"]

TemplateTypes == "mount" :> "AttachesTo" @@ "fast" :> "FastAttachesTo"

Storage(to) == {Full(to, "type", "AttachesTo"), Full(to, "inline", "AttachesTo"),
                Full(to, "template", "mount")}

\* A server with one volume, with a node besides, with two volumes; servers
\* that fail, at a name before any dictionary and at one met on the way.
PlainServers ==
    {<<r>> : r \in Storage("disk")} \cup {<<r, Bare("db", "short")>> : r \in Storage("disk")}
    \cup {<<r, q>> : r \in Storage("disk"), q \in Storage("tape")}
    \cup {<< >>, <<Bare("disk", "short")>>,
          <<Bare("db", "full"), Bare("disk", "short"), Full("disk", "type", "AttachesTo")>>,
          <<Full("disk", "type", "AttachesTo") , [Bare("db", "full") EXCEPT !.last = "node"]>>}
    \cup {<<[r EXCEPT !.last = "node"], Bare("db", "full")>> : r \in Storage("disk")}

PlainTopologies == {<<s, t>> : s \in PlainServers, t \in {<<r>> : r \in Storage("disk")}}

\* A relationship template by its name.
NamedTemplates == {<<<<Full("disk", "name", "mount")>>, <<Full("disk", "name", "fast")>>>>}

\* A requirement in short form to a second volume.
ShortForms ==
    {<<<<r, Bare("tape", "short")>>>> :
        r \in Storage("disk") \cup {[q EXCEPT !.last = "node"] : q \in Storage("disk")}}

To(file, via) == [file |-> file, via |-> via]
Has(references, artifacts) ==
    [references |-> references, asked |-> {},
     artifacts |-> [k \in DOMAIN artifacts |-> [type |-> artifacts[k]]]]

PlainContents ==
    {Has({}, << >>), Has({To("install.sh", <<"dict">>)}, <<"Other">>),
     Has({To("install.sh", <<"dict">>), To("page", <<"dict", "dict">>)}, <<"Other", "Other">>),
     Has({}, <<"Other", "missing">>), [Has({}, << >>) EXCEPT !.asked = {"key_name"}]}

\* The parts of --parameters, one for each value that is given.
Parts(values) ==
    LET names == SetToSeq(DOMAIN values) IN [k \in DOMAIN names |-> <<names[k], values[names[k]]>>]

CommandLine(parts, validateOnly, csar) ==
    [parts |-> parts, validateOnly |-> validateOnly, csar |-> csar]

Faulty == {<<<<"cpus", 2, 2>>>>, <<<<"blank", 2>>>>}

Run(in, on, with, line) == [inputs |-> in, servers |-> on, content |-> with, command |-> line]

OneInput == <<Input("cpus", "integer", 4, <<On("greater_than", <<2>>)>>)>>

\* A template with one input, a key_name given or not.
RunsOn(topologies, contents) ==
    {Run(OneInput, t, c, CommandLine(p, v, csar)) : t \in topologies, c \in contents,
        p \in {<< >>, <<<<"key_name", 5>>>>} \cup Faulty, v \in BOOLEAN, csar \in BOOLEAN}

\* Any inputs and values of a template without servers.
InputRuns ==
    {Run(d, << >>, Has({}, << >>), CommandLine(Parts(g), FALSE, FALSE)) :
        d \in PlainDeclarations, g \in PlainCommands}

PlainRuns == RunsOn(PlainTopologies, PlainContents) \cup InputRuns

\* What the theorems about the relationships and the file ask of a template.
ASSUME PlainRunsAssumption ==
    \A run \in PlainRuns :
        /\ Related(run.servers) /\ NameFree(run.servers)
        /\ AllEntered(run.content.references)

AllTopologies == PlainTopologies \cup NamedTemplates \cup ShortForms \cup {<< >>}
AllDeclarations == PlainDeclarations \cup {OneInput}

NamedRuns == RunsOn(NamedTemplates, {Has({}, << >>)})
ShortRuns == RunsOn(ShortForms, {Has({}, << >>)})

\* An operation input that is a list of artifacts, each a get_file.
ListedRuns ==
    RunsOn({<< >>}, {Has({To("install.sh", <<"dict">>), To("page", <<"dict", "list">>)}, << >>)})

\* An artifact of type File, of an archive or of a template.
FileRuns == RunsOn({<< >>}, {Has({To("page", <<"dict">>)}, <<"File">>)})

=============================================================================
