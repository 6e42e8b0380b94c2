----------------------------- MODULE Deployment -----------------------------
(***************************************************************************)
(* One run of the heat-translator command: src/translator/shell.py with    *)
(* hot/tosca_translator.py.  With --deploy the template is translated for  *)
(* Heat, and translated once more for the output file; both translations   *)
(* read the same parsed template and run in the same working directory.    *)
(* A translation goes through the inputs (Parameters), then the nodes, of  *)
(* which the module keeps the attachments (Attachments) and the artifacts, *)
(* and last writes the parameters and the files it refers to.              *)
(*                                                                         *)
(* A reference get_file is a record: the file, and via, the containers of  *)
(* the template from a resource down to it: "dict", "list", or "filed", a  *)
(* dictionary that has a get_file among its own keys.  An artifact is a    *)
(* record: the type "File" or "Other", or "missing" if no node has it;     *)
(* asked are the inputs that a property reads as a dictionary when the     *)
(* parser is done.                                                         *)
(***************************************************************************)
EXTENDS Attachments, FiniteSets, Parameters

CONSTANT Runs  \* records: the inputs and servers of the template, its content
               \* (references, artifacts, asked) and the command line (validateOnly,
               \* csar, the parts of --parameters)

VARIABLES
    command,
    content,
    session,    \* keystone_session: "unset", "none", "open"
    cwd,        \* the working directory: "home" or "csar"
    resolved,   \* the artifacts that are resolved
    stack,      \* what Heat was sent, or None
    output,     \* what was written, and where, or None
    step        \* where main is

inputVars == <<inputs, given, deploy, pos, params, section, written, stage>>
allVars == <<inputVars, attachmentVars, command, content, session, cwd, resolved,
             stack, output, step>>

\* _parse_parameters: each part is a name and a value with one "=".
WellFormed(part) == Len(part) = 2 /\ part[1] # "blank"

\* The dictionary of the parts; the last of a name counts.
Parsed(parts) ==
    [n \in {p[1] : p \in {p \in Range(parts) : WellFormed(p)}} |->
        parts[CHOOSE k \in DOMAIN parts :
                parts[k][1] = n /\ \A m \in k + 1 .. Len(parts) : parts[m][1] # n][2]]

CommandInit ==
    /\ \E run \in Runs :
        /\ inputs = run.inputs /\ servers = run.servers
        /\ content = run.content /\ command = run.command
    /\ given = Parsed(command.parts)
    /\ Init /\ AttachmentsInit
    /\ session = "unset" /\ cwd = "home" /\ resolved = 0
    /\ stack = None /\ output = None /\ step = "parameters"

-----------------------------------------------------------------------------
(* main, up to the translation.                                            *)

\* The parameters are parsed, the template is read and validated.
ParseParameters ==
    /\ step = "parameters"
    /\ step' = IF \E part \in Range(command.parts) : ~ WellFormed(part) THEN "failed"
               ELSE IF command.validateOnly THEN "done" ELSE "session"
    /\ UNCHANGED <<inputVars, attachmentVars, command, content, session, cwd, resolved,
                   stack, output>>

\* Without the keystone client there is no session; an exception while it is
\* opened leaves none.
OpenSession ==
    /\ step = "session"
    /\ session' \in {"open", "none", "unset"}
    /\ step' = "checks"
    /\ UNCHANGED <<inputVars, attachmentVars, command, content, cwd, resolved, stack, output>>

CanDeploy == session = "open"

\* RuntimeError without a client or a session; heat_client_avail is free.
CheckDeploy ==
    /\ step = "checks" /\ deploy
    /\ \/ CanDeploy /\ step' = "heat"
       \/ step' = "failed"
    /\ UNCHANGED <<inputVars, attachmentVars, command, content, session, cwd, resolved,
                   stack, output>>

WithoutDeploy ==
    /\ step = "checks" /\ ~ deploy
    /\ step' = "file"
    /\ UNCHANGED <<inputVars, attachmentVars, command, content, session, cwd, resolved,
                   stack, output>>

-----------------------------------------------------------------------------
(* One translation, TOSCATranslator.translate.                             *)

Translating == step \in {"heat", "file"}

nodeVars == <<attachmentVars, resolved, cwd>>
mainVars == <<command, content, session, stack, output>>

\* _resolve_input: an input that a property reads, and that the parser left
\* there, is given.
Resolvable == content.asked \subseteq DOMAIN given

ResolveInputFails ==
    /\ Translating /\ search = "off" /\ stage = "idle" /\ ~ Resolvable
    /\ step' = "failed"
    /\ UNCHANGED <<inputVars, nodeVars, mainVars>>

TranslateInputs ==
    /\ Translating /\ search = "off"
    /\ \/ Resolvable /\ BeginTranslation /\ UNCHANGED step
       \/ TranslateInput /\ UNCHANGED step
       \/ Reject /\ step' = "failed"
    /\ UNCHANGED <<nodeVars, mainVars>>

BeginNodes ==
    /\ Translating /\ search = "off" /\ stage = "inputs" /\ pos > Len(inputs)
    /\ StartSearch /\ resolved' = 0
    /\ UNCHANGED <<inputVars, cwd, step, mainVars>>

SearchAttachments ==
    /\ Translating /\ Search
    /\ step' = IF search' = "failed" THEN "failed" ELSE step
    /\ UNCHANGED <<inputVars, cwd, resolved, mainVars>>

\* csar_dir is set only for a deployment of an archive (_get_translator).
CsarDir == deploy /\ command.csar

\* Plausible bug: only an artifact of another type leaves the directory.
DirectoryAfterOther(type) == IF CsarDir /\ type = "Other" THEN "csar" ELSE cwd

\* get_artifact changes to csar_dir and returns from there for a file; for
\* another type it changes back.
DirectoryAfter(type) == IF CsarDir /\ type = "File" THEN "csar" ELSE cwd

\* translate_param_value of a get_artifact: without the artifact cwd is unbound.
ResolveArtifact ==
    /\ Translating /\ Searched /\ stage = "inputs" /\ resolved < Len(content.artifacts)
    /\ LET type == content.artifacts[resolved + 1].type
       IN  IF type = "missing" THEN step' = "failed" /\ UNCHANGED <<cwd, resolved>>
           ELSE /\ cwd' = DirectoryAfter(type) /\ resolved' = resolved + 1
                /\ UNCHANGED step
    /\ UNCHANGED <<inputVars, attachmentVars, mainVars>>

NodesTranslated == Searched /\ resolved = Len(content.artifacts)

\* output_to_yaml: the section of the parameters, from the inputs translated.
WriteSection ==
    /\ Translating /\ NodesTranslated
    /\ FinishInputs \/ WriteParameter \/ FinishSection
    /\ UNCHANGED <<nodeVars, step, mainVars>>

-----------------------------------------------------------------------------
(* What becomes of a translation.                                          *)

Translated == NodesTranslated /\ stage = "idle"

\* Plausible bug: only the get_file of a resource itself is found.
CollectedOnTop == {r.file : r \in {r \in content.references : Len(r.via) <= 1}}

\* get_dict_value enters no list, and nothing of a dictionary that has a
\* get_file: that one is taken, its siblings are not.
Entered(r) == \A k \in DOMAIN r.via : r.via[k] \notin {"list", "filed"}

\* No file is in a list or beside another get_file.
AllEntered(references) == \A r \in references : Entered(r)

Collected == {r.file : r \in {r \in content.references : Entered(r)}}

\* deploy_on_heat raises: no endpoint, a file that cannot be read, Heat refuses.
DeploymentFails ==
    /\ step = "heat" /\ step' = "failed"
    /\ (search = "off" /\ stage = "idle") \/ Translated
    /\ UNCHANGED <<inputVars, attachmentVars, command, content, session, cwd, resolved,
                   stack, output>>

\* deploy_on_heat: the template with the files it refers to; the files of
\* nested templates are written to the working directory (translate).
CreateStack ==
    /\ step = "heat" /\ Translated
    /\ stack' = [attached |-> attached, parameters |-> Last(written), files |-> Collected]
    /\ EndSearch /\ step' = "file"
    /\ UNCHANGED <<inputVars, command, content, session, cwd, resolved, output>>

\* Plausible bug: what was deployed is not written as well.
WriteOutputUnlessDeployed ==
    /\ step = "file" /\ Translated /\ stack = None
    /\ output' = [attached |-> attached, parameters |-> Last(written), directory |-> cwd]
    /\ step' = "done"
    /\ UNCHANGED <<inputVars, attachmentVars, command, content, session, cwd, resolved, stack>>

\* _write_output: a relative path is taken from the working directory.
WriteOutput ==
    /\ step = "file" /\ Translated
    /\ output' = [attached |-> attached, parameters |-> Last(written), directory |-> cwd]
    /\ step' = "done"
    /\ UNCHANGED <<inputVars, attachmentVars, command, content, session, cwd, resolved, stack>>

CommandNext ==
    \/ ParseParameters \/ OpenSession \/ CheckDeploy \/ WithoutDeploy
    \/ ResolveInputFails \/ TranslateInputs \/ BeginNodes \/ SearchAttachments \/ ResolveArtifact
    \/ WriteSection \/ DeploymentFails \/ CreateStack \/ WriteOutput

\* The command runs until it returns or raises.
CommandSpec == CommandInit /\ [][CommandNext]_allVars /\ WF_allVars(CommandNext)

-----------------------------------------------------------------------------
(* Properties.                                                             *)

\* "Find the name of associated BlockStorage node"
\* (translate_node_templates.py:242): when the requirements of a server are
\* read, each one to a volume has led to one attachment of that volume.
VolumesAttached ==
    Searched => \A s \in DOMAIN servers : \A v \in Volumes :
        Cardinality({k \in DOMAIN attached : attached[k].server = s /\ attached[k].volume = v})
            = Cardinality({k \in DOMAIN servers[s] : servers[s][k].to = v})

\* "Translate TOSCA relationship AttachesTo for Compute and BlockStorage."
\* (tosca_block_storage_attachment.py:22): an attachment is made from the
\* relationship of a requirement of its server to its own volume.
OwnRelationship ==
    \A k \in DOMAIN attached :
        servers[attached[k].server][attached[k].from].to = attached[k].volume

\* The attachments of a translation have different names, although servers
\* use the same relationship (line 263: one suffix for all servers).
NamesDistinct ==
    \A j, k \in DOMAIN attached : j # k =>
        <<attached[j].name, attached[j].suffix>> # <<attached[k].name, attached[k].suffix>>

\* "get all the values for get_file from a translated template"
\* (shell.py:221): Heat is sent every file the template refers to.
FilesSent == stack # None => stack.files = {r.file : r \in content.references}

\* "The Heat-Translator can be used to automatically deploy translated TOSCA
\* template" (usage.rst:82): the file that is written is the template that was
\* deployed, and Heat was sent every file it refers to.
DeployedIsWritten ==
    stack # None /\ output # None =>
        /\ stack.attached = output.attached /\ stack.parameters = output.parameters
        /\ FilesSent

\* The output lands "where to store the output file" says (shell.py:89): a
\* relative path is taken from the directory the command was started in.
OutputAtHome == output # None => output.directory = "home"

\* A stack that Heat was sent is followed by its output, in that place: the
\* second translation does not fail on what the first one left
\* (shell.py:194-198).
StackThenOutput == stack # None ~> output # None /\ OutputAtHome

=============================================================================
