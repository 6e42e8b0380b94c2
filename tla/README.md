# TLA+ models of heat-translator

heat-translator turns a parsed TOSCA service template into a Heat Orchestration
Template (HOT). This directory holds TLA+ models of the parts of the translator
whose correctness depends on an order of steps, TLC configurations that check
them on small instances, and TLAPS proofs of what must hold for every template.

Paths below are relative to the repository root; `TNT` is
`src/translator/hot/translate_node_templates.py` and `HR` is
`src/translator/hot/syntax/hot_resource.py`.

## 1. Inventory

### Components

| Component | State | Operations | Correct when |
|---|---|---|---|
| Node translation (`TNT`, `HR`, the classes under `src/translator/hot/tosca`) | `hot_resources`, `hot_lookup`, `last_deploy_map`; per resource type, properties, `depends_on`, `depends_on_nodes`, `group_dependencies` | the passes of `_translate_nodetemplates` | every operation of the template is run by one deployment, on its host, in an order that respects the requirements; the template is acyclic and closed |
| Property pass (`TNT` 180-224, 369-377) | `processed_resources`, `processed_policy_res`, the list itself | `_recursive_handle_properties`, `handle_properties` | each resource handled once, after what it depends on, although policies rewrite the list |
| Policies (`tosca_policies_*.py`, `tosca_cluster_policies_scaling.py`) | their properties, the nested template | `handle_properties`, `handle_expansion` | scaled resources move to the nested template, once, and the main template refers to the group |
| Network (`tosca_network_*.py`, `tosca_nfv_vducp.py`, `tosca_nfv_vnfvirtuallink.py`) | `order`, the port list of a server | sorted insertion, dropping of dependencies | the ports of a server are in `order`, ties in the order of handling |
| Storage (`tosca_block_storage.py`, `tosca_object_storage.py`, `TNT` 237-267, 620-675) | properties, the requirements of the parsed template | unit conversion, the search for the relationship of an attachment | sizes are whole GiB and never too small; every volume is attached by its own relationship |
| Server matching (`tosca_compute.py`, `tosca_nfv_vdu_compute.py`) | none | `_best_flavor`, `_best_image` | the choice satisfies all that was asked and is minimal |
| Catalogs (`src/translator/common/flavors.py`, `images.py`) | `FLAVORS`, `IMAGES`, `SESSION` | `get_flavors`, `get_images` | complete answers only, and the fallback only when OpenStack has none |
| ETSI NFV policies (`src/translator/hot/tosca/etsi_nfv`) | aspects, deltas, nested templates | splitting of the list per aspect | every resource in one template, every aspect with its group |
| Function resolution (`TNT` 387-395, 426-618) | working directory, `hot_lookup` | `translate_param_value` | ends, and leaves the working directory alone |
| Inputs, outputs, parameters (`translate_inputs.py`, `translate_outputs.py`, `hot_parameter.py`, `hot_output.py`) | `tosca.inputs`, which a given `key_name` extends | conversion of defaults and constraints | a default that satisfies the TOSCA constraints satisfies the HOT ones |
| Template output (`hot_template.py`) | the lists of the template | merge of dictionaries, YAML | one entry per resource |
| Driver, shell, OpenStack client plugin (`tosca_translator.py`, `shell.py`, `osc/`) | the translator object, the parsed template, the session, the working directory | parse, translate, deploy, write | what is deployed is what is written, where it was asked for |
| Type map and configuration (`TNT` 45-110, 276-298, `conf/`) | `TOSCA_TO_HOT_TYPE` | load at import, `_get_supported_type`, the entries that derived policies write | the nearest class is taken, and one translation does not change the next |
| Utilities (`src/translator/common/utils.py`, `exception.py`) | none | units, `get_file`, archives, YAML comparison | conversions lose nothing; every file is found |

tosca-parser, Heat and the OpenStack clients are external.

### How they interact

Everything is calls in one thread. The shell parses the input with tosca-parser
and calls the driver, which translates inputs, nodes and outputs, in that order.
Node translation builds one list of mutable `HotResource` objects; each pass calls
a method of every resource, and the methods change the object, other objects they
reach through `depends_on_nodes` or `hot_lookup`, and the list. The resources share
lists and dictionaries, and refer to each other by identity while the final
template refers by name. The only concurrency is Heat's: it creates the resources
of the output in any order that `depends_on` and `get_resource` allow, so the
translator has to put every ordering the TOSCA template implies into these edges.

### What is hard

* The order in which the passes and the resources meet the same attributes: a
  server property is written by three passes, `depends_on` by four.
* Order of declaration: the result depends on the order of the node templates,
  of the requirements of a node and of the operations of an interface.
* All the schedules Heat may choose for the output.
* Removal and replacement of resources that others already refer to.
* Process-wide state: catalogs, the type map, the working directory; and the parsed
  template, which `--deploy` translates twice.
* Failures: an exception in any pass loses the whole translation.

`PROJECT.json` lists each hazard at its line with the properties that cover it.

## 2. Modules

| Module | Content |
|---|---|
| `NodeTranslation` | the translator's passes: state, one action per step, properties |
| `PropertyPass` | the property pass and the expansion between them; what the output refers to |
| `Orchestration` | abstract: what a service template asks of its deployment |
| `StackCreation` | `PropertyPass` composed with Heat creating the stack; refinement of `Orchestration` |
| `PolicyPass` | the policies that rewrite the list of resources under the property pass |
| `ScalingAspects` | the ETSI NFV policies: aspects, deltas, affinity |
| `FunctionResolution` | `translate_param_value`, for the resources and the outputs |
| `ServerMatching` | flavor and image of a server |
| `Catalog` | the listings of flavors and images, with failures |
| `TypeMap` | the classes per TOSCA type, over several translations |
| `Parameters` | inputs, constraints, defaults; one or two translations |
| `Attachments` | the search for the relationship of a volume; it changes the parsed template |
| `Deployment` | the command: composes `Parameters` and `Attachments` with the shell |
| `MC...` | families of templates, queries and commands for TLC |
| `Lists` | `Filter`, a selection from a sequence, for `ScalingAspects`, `PolicyPass` and `FunctionResolution` |
| `SequenceLemmas` | lemmas on the sequence operators the models use |
| `StackCreation_proofs`, `PolicyPass_proofs`, `FunctionResolution_proofs`, `ServerMatching_proofs`, `ScalingAspects_proofs`, `TypeMap_proofs`, `Deployment_proofs` | inductive invariants and theorems; `StackCreation_proofs` has those of `NodeTranslation` and `PropertyPass`, `ServerMatching_proofs` those of `Catalog`, `Deployment_proofs` those of `Parameters` as well |

### NodeTranslation

State and code:

| Variable | Code |
|---|---|
| `tpl` | `self.tosca`, what tosca-parser hands over |
| `phase`, `pos`, `req` | the loop that is running and its place in it |
| `visiting` | the node template of the running call of `_get_hosting_server` |
| `resources`, `expanded` | `self.hot_resources`; `lifecycle_resources`, `connectsto_resources` |
| `hot` | `type` and the `server` and `servers` properties of each resource |
| `dependsOn`, `dependsOnNodes` | `depends_on`, `depends_on_nodes` |
| `chain`, `lastDeploy` | `group_dependencies`, `last_deploy_map` |

Actions, in the order of the passes:

| Pass | Actions | Code |
|---|---|---|
| nodes | `CopyNode`, `AttachVolume`, `SkipVolume`, `NextNode`, `FinishNodes` | `TNT` 228-267, 620-675 |
| lifecycle | `FollowLifeCycleHosting`, `HandleLifeCycle`, `SkipAttachment`, `FinishLifeCycle` | `TNT` 300-312; `HR` 122-293, 425-459, 604-627 |
| connect | `FollowConnectHosting`, `HandleConnectsTo`, `SkipConnect`, `FinishConnect` | `TNT` 314-334, 708-772; `HR` 295-327 |
| depend | `CopyDependency`, `SkipRelated`, `FinishDepend` | `TNT` 336-363; `HR` 361-366 |
| hosting | `HandleHosting`, `RaiseNoHost`, `FinishHosting` | `TNT` 365-367; `HR` 332-359 |
| remove | `RemoveTypeless`, `FinishRemove` | `TNT` 397-411 |

`handle_life_cycle` of one resource is one action, except for the recursion of
`_get_hosting_server`, which is a step per nested call so that its termination is
a question TLC answers.

What is abstracted. A resource is a record (node, part, requirement): an identity that never
changes, as in the code, where the objects keep their identity while `name` changes. A
SoftwareConfig and the SoftwareDeployment that refers to it are one resource, because the
configuration has no dependency and no server and no pass changes it. Scripts, inputs and
metadata are left out. A ConnectsTo requirement has at most one interface; one whose
interfaces have neither `pre_configure` operation, for which `_create_connect_config` raises
(`TNT` 730-735), is left out. Nodes are of five kinds: Compute, software (a component whose
class gives it no HOT type), volume (BlockStorage), network and port. Networks and ports
have no operations, as in every sample. The requirement graph has no cycles: nodes are
numbered so that a requirement points to a smaller number, while the order in which the
template lists them, `listing`, is arbitrary.

Properties:

* `NoCircularDependency`: `depends_on` and `get_resource` never form a cycle, in
  any pass. It is stated with a rank that decreases along every edge and does not
  depend on the run.
* `NoDanglingReference`: in the output both kinds of edges end in the output.
* `NodesCoverDependencies`: `depends_on` is contained in `depends_on_nodes`. It is a
  part of the inductive invariant and proved, not a property of a run.
* `DeployedOnHost`: every deployment of a node is on the servers that its
  `HostedOn` relations lead to, one in `server` for a SoftwareDeployment, several in
  `servers` for a SoftwareDeploymentGroup, never both.
* `HostIsStable`: a deployment that was given servers is not moved by a later pass.
* `ConnectRunsOnEnd`: a connect deployment runs where the configured node runs. It
  fails for a configured Compute (section 3), which `Hostable` leaves out.
* `RolesBeforeFirstDeploy`: the roles are installed before the first operation, unless
  that is `create`. `RolesBeforeClassicDeploys`, which makes no exception, fails (section 3).
* `Terminates`: the loops and recursions end.

### PropertyPass

It extends `NodeTranslation`: `OtherPass` is any step of the latter, and the pass
`remove` waits until the two passes are over (`stage`).

| Variable | Code |
|---|---|
| `stage` | the property pass, the insertion of a port within it, the expansion |
| `processed` | `processed_resources` |
| `calls` | the running calls of `_recursive_handle_properties`, each with its place in `depends_on_nodes` |
| `handled` | the resources whose `handle_properties` has returned (history) |
| `portsOf`, `networks` | of a Compute: `assoc_port_resources` and the property `networks` |
| `linked` | of a port: the network that `get_resource` of its property `network` names |
| `hidden` | the networks with `hide_resource` |
| `lo`, `hi` | the locals of `_insert_sorted_resource` |

| Action | Code |
|---|---|
| `WalkResource`, `WalkDependency` | `TNT` 369-377, 180-187 |
| `HandleServer`, `HandleVolume`, `HandleOther`, `HandleNetwork` | `handle_properties` of `tosca_compute.py` 59-67, `tosca_block_storage.py` 38-63, `HR` 115-120 and `tosca_block_storage_attachment.py` 35-52, `tosca_network_network.py` 37-66 |
| `HandlePort`, `Bisect`, `InsertPort` | `tosca_network_port.py` 42-115 |
| `ExpandNetwork`, `RaiseHalfRange`, `SkipExpansion` | `tosca_network_network.py` 68-117 |
| `FinishProperties`, `FinishExpansion` | `TNT` 375-385 |

Of the properties of a resource the model has those that refer to other resources:
`server` and `servers`, `networks`, `network`, and those of attachments and subnets,
which are constant. A handler that assigns a new dictionary loses the first two
(`Overwrite`). Names, addresses and sizes are left out, and so are the functions
in `input_values` (`TNT` 387-395).

* `PortsSorted`: the ports of a server are in the order they ask for, at any time.
* `ServersKeepPorts`: the networks of a server name exactly its ports, each once.
* `DependenciesHandledFirst` (action property): a resource is handled only when all
  it depends on is.
* `OutputAcyclic`: all references of the output, those of the properties above
  included, are acyclic. `NoCircularDependency` is about `depends_on` and the
  server properties only, but holds at any time and for every template.
* `OutputClosed`: what a written resource refers to is written.

### Orchestration and StackCreation

`Orchestration` says what a template promises to its author, with no resources in
it: a server starts when the operations of the nodes it requires are complete; an
operation runs when the earlier operations of its node are, those of the nodes it
requires are, and its servers are up; and all that can happen does. `StackCreation`
runs the translator and then lets Heat create any resource whose `depends_on` and
references exist. The refinement maps `up` to the Compute resources created and
`ran` to the operations whose deployment is created, so `ImplementsOrchestration`
(`Orchestrated!Spec`, liveness included) says that on no schedule of Heat does an
operation run too early, and that all of them run. `StackCompletes` adds that the
whole list gets created.

### PolicyPass

Resources on a heap, and the list that is walked beside the list that replaces it.

| Variable | Code |
|---|---|
| `heap` | the `HotResource` objects, of nodes, of policies and made by policies |
| `lists`, `pos` | the list the `for` of `TNT` 375 goes over and, after a scaling policy, the new `self.hot_resources`; the place of the walk |
| `policyRes` | `processed_policy_res` |
| `nested` | the nested template, as `embed_hot_template` saw it |

| Action | Code |
|---|---|
| `HandleResource`, `HandlePlacement`, `HandleScaling`, `HandleCluster`, `Fail` | `TNT` 180-224, 375-377; `handle_properties` of `tosca_policies_*.py` and `tosca_cluster_policies_scaling.py`, and what makes them raise |
| `FinishProperties`, `Expand` | `TNT` 379-385; `handle_expansion` of the same classes |
| `ResolveFunctions` | `TNT` 387-395 |

A scaling policy is split in two inside the handler of the first, as `TNT` 195-224
does. `section` says whether a policy has a section of triggers (monitoring, cluster) or of a
reservation: a monitoring policy whose section is empty comes out as an alarm of its own
name, as does a reservation without the section, while a reservation section without an
action raises. An empty section of a cluster policy, and what alarms, receivers and
clusters copy from the template, are left out.

* `OutputClosed`: a reference is to a resource of the same template.
* `FunctionsResolved`: the functions of every deployment that is written are resolved. It
  fails for those of the nested template (section 3).
* `PoliciesKept`: a scaling policy comes out as its two directions, every trigger has one
  alarm and a policy without triggers one of its own name, every target of a placement is in
  the output with its server group.
* `MergesAlike`: resources that the output merges by name are of one policy.

### ScalingAspects

`resources` is `self.hot_resources`; `HandleAffinity`, `HandleAspect`, `Fail` and
`CreatePolicies` are the handlers in `src/translator/hot/tosca/etsi_nfv`, `Expand` the
expansion of what is left. An aspect fails without deltas, or with a target that is in
the list and is no server (`Scalable`). A virtual link that is not an IP network has no type
and is removed at the end. A name is a sequence of parts, which the names of
parameters have in lower case (`Lower`).

* `EachOnce`: every resource is in exactly one template, every VDU has its flavor.
* `TemplatesClosed`: what a template refers to is in it; a group passes just the
  parameters its nested template has. The main template (`MainClosed`) is closed if every
  aspect has moved a VDU (`EachScales`): otherwise the two scaling policies of the aspect
  refer to a group that is in no template (section 3).
* `LevelsReachSizes`: `max_scale_level` steps lead from the minimum to the maximum
  and back, although the three numbers come from three policies.
* `AffinityHolds`: the VDUs of a rule are in the template that has its server group, if no
  aspect scales them (`AffinityApart`; section 3).

### FunctionResolution

The values of `input_values` and of the outputs are translated one by one; `calls` holds
the running calls of `translate_param_value`, the innermost last. A frame keeps the value,
where `decipher_get_operation` leads and what the calls it made have returned. `BeginUse`
and `TranslatePart` are the calls, `ReturnValue`, `ReturnArtifact` and `ReturnOutput` the
returns: the last two also change the working directory (`cwd`) and the outputs of a
config (`outputs`, `_translate_get_operation_output_function`). `Raise` is an exception. A
value is a text, a list, a dictionary or a function.

The reference definition `Actual` follows the TOSCA meaning of the functions and knows
nothing of calls: `Asks` is what a value asks for, each with the node it is written in;
`Asked` is what a use asks for `d` steps away, `Meanings` what that means if it takes no
more than `d` steps. Both are recursive functions of a number. `Resolvable` says of a use
that no step on the way is one for which the code takes another way than TOSCA: a `SELF`
or `HOST` in the property of another node, which the code takes for the node that reads
it, or of several hosts; a requirement in full form; a name that is a capability and a
requirement; a property, an entry, an index or an artifact that is not there; elements of a
list that are false for Python, which the code drops.

* `ActualValues`: what replaces a function in a use that is `Resolvable` is `Actual`. It
  says nothing of the other uses, of which section 3 has the lines.
* `OutputsDeclared`: an operation output that is read is declared by its config.

### ServerMatching

`ChooseFlavor` and `ChooseImage` are `_best_flavor` and `_best_image`
(`tosca_compute.py` 88-226) with `MemoryUnit` (`utils.py` 33-92); a query holds the
catalogs and what the capabilities ask for.

* `MoreForMore`: who asks for at least as much never gets a smaller server.
* `ChoiceFits`: the flavor has the memory, and the attribute that is compared last
  decides among images of the right architecture.

### Catalog

| Variable | Code |
|---|---|
| `cache` | `FLAVORS` (`flavors.py` 26), `IMAGES` (`images.py` 26) |
| `call`, `unread`, `listed` | a running call, what is left of its listing, its listing |
| `broken`, `answer` | history: catalogs a listing of which broke off, the last answers |
| `client`, `session`, `served` | `client_available`, `SESSION`, what OpenStack lists |

`AnswerCached`, `FallBack`, `Connect`, `ReadEntry`, `EndListing` and the exceptions
`ConstructorRaises` and `Break` are the steps of `get_flavors` and `get_images`;
`SetSession` and `Serve` are the environment. The handler of the constructor's exception
calls `_`, which neither module imports (`flavors.py` 51, `images.py` 86): it falls back if
the program has made `_` a builtin and raises NameError otherwise, so `ConstructorRaises`
has both outcomes.

* `WholeUnlessBroken`: between calls, a catalog none of whose listings broke off is empty,
  a whole listing, or the predefined entries. `WholeAnswers`, which makes no exception for
  `broken`, fails (section 3).
* `AnswersStable`: an answer stays, whatever OpenStack does later.
* `CallsEnd`: every call returns or raises.

### TypeMap

`LoadClass`, `NextLocation`, `FinishLoading` are `_load_classes` and
`_generate_type_map` (`TNT` 45-110); `TranslateNode` and `TranslatePolicy` the lookups
of `TNT` 228-298, over up to `MaxTranslations` translations of one process.

* `CustomDecides`: the class of the configured directory wins.
* `NearestDecides`: an item gets a class for its nearest supported ancestor, even
  after earlier translations wrote to the map.
* `ParametersGiven`: a policy that scales is translated with the parameters of the
  template. It fails for the second policy of a derived type (section 3): the class is the
  same (`NearestDecides`), the arguments it gets are not.

### Parameters, Attachments, Deployment

`Parameters` has the steps of `translate_inputs.py` (`TranslateInput`, `Reject`) and of
the section of the output (`WriteParameter`), over two translations of one template
when the command deploys. The input types are the ten of `translate_inputs.py` 48-57; any
other is a KeyError. A value is a natural number; of an integer, of a size and of a port the
numbers are the even ones, so that a closed bound and an open one differ by a value in
between. A size is in MiB as the parser has it; its default becomes GiB, while the bounds
of its constraints, which the code compares with the GiB and hands to Heat, stay in the
parser's unit, as written. A version gets its minor part (`WithMinor`); an open bound of a
timestamp raises (`Unmovable`), and so does a size or a version without a value. A given
value is of the type of its input.
`Attachments` is the search of `TNT` 237-267 and 620-675 with its locals (`at`,
`suffix`, `nodeName`) and `servers`, the requirements of the parsed template, which
`_get_attachment_node` overwrites. `Deployment` composes the two with `main` and
`deploy_on_heat` (`shell.py` 137-243), `translate` and `_resolve_input`
(`tosca_translator.py` 33-109), `get_artifact` (`TNT` 468-490) and the search for
`get_file` (`utils.py` 349-365).

| Variable | Code |
|---|---|
| `given`, `inputs`, `params`, `section`, `written` | parsed parameters, `tosca.inputs`, the parameters of a translation, the section, one per translation |
| `attached` | the attachments in `hot_resources` |
| `session`, `cwd`, `stack`, `output`, `step` | the session, the working directory, what Heat was sent, what was written, where `main` is |

* `ParametersFaithful`: Heat admits for a parameter exactly what the constraints of
  the input admit (`ConstraintsAgree`), but for a size, whose bounds and parameter have
  different units, and for a timestamp, which is a string to Heat; a written default is
  admitted by the constraints that are written with it
  (`DefaultsAdmitted`), sizes are covered (`SizesCoverRequest`), what is given decides
  (`GivenDecides`), and both translations write the same (`TranslatedAlike`).
* `DeployedWithValues`: in a deployment every parameter is given or has a default, unless
  the default of the template is false, which is not written (section 3).
* `VolumesAttached`, `OwnRelationship`, `NamesDistinct`: each requirement to a volume
  has one attachment, made from its own relationship, under a name of its own.
* `DeployedIsWritten`: the file is the template that Heat was sent, with all its files
  (`FilesSent`). The search for files enters no list, and nothing of a dictionary with a
  `get_file`, siblings included (`Entered`, `utils.py` 361-362).
* `StackThenOutput`: a stack is followed by its output, in the directory the command
  was started in (`OutputAtHome`).

## 3. Model checking

`tlc -config <cfg> <module>` in this directory.

| Run | Module, cfg | Checks | Distinct states |
|---|---|---|---|
| `any_template` | `MCNodeTranslation`, `MCNodeTranslation.cfg` | `TypeOK`, `NoCircularDependency`, `NoDanglingReference`, `Terminates` | 205168 |
| `stack_creation` | `MCStackCreation`, `MCStackCreation.cfg` | `DeployedOnHost`, `ConnectRunsOnEnd`, `RolesBeforeFirstDeploy`, `HostIsStable`, `ImplementsOrchestration`, `StackCompletes` | 25346 |
| `networks` | `MCPropertyPass`, `MCPropertyPass.cfg` | `PortsSorted`, `ServersKeepPorts`, `OutputAcyclic`, `OutputClosed`, `DependenciesHandledFirst` | 32824 |
| `policies` | `MCPolicyPass`, `MCPolicyPass.cfg` | `OutputClosed`, `PoliciesKept`, `MergesAlike` | 71136 |
| `scaling_aspects` | `MCScalingAspects`, `MCScalingAspects.cfg` | `EachOnce`, `TemplatesClosed`, `LevelsReachSizes`, `AffinityHolds` | 7872 |
| `functions` | `MCFunctionResolution`, `MCFunctionResolution.cfg` | `ActualValues`, `OutputsDeclared` | 28536 |
| `server_matching` | `MCServerMatching`, `MCServerMatching.cfg` | `MoreForMore`, `ChoiceFits` | 19992 |
| `catalogs` | `MCCatalog`, `MCCatalog.cfg` | `WholeUnlessBroken`, `AnswersStable`, `CallsEnd` | 450944 |
| `type_map` | `MCTypeMap`, `MCTypeMap.cfg` | `CustomDecides`, `NearestDecides` | 28878 |
| `deployment` | `MCDeployment`, `MCDeployment.cfg` | `ParametersFaithful`, `DeployedWithValues`, `VolumesAttached`, `OwnRelationship`, `NamesDistinct`, `DeployedIsWritten`, `StackThenOutput` | 189510 |
| `busy_server` | `MCPropertyPass`, `MCBusyServer.cfg` | `OutputAcyclic`, violated | |
| `named_templates` | `MCDeployment`, `MCNamedTemplates.cfg` | `DeployedIsWritten`, violated | |

`PROJECT.json` lists these. Eleven further configurations check one property each on inputs
that the runs leave out, and TLC finds it violated:

| Configuration | Module | Property |
|---|---|---|
| `MCRolesBeforeCreate.cfg` | `MCNodeTranslation` | `RolesBeforeClassicDeploys` |
| `MCConfiguredCompute.cfg` | `MCNodeTranslation` | `ConnectRunsOnEnd` |
| `MCNestedFunctions.cfg` | `MCPolicyPass` | `FunctionsResolved` |
| `MCDerivedPolicies.cfg` | `MCTypeMap` | `ParametersGiven` |
| `MCEmptyAspect.cfg` | `MCScalingAspects` | `MainClosed` |
| `MCOtherLinks.cfg` | `MCScalingAspects` | `MainClosed` |
| `MCScaledAffinity.cfg` | `MCScalingAspects` | `AffinityHolds` |
| `MCBrokenListing.cfg` | `MCCatalog` | `WholeAnswers` |
| `MCShortForms.cfg` | `MCDeployment` | `VolumesAttached` |
| `MCListedFiles.cfg` | `MCDeployment` | `FilesSent` |
| `MCArchivedFile.cfg` | `MCDeployment` | `OutputAtHome` |

Deadlock checking is off but for `catalogs`: a translation ends in `done`, `written` or
`failed` and stops, and so does Heat once the stack is complete.

### Bounds

`NumNodes` is 3 in `any_template`, 5 in `networks` and 4 elsewhere,
`MaxRequirements` is 2. Three nodes are enough for a requirement of a requirement, a
search of the host that goes through a node, and two nodes that require a third; four
add a second server, so that being on the wrong one is possible, with a hosted
component on each. Two requirements are enough for their order to matter, for two
hosts and for two relations to one target. `any_template` has every combination of
kinds and relations, hostless components and roles included, so it also reaches the
exception of `handle_hosting`; the operations come from four assignments that have
them in and out of sequence, with and without roles, and the listing is reversed for
the templates with a volume. `stack_creation` has the shape of the repository's
samples: the host is the first requirement, the others are no Compute, and a Compute
with operations of its own requires only volumes; in some, a server has a port.
`networks` has four families of five nodes: three ports of one server with every
choice of three orders, equal ones included, so that the search goes both ways and
meets ties; two networks and two ports, of one server or none, on networks that
exist or not; a component on a server with a port, which requires the port, a
second server that is started after it, or the network; and a server with a volume
and two ports. Each is declared in four orders, among them ports before their server
and before their network.

Some theorems of section 4 hold for the inputs that meet a condition. The MC modules assume
that their own do, so TLC evaluates the conditions on every run: `StacksAssumption`
(`Hostable`) for `stack_creation`, `NetworksAssumption` (`ExistingLinked` and
`PortsFirst`) for `networks`, `ImagesAssumption` (`OneKey`) for `server_matching`,
`ResolvableAssumption` (`Resolvable`, for all that does not raise) for `functions`,
`RegularAssumption` (`NamesApart`, `PartsGiven`, `References`, `AffinityApart`) for
`scaling_aspects` and, with parts of its own (`NamesApart`, `ScaledOnce`, `RefsGiven`,
`ServersPlaced`, `ClusterFits`), for `policies`,
`PlainRunsAssumption` (`Related`, `NameFree`, `AllEntered`) for `deployment`.

* `policies`: one or two servers with ports, hidden or written networks and a component;
  every subset of the five kinds of policy in which at most one scales, with up to two
  triggers or actions, empty sections, and everything that ends the translation. Two
  resources and two triggers are enough for a policy to take the wrong one.
* `scaling_aspects`: two VDUs with one or two ports, IP links and a storage; one aspect of
  either VDU, both, none, or of a port besides, two aspects, affinity rules before them,
  deltas and initial deltas that are missing, zero or several.
* `functions`: four nodes with properties, capabilities and requirements in both
  forms; sequences of two uses, so that one meets the outputs the other has added.
  `MaxDepth` is 3: values are nested once, and a chain of functions has at most three.
* `server_matching`: three flavors in three orders, two of the same memory; sizes
  with every unit, 0 and functions; three images in every order with all metadata or
  only some. Numbers stay below 2^31, so units of a TB and more are left out.
* `catalogs`: two catalogs, three entries, one without the metadata images are matched
  with; listings in one piece or in pages, exceptions at every step. One call runs at
  a time, as in one thread, but the session and what is listed change between any two
  calls, and the listing of the other catalog within one.
* `type_map`: three directories, a class for one type in two of them, one faulty
  module or none, three translations with types derived once and twice.
* `deployment`: inputs of each of the ten types and of an unknown one; an integer with
  constraints of each kind alone and in pairs, patterns of a string, closed bounds of a float,
  a range and an open bound of a timestamp, bounds of a size, listed versions. Values are from
  0 to 8 (`Tried`), on both sides of every bound the constraints of numbers use; a `key_name`
  is given or declared; up to two servers with up to two volumes, in both forms of
  requirement; files below several levels, artifacts of both types; with and without
  `--deploy`, in a directory or an archive.

### Fairness

`WF_vars(Next)` in `NodeTranslation`, and likewise in `PropertyPass`, `StackCreation`
and `Deployment`: the translator is one thread that runs until it ends, and Heat goes
on creating resources while it can. `Orchestration` has the same kind of fairness, so
the refinement also shows that nothing is left out. In `Catalog` the session and the
listing may change for ever, so the fairness is that of the running call, of
`ReadEntry` and `EndListing`: OpenStack answers or raises. The other modules state no
liveness.

### Where the code does otherwise

`README.rst` 12-13 says the output "can be deployed by Heat". For these inputs it cannot:

* `busy_server`: a port removes its server from `depends_on` (`tosca_network_port.py`
  104) but not the last deployment of the server, and the server comes to refer to the
  port: server, port and deployment are a cycle. These templates do not meet `PortsFirst`,
  the condition under which `OutputIsAcyclic` is proved.
* `MCEmptyAspect.cfg`: `_create_scale_out_in_resources` writes two scaling policies for every
  aspect (`tosca_policies_nfv_scalingaspects.py` 110), which refer to its group; an aspect
  that has moved no VDU has no group.
* `MCOtherLinks.cfg`: a virtual link that is not an IP network gets no type
  (`tosca_nfv_vnfvirtuallink.py` 56) and is removed, while its ports still refer to it.
* `MCDerivedPolicies.cfg`: the first policy of a derived type enters that type in the map, so the
  second is translated without `hot_template_parameters` (`TNT` 283-296), and its nested
  template declares none (`HR` 494).

In the others the line quoted says more than the code does:

* `MCRolesBeforeCreate.cfg`: "add a dependency to this ansible roles deploy to the first
  "classic" deploy generated for this node" (`HR` 244-245); the index of `create` is 0,
  which is taken for none (`HR` 247). `RolesBeforeFirstDeploy` leaves this case out.
* `MCConfiguredCompute.cfg`: the deployment gets "the proper target server" (`HR` 300-301); a
  configured Compute has no host among its requirements, so it gets none (`HR` 302-303).
* `MCNestedFunctions.cfg`: all resources should have been created when functions are resolved
  (`TNT` 387-389); those of the nested template are written before, and off the list
  (`tosca_policies_scaling.py` 97).
* `MCBrokenListing.cfg`: "Handles any exception coming from openstack" (`flavors.py` 50); what
  was read of a listing that broke off is what the next call returns (`flavors.py` 54).
* `MCScaledAffinity.cfg`: "only supports tosca.nodes.nfv.Vdu.Compute as 'targets'"
  (`tosca_policies_nfv_common_affinityrule.py` 54); one that an aspect scales is in a
  nested template, its server group is not.
* `named_templates`: the tool deploys the "translated TOSCA template"
  (`doc/source/usage.rst` 82). `TNT` 663 replaces the name of a relationship template in the
  parsed template by its contents, so the second translation names the attachment after
  the type, and the file differs from the stack.
* `MCShortForms.cfg`: "Find the name of associated BlockStorage node" (`TNT` 242); for a
  requirement in short form the name is what an earlier requirement left in `node_name`
  (`TNT` 259), so the second volume of a server is not attached.
* `MCListedFiles.cfg`: "get all the values for get_file" (`shell.py` 221); a list is not searched
  (`utils.py` 364).
* `MCArchivedFile.cfg`: "Where to store the output file" (`shell.py` 89); an artifact of type File
  in a deployed archive leaves the working directory changed (`TNT` 480-485).

The passing runs have none of these cases, or their properties leave them out (a first
operation `create`, an aspect without a VDU, a listing that broke off). Further inputs for which a property would not
hold are out of all bounds, each with the line that decides:

* placement and order: a host that is not the first requirement to lead anywhere (`HR`
  444-446); ports of a server with operations; nodes other than ports that
  require an existing network (`hot_template.py` 93); a volume with operations
  (`tosca_block_storage.py` 63 drops its server);
* policies: two that scale in one template (`TNT` 203), a scaling policy before a
  placement (`TNT` 190), two triggers (`TNT` 197) or a hidden network under a scaling
  policy (`HR` 502), a cluster with a network of the same template
  (`tosca_cluster_policies_scaling.py` 138): `ScaledOnce`, `RefsGiven` and `ClusterFits`
  of section 4; names that meet those the translator makes, as an alarm named like a node
  or two ConnectsTo of one pair (`NamesApart`): the output merges them into one;
* ETSI NFV: a binding in the long form of a requirement (`tosca_nfv_vducp.py` 57);
* functions: an element of a list that holds a false one (`TNT` 525), SELF in a property
  of another node (`TNT` 444), a requirement in full form (`TNT` 602): not `Resolvable`;
* servers: a size with a decimal fraction, whose unit is lost (`utils.py` 59); a size no
  flavor has (`tosca_compute.py` 141); an image with both keys of an attribute, which is
  dropped if neither matches (`tosca_compute.py` 209-215);
* inputs: a default that is false is not written (`hot_parameter.py` 45;
  `DeployedWithValues` excludes it); open bounds of floats become closed ones moved
  by one (`translate_inputs.py` 148); the bounds of a size are in the parser's unit and its
  parameter in GiB (123-128), and a timestamp is a string for which Heat has no range, so
  `ConstraintsAgree` speaks of the other types. That Heat refuses a constraint that
  does not fit the type of a parameter is not modelled;
* attachments: a volume required without a relationship after one that has one (`TNT` 628):
  not `Related`;
* command: nested templates, which Heat is not sent (`shell.py` 221);
* type map: a module without a class or a `toscatype` ends the import with the name of
  another (`TNT` 65-68, 104-110).

## 4. Proofs

`tlapm <module>.tla` for `SequenceLemmas` and the seven modules `..._proofs`. Every theorem
holds for all values of the constants that satisfy the assumptions of the modules,
which TLC evaluates in the runs: `BoundsAssumption`, `TemplatesAssumption` and
`SentinelAssumption` (templates are `WellFormed`) in `NodeTranslation`;
`CatalogAssumption`; `NodesAssumption` and `UsesAssumption` in `FunctionResolution` (values
are texts, lists, dictionaries and functions, nested no deeper than `MaxDepth`; requirements
lead to nodes); `TypesAssumption`, `ModulesAssumption` and `TemplatesAssumption` in
`TypeMap` (ancestors are a chain of types); `InputsAssumption`, `CommandsAssumption`,
`NoneAssumption` and `TriedAssumption` in `Parameters`; `TopologiesAssumption` in
`Attachments`; `QueriesAssumption` in `ServerMatching` (a catalog is a sequence of
records of numbers); `WordAssumption` and `VnfsAssumption` in `ScalingAspects` (the
parts of names, and the types of resources, policies and deltas); `WordAssumption` and
`TopologiesAssumption` in `PolicyPass` (the parts of names; the resources as they are
before `handle_properties`, only networks hidden, a policy named for itself).

| Module | Theorem | Statement |
|---|---|---|
| `StackCreation_proofs` | `TypeCorrect` | `Spec => []TypeOK` |
| | `DependenciesAcyclic` | `Spec => []NoCircularDependency` |
| | `NodesCover` | `Spec => []NodesCoverDependencies` |
| | `ReferencesResolve` | `Spec => []NoDanglingReference` |
| | `RolesComeFirst` | `Spec => []RolesBeforeFirstDeploy`, of which a first operation `create` is excluded |
| | `PassTypeCorrect` | `PassSpec => []PassTypeOK` |
| | `PassDependenciesAcyclic`, `PassReferencesResolve`, `PassRolesComeFirst` | the same three of `PassSpec` |
| | `PortsStaySorted` | `PassSpec => []PortsSorted` |
| | `PortsAreKept` | `PassSpec => []ServersKeepPorts` |
| | `DependenciesFirst` | `PassSpec => DependenciesHandledFirst` |
| | `OutputIsClosed` | `PassSpec => []OutputClosed`, if `ExistingLinked` |
| | `OutputIsAcyclic` | `PassSpec => []OutputAcyclic`, if `PortsFirst` |
| | `DeploymentsRunOnHosts` | `StackSpec => []DeployedOnHost`, if `Hostable` |
| | `ConnectsRunOnEnds` | `StackSpec => []ConnectRunsOnEnd`, if `Hostable`, so no ConnectsTo configures a Compute |
| | `HostsAreStable` | `StackSpec => HostIsStable`, if `Hostable` |
| | `StackIsOrchestrated` | `StackSpec` implies the initial condition and the steps of `Orchestrated!Spec`, if `Hostable` |
| `PolicyPass_proofs` | `PolicyTypeCorrect` | `Spec => []TypeOK` |
| | `ListHasNoneTwice` | `Spec => []HotOnce`, if `Regular` |
| | `PolicyOutputIsClosed` | `Spec => []OutputClosed`, if `Regular` |
| | `PoliciesAreKept` | `Spec => []PoliciesKept`, if `Regular` |
| | `MergesAreAlike` | `Spec => []MergesAlike`, if `Regular` |
| `FunctionResolution_proofs` | `ValuesAreActual` | `Spec => []ActualValues` |
| | `EveryOutputIsDeclared` | `Spec => []OutputsDeclared`, and of values of any depth |
| `ServerMatching_proofs` | `MoreGetMore` | `Spec => []MoreForMore` |
| | `ChoicesFit` | `Spec => []ChoiceFits`, if `OneKey` |
| | `CatalogTypeCorrect`, `CatalogsWhole`, `CatalogAnswersStable` | of `Catalog`: `CatalogTypeOK`, `WholeUnlessBroken`, `AnswersStable` |
| `ScalingAspects_proofs` | `LevelsAreReached` | `Spec => []LevelsReachSizes`, if `NamesApart` |
| | `ResourcesAreOnce` | `Spec => []EachOnce`, if `NamesApart` and `PartsGiven` |
| | `TemplatesAreClosed` | `Spec => []TemplatesClosed`, if `NamesApart`, `References` and `AffinityApart`; of the main template only if each aspect has moved a VDU |
| | `RulesAreApplied` | `Spec => []AffinityHolds`, if the same |
| `TypeMap_proofs` | `TypeMapTypeCorrect`, `CustomClassesDecide`, `NearestClassDecides` | `TypeOK`, `CustomDecides`, `NearestDecides` |
| `Deployment_proofs` | `ParametersTranslatedAlike`, `SizesAreCovered`, `GivenIsDecisive`, `DeployedHaveValues` | of `Parameters`: `TranslatedAlike`, `SizesCoverRequest`, `GivenDecides`, `DeployedWithValues` |
| | `ConstraintsTranslated`, `DefaultsAreAdmitted` | of `Parameters`: `ConstraintsAgree` and `DefaultsAdmitted`, if `FloatsClosed` |
| | `CommandImplementsParameters` | `CommandSpec => Spec`, the specification of `Parameters` |
| | `CommandTranslatesAlike`, `CommandHasValues`, `CommandParameters` | the properties of `Parameters` hold of the whole command; `ParametersFaithful` if `FloatsClosed` |
| | `AttachmentNamesDistinct` | `CommandSpec => []NamesDistinct` |
| | `AttachmentsOwnTheirRelationship` | `CommandSpec => []OwnRelationship`, if `Related` |
| | `VolumesAreAttached` | `CommandSpec => []VolumesAttached`, if `InFull` |
| | `DeployedIsTheFile` | `CommandSpec => []DeployedIsWritten`, if `NameFree` and `AllEntered` |

The conditions are on templates, topologies, runs, queries and network functions, and say
for which of them the code keeps the promise; section 3 names the lines that break it for
others.

| Condition | Says |
|---|---|
| `Hostable` | the first requirement of a component that is not passed over leads to its host, on servers or on a component that is hosted; what has operations is hosted or is a Compute that no relation configures |
| `ExistingLinked` | a network that exists is required by the ports linked to it and by nothing else |
| `PortsFirst` | a server with ports has no operations, and what its ports require besides is declared below it; the templates of `busy_server` are those that do not meet it |
| `OneKey` | an image has the older or the newer key of an attribute, not both |
| `Regular`, of `PolicyPass` | the following five: |
| `NamesApart` | no two resources may get the same name, and none has a name that ends like one the translator makes |
| `ScaledOnce` | one policy scales, after the placements |
| `RefsGiven` | nodes refer to nodes of the template, not to hidden networks |
| `ServersPlaced` | what is placed together are servers |
| `ClusterFits` | a cluster is of servers and after every other policy; the ports and networks that it takes away are referred to by nothing but its servers, each by its own ports |
| `NamesApart`, of `ScalingAspects` | the resources and aspects of a network function have names of their own, which do not differ in case only and do not end like one the translator makes; one policy has aspects |
| `PartsGiven` | the ports and storages of a VDU exist |
| `References` | they belong to one VDU, the ports by their binding; a VDU refers to them, a port to an existing network, which is an IP network |
| `AffinityApart` | the VDUs of an affinity rule are in no delta; rules have names of their own and a server group |
| `FloatsClosed` | no float input has an open bound |
| `Related`, `InFull` | a requirement in full form to a volume has a relationship; all of them are in full form |
| `NameFree`, `AllEntered` | no relationship template is named, as in `named_templates`; no file is in a list or beside another `get_file` |

The runs of `deployment` do not all meet `InFull`; `VolumesAttached` speaks of the others
too, as far as TLC reaches.

**NodeTranslation.** The first three follow from one inductive invariant, `IInv`,
because none is inductive alone:

* `TypeOK` needs `SearchDescends` (a nested search visits a node below the one it
  started from, so a valid one) and that the template is well-formed.
* `NoCircularDependency` speaks of `WaitsFor`. `DependenciesBelow` is its `depends_on` half,
  stated for `depends_on_nodes`, which covers it: the edges that `CopyDependency` adds lead
  to `TopOfChain` and to `lastDeploy` of a smaller node, which is below only because
  `LinksStayInNode` keeps these two maps inside a node; the edges inside a node follow the
  sequence of operations (`OpDeployRank`). `ServersBelow` is its `get_resource` half: a
  server property names Compute nodes of a smaller number or, for a deployment of a Compute,
  the Compute itself; this needs `SearchDescends` again.
* `NodesCoverDependencies` survives `RemoveTypeless`, which shortens `depends_on`
  only, because for connect deployments the two lists are one (`ConnectAliased`).

`OrderInv` adds what is in the list. Every resource that has a type is in it or joins it
at the end of the pass (`TypedListed`), and so is what a resource depends on
(`DependenciesListed`). `RemoveTypeless` takes a resource without a type out of the list and
out of every `depends_on`, where it is only once (`TypelessOnce`), so that
`NoDanglingReference` holds when none is left (`Collected`). `LifeCycleOrder` says what
`handle_life_cycle` leaves of one node, the chain from the roles to the last operation, which
no later pass undoes: `RolesBeforeFirstDeploy`.

**PropertyPass.** The next follow from `PInv`, which has `IInv` as a part, because the two
passes keep it (`PassKeepsIInv`): a handler takes servers and dependencies away and
adds none. The rest of `PInv` is about the walk and the insertion:

* `CallsDescend`, `CallsWalked` and `ProcessedRunning` give `DependenciesFirst`. When
  a resource is handled, each of its dependencies is in `processed`
  (`CallsWalked`), so it was handled or one of the running calls is about to
  (`ProcessedRunning`); the latter is impossible, because the running calls are
  for resources of a rank no smaller (`CallsDescend`) and dependencies have a
  smaller one (`DependenciesBelow`). This is where a cycle would do harm: the walk
  would pass over a resource it has not handled yet.
* `InsertionInv` is the invariant of the binary search: ports up to `lo` come no
  later than the new one, ports beyond `hi` come later. With `PortsSorted` it is
  inductive (`BisectStep`, `InsertPortStep`).
* `CallsRunning` says that no call runs outside the pass, so that the other passes
  cannot disturb it.

On top of `PInv` and `PassOrderInv` (`OrderInv` for this specification) come

* `EndsFirst` and `PortInv` for `ServersKeepPorts`: a port has the server it binds to in
  `depends_on_nodes`, so the server, whose handler empties its ports, is handled
  first, and each port is handled once; then the ports of a server are exactly the ones
  handled so far (`PortsKept`).
* `LinkInv` and `OutputInv` for `OutputClosed`. `LinkInv` traces every entry of
  `depends_on` to the requirement that put it there (`DependenciesGiven`), so that a
  port, which removes one entry for its server and one for its network, has no second
  one left (`EndsOnce`). A network is known to be hidden or not before its ports are
  handled, so a port links to a network only if that is written (`LinkedWritten`).
* `OutRank` for `OutputAcyclic`, an order of the output: a port comes just before its
  server, everything else where `Rank` has it. Since `CreatedIn` is defined by
  rounds, `CreatedInRounds` unfolds it, and as many rounds as there are resources suffice:
  as long as some are left, the round creates one of least `OutRank`
  (a cardinality argument).

**StackCreation.** `HostInv` says where every deployment runs, in every pass. For the
templates of `Hostable` the search of `_get_hosting_server` takes the first requirement
that is not passed over, whatever its relation, and this is the host; so what
`HandleLifeCycle` and `HandleHosting` find is `HostsIn` (unfolded by `HostsUnfold`), no
later pass finds another, and `HostIsStable` follows with `DeployedOnHost`. The
refinement adds `CreatedInv`: Heat has created, with a resource, all it waits for. When a
deployment is created, the deployments of the same node that come before it, the last
ones of the nodes it requires and its servers are created, because they are below it
in `depends_on` (`OrderInv`) or are its servers (`HostInv`). So creating it is the step of
`Orchestration` that runs the operation, and any other step leaves the mapped
variables alone.

**PolicyPass.** `TypeOK` says that the lists point into the heap. The properties
speak of the written template only, so they say nothing of the steps that lead
to it; `Inv(t)` is for these steps, `t` being the topology that was given:

* In the walk, `Given` says what the heap has of each resource of `t`, as a function of
  whether it was handled: which name and references it has and what a policy may
  have added to them. `Walking` adds what is in the list, which has one of three forms:
  as it was given (`Plain`); without the nodes, which the nested template has
  (`Scaled`); with a profile for each server of the cluster and without ports and networks
  (`Clustered`). A step keeps the form or, for the policy that scales, goes from the first
  to another. This is where the two ways of replacing a list matter: a scaling
  policy leaves the walk on the old list, so that the policies after it are
  still handled (`Walked = Identity(t)`), while a cluster policy changes the list that is
  walked, so that the walk may go on at another place, but only among what is left.
* When the walk ends, every policy was handled and is still in the list if alarms are
  made for it (`WalkEnds`, `Listed`). `ExpandOf` says what the expansion adds: alarms,
  receivers and subnets, which are shown beside what was. Both give `Expansive`, of what
  is shown: the name of a resource tells what it was made for, so that a name that is
  shared is of one policy (`Formed`), or none is shared (`NodesOnce`); what they refer to is shown
  (`RefsShown`) or in the nested template (`NestedClosed`); the policies have their
  two directions, alarms and groups (`Paired`, `Alarmed`, `Grouped`).
* `ResolveFunctions` changes no field these speak of (`ExpansiveKept`), and they give
  the properties (`ShownProperties`). That the list has no resource twice (`HotOnce`) is
  needed for a network to be expanded once, and for the output, which keeps the last
  resource of each name, to have one of every name.

**ServerMatching.** Of the flavors that fit, fewer fit who asks for more, and the least of
fewer has no less memory (`FewerFit`, `LeastProperty`). For the images, `Matched` says
what a comparison leaves and that the first image of the list has what was asked for
if one has; with `OneKey` only the architecture drops images, so the last comparison
has all of them to choose from. The loops over images and keys are recursive functions; that
they exist, so that their equations can be used, is `LoopExists`.

**ScalingAspects.** `Forms` says where each resource of the list came from: its kind and
the last part of its name tell whether the network function brought it, or it is a flavor,
the group of an aspect with the sizes of that aspect, a scaling policy or a part of a network
(`KindsTell`). `AspectsBehind` says that exactly the aspects the walk has passed
are known. This gives `LevelsReachSizes`: group and policies of an aspect are found by
name and kind, and have its adjustment. `Places` says that what the function brought
is in the main template or in one nested one; it is inductive because an aspect moves
only what is still in the main template, and what it adds has other names
(`NamesStay`). For `TemplatesClosed` and `AffinityHolds`, `Closure` adds what refers to
what. With a VDU go all its parts (`PartsStay`), while networks and VDUs of a rule stay
(`NetsStay`, `RulesHold`). So what the moved resources refer to is moved as well, or
is a flavor or a network that `Scaled` makes a parameter (`NestedRefs`), and the group
passes just these (`NestedParameters`). In the main template groups refer
to networks and to flavors left behind (`GroupRefs`), and an aspect that has moved a VDU
has a group for its policies (`GroupsThere`).

**FunctionResolution.** `OutputsDeclared` follows from `DInv`: not only what was returned to
a use, but all that any running call has been returned declares what it reads, at every depth
(`Declares`, over the levels of a value, which `LevelUnfold` unfolds); outputs are only added,
so what was declared stays so (`DeclaresGrow`). `ActualValues` needs to know what a running call
is for, which no variable says. `RInv` says that there are nodes, one per call (`Chain`),
such that the value of the i-th call, written in the i-th node, is one that the use asks for i - 1
steps away (`Met`), each call is for the next of what its caller asks for (`Following`), and
what its calls have returned is what that means. A call that returns, returns what its value
means (`TranslatedMeaning`, `ArtifactMeaning`, `OutputMeaning`), because the lookup finds what
is meant (`MeantNode`, `DecipheredLeads`) and the list keeps all its elements
(`FilterAll`). A call changes nothing but its own last frame, so no induction over
the values themselves is needed, and what is asked for ends after `MaxDepth` steps. That
`Asked` and `Meanings` are the functions their equations say is proved with `Reaches`.

**Catalog.** `CInv` adds to `CatalogTypeOK` that the cache of the running call holds just what was
read of its listing (`FillsWhatItReads`), that a catalog at rest is whole
(`WholeBetweenCalls`), and that what was answered is still cached (`AnswersKept`): the
property speaks of the moments between calls only, and the steps of a call need to
know what is already read.

**TypeMap.** `MInv`: classes are read in the order of the directories
(`ClassesInOrder`), so the last class of a type comes from the last directory that has
one (`WinnerLast`); every entry of the map is for the nearest type with a class
(`MapNearest`). That an entry written by an earlier translation does no harm is
`RegisteredKeeps` with `NearestUp`: it is written for a type whose nearest ancestor is the
base policy, so those derived from it have the same class before and after.

**Parameters.** `PInv`: the inputs are those of the template, with the `key_name` that was
given appended (`InputsFine`, `KeyAppended`); the parameters made so far are those of the
inputs passed (`ParamsFollow`), the section those of the parameters (`SectionFollows`),
and what was written is a function of the inputs (`WrittenAlike`). That the second translation
appends the key a second time changes no entry (`KeyAdded`).

**Deployment.** Every step of the command is a step of `Parameters` or leaves its variables
alone, so its theorems carry over by refinement. For the attachments, `AInv` says that
they are made in the order of the search (`Placed`) and numbered with it (`Numbered`),
which gives distinct names; `OInv` adds that requirements to volumes keep a relationship
although the search overwrites them (`Related`), and that what was attached is its own
(`Owned`). `VInv` counts: each requirement the search has passed has one
attachment. For `DeployedIsWritten`, `DInv` says that the search of either translation
is at a point reached from its beginning (`Reached`), where each point has one successor
because without named relationships the search changes no requirement; so both
end with the same attachments, which the stack and the file have (`IsOfSearch`).

There is a lemma per action or group of actions; in `StackCreation_proofs`,
`KeepLinks`, `KeepServers` and `IdleStep` do what is common. `SequenceLemmas` proves what
`RemoveFirst`, `Append`, `InsertAt`, `Front` and `\o` do to the elements of a sequence, the
first through the least element of a non-empty set of naturals, and `Reaches`, an induction
up to a bound over a set, for the loops; with it, what `Filter` and `FlattenSeq` return,
and where the positions of a subsequence lie, so that it has no element twice.
The models select with `Filter` because `SelectSeq` takes its test as an operator,
which the provers cannot instantiate.

### Only model-checked

Liveness, which is out of the prover's reach: `Terminates`, `StackCompletes`,
`CallsEnd`, `StackThenOutput`, the fairness of `ImplementsOrchestration`. That the prover cannot
reason about RECURSIVE operators is why the modules have recursive functions instead.

## 5. Plan

Composition: `PolicyPass` with the recursive walk of `PropertyPass`, which it
replaces by a walk without dependencies; `Catalog` with `ServerMatching`, so that
the choice of a server is from what a failed listing left.

## 6. Not modelled

* tosca-parser, Heat beyond the order of creation (it also creates a port after the
  subnets of its network by itself, which adds no cycle) and the OpenStack clients are
  external.
* The OpenStack client plugin: a second front end of the same translation. That it
  translates repeatedly in one process is what `Catalog` and `TypeMap` assume.
* Floating addresses and object storage, whose handlers copy properties; the NFV
  policies of instantiation levels and placement groups, which only keep properties or
  drop their type.
* The function `token` and the text of `str_replace`, which are about strings; of the
  constraint `pattern` the model has only the set of the strings it matches.
* Archives, the access to Keystone, the parsing of arguments and of the configuration
  file, the YAML layout and logging: I/O and wording. `CompareUtils` serves the tests.
