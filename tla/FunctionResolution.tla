------------------------- MODULE FunctionResolution -------------------------
(***************************************************************************)
(* TOSCA functions become HOT functions: translate_param_value and its     *)
(* helpers in translate_node_templates.py, for the input_values of the     *)
(* deployments (lines 387-395) and then for the outputs of the template    *)
(* (translate_outputs.py).                                                 *)
(*                                                                         *)
(* A value is a record: [text |-> t], [list |-> s], [dict |-> f], a TOSCA  *)
(* function [fun |-> f, args |-> s, parsed |-> whether the parser has made *)
(* it an object] with texts for arguments, or [fun |-> "concat", parts |-> *)
(* s], a HOT function [hot |-> f, args |-> s], or Nothing.  The text "0"   *)
(* stands for the number 0.                                                *)
(***************************************************************************)
EXTENDS Integers, SequencesExt, FiniteSetsExt, TLC, Lists

CONSTANTS
    Node,      \* node templates: properties, capabilities, requirements,
               \* artifacts, operations, kind
    Uses,      \* sequences of records: owner (None for an output), value
    InArchive, \* csar_dir is set
    MaxDepth,  \* how deep values are nested, and functions lead to each other
    None       \* no node, no capability

Nothing == [nothing |-> TRUE]
Text(t) == [text |-> t]
Hot(f, args) == [hot |-> f, args |-> args]

Has(v, field) == field \in DOMAIN v
IsFun(v, f) == Has(v, "fun") /\ v.fun = f

\* str_to_num.
Number(t) == CASE t = "0" -> 0 [] t = "1" -> 1 [] t = "2" -> 2 [] OTHER -> None

\* What Python takes for false.
Falsy == {Nothing, Text(""), Text("0"), [list |-> << >>], [dict |-> << >>]}

-----------------------------------------------------------------------------
(* Values within values.                                                   *)

Children(v) ==
    (UNION {Range(v[field]) : field \in DOMAIN v \cap {"list", "dict", "parts"}})
        \cup (IF Has(v, "hot") THEN Range(v.args) ELSE {})

\* The values d levels below v.
Level(v) ==
    LET level[d \in Nat] ==
            IF d = 0 THEN {v} ELSE UNION {Children(w) : w \in level[d - 1]}
    IN  level

Within(v) == UNION {Level(v)[d] : d \in 0..MaxDepth}

IsList(s) == s \in Seq(Range(s))

\* What the template may hold.
Form(v) ==
    \/ DOMAIN v = {"text"}
    \/ DOMAIN v = {"list"} /\ IsList(v.list)
    \/ DOMAIN v = {"dict"}
    \/ DOMAIN v = {"fun", "args", "parsed"} /\ v.fun # "concat"
    \/ DOMAIN v = {"fun", "parts", "parsed"} /\ v.fun = "concat" /\ IsList(v.parts)

OfTemplate(v) ==
    /\ \A w \in Within(v) : Form(w)
    /\ Level(v)[MaxDepth + 1] = {}

ASSUME NodesAssumption ==
    /\ MaxDepth \in Nat /\ None \notin DOMAIN Node
    /\ \A n \in DOMAIN Node :
            /\ IsList(Node[n].requirements)
            /\ \A r \in Range(Node[n].requirements) : r.to \in DOMAIN Node
            /\ \A values \in {Node[n].properties} \cup Range(Node[n].capabilities) :
                    \A v \in Range(values) : OfTemplate(v)

ASSUME UsesAssumption ==
    \A u \in Uses :
        /\ IsList(u)
        /\ \A use \in Range(u) : use.owner \in DOMAIN Node \cup {None} /\ OfTemplate(use.value)

-----------------------------------------------------------------------------

VARIABLES
    uses,
    pos,
    calls,    \* the running calls of translate_param_value, the innermost last
    results,  \* per use: what translate_param_value has returned
    outputs,  \* per operation: the outputs of its config
    cwd,
    stage

vars == <<uses, pos, calls, results, outputs, cwd, stage>>

Operations == {<<n, o>> : n \in DOMAIN Node, o \in UNION {Node[m].operations : m \in DOMAIN Node}}

Init ==
    /\ uses \in Uses
    /\ pos = 1 /\ calls = << >> /\ results = << >> /\ outputs = [o \in Operations |-> << >>]
    /\ cwd = "home" /\ stage = "resolving"

-----------------------------------------------------------------------------
(* The node or the capability a function is about.                         *)

\* The first requirement of this name and what it leads to: a node only in
\* the short form, in the full form it is a dictionary.
Required(n, name) ==
    LET named == {k \in DOMAIN Node[n].requirements : Node[n].requirements[k].name = name}
    IN  IF named = {} THEN None ELSE Node[n].requirements[Min(named)]

\* The loop over the requirements goes on: the last one named host decides.
HostOf(n) ==
    LET named == {k \in DOMAIN Node[n].requirements : Node[n].requirements[k].name = "host"}
        host == Node[n].requirements[Max(named)]
    IN  IF named = {} \/ host.form = "full" THEN None ELSE host.to

FindNode(name, self) ==
    CASE name = "SELF" /\ self # None -> self
      [] name = "HOST" /\ self # None -> HostOf(self)
      [] OTHER -> IF name \in DOMAIN Node THEN name ELSE None

Target(n, capability) == [node |-> n, capability |-> capability]

\* decipher_get_operation: with three arguments the second may be the name of
\* a capability or of a requirement.  fails: the attribute of no node is read.
Decipher(args, self) ==
    LET n == FindNode(args[1], self)
        required == IF n = None \/ Len(args) = 2 THEN None ELSE Required(n, args[2])
        Through(m, c) == [target |-> Target(m, c), name |-> args[3],
                          arg |-> IF Len(args) >= 4 THEN args[4] ELSE None, fails |-> FALSE]
        Direct == [target |-> Target(n, None), name |-> args[2],
                   arg |-> IF Len(args) >= 3 THEN args[3] ELSE None, fails |-> FALSE]
    IN  IF n = None \/ Len(args) = 2 THEN Direct
        ELSE IF args[2] \in DOMAIN Node[n].capabilities THEN Through(n, args[2])
        ELSE IF required = None THEN Direct
        ELSE IF required.form = "full" THEN [Direct EXCEPT !.fails = TRUE]
        ELSE IF args[2] \in DOMAIN Node[required.to].capabilities
             THEN Through(required.to, args[2])
        ELSE Through(required.to, None)

PropertyOf(target, name) ==
    LET properties == IF target.node = None THEN << >>
                      ELSE IF target.capability = None THEN Node[target.node].properties
                      ELSE Node[target.node].capabilities[target.capability]
    IN  IF name \in DOMAIN properties THEN properties[name] ELSE Nothing

\* get_hot_attribute of a Compute and of a BlockStorage; any other raises.
HotAttribute(n, name) ==
    CASE Node[n].kind = "server" /\ name \in {"private_address", "public_address"} ->
            Hot("get_attr", <<Text(n), Text("networks"), Text("private"), Text("0")>>)
      [] Node[n].kind = "volume" /\ name = "volume_id" -> Hot("get_resource", <<Text(n)>>)
      [] OTHER -> [dict |-> << >>]

HasAttributes(n) == Node[n].kind \in {"server", "volume"}

-----------------------------------------------------------------------------
(* translate_param_value, a step for each call and each return.            *)

\* The resource of the outermost call, which all calls are passed.
Self == uses[pos].owner

\* A call: the value, where decipher_get_operation leads, and what the calls
\* it made have returned.
Call(v) ==
    [value |-> v,
     at    |-> IF \E f \in {"get_property", "get_attribute", "get_artifact"} : IsFun(v, f)
               THEN Decipher(v.args, Self) ELSE None,
     done  |-> << >>]

Top == Last(calls)
Value == Top.value
Given == PropertyOf(Top.at.target, Top.at.name)   \* prop_value

\* What the call has others translate, one by one, before it returns.
Parts ==
    CASE IsFun(Value, "get_property") -> IF Given = Nothing THEN << >> ELSE <<Given>>
      [] IsFun(Value, "concat")       -> Value.parts
      [] Has(Value, "list")           -> Value.list
      [] OTHER                        -> << >>

\* Plausible bug: an element of a list is not taken, only an entry.
UnfoldEntries(v, arg) ==
    IF arg # None /\ Has(v, "dict") /\ arg \in DOMAIN v.dict THEN v.dict[arg] ELSE v

\* _unfold_value: an entry of a dictionary or an element of a list.
Unfold(v, arg) ==
    IF arg = None THEN v
    ELSE IF Has(v, "dict") /\ arg \in DOMAIN v.dict THEN v.dict[arg]
    ELSE IF Has(v, "list") /\ Number(arg) # None THEN v.list[Number(arg) + 1]
    ELSE v

OutOfRange(v, arg) ==
    arg # None /\ Has(v, "list") /\ Number(arg) # None /\ Number(arg) >= Len(v.list)

AttributeOfNode == Top.at.target.node # None /\ Top.at.target.capability = None

NoArtifact ==
    \/ Top.at.target.node = None
    \/ Top.at.name \notin DOMAIN Node[Top.at.target.node].artifacts

\* A requirement in full form leads to no node; an element that the list does
\* not have; a class without attributes; without the artifact the variable cwd
\* has no value.
Fails ==
    \/ Top.at # None /\ Top.at.fails
    \/ IsFun(Value, "get_property") /\ Top.done # << >> /\ OutOfRange(Top.done[1], Top.at.arg)
    \/ IsFun(Value, "get_attribute") /\ AttributeOfNode /\ ~ HasAttributes(Top.at.target.node)
    \/ IsFun(Value, "get_artifact") /\ NoArtifact

\* At the end a value of a base type is returned as it is, an object is not.
AsIs == IF Has(Value, "fun") /\ Value.parsed THEN Nothing ELSE Value

\* The value of a call that changes nothing.
Translated ==
    CASE IsFun(Value, "get_property") ->
            IF Given = Nothing THEN AsIs ELSE Unfold(Top.done[1], Top.at.arg)
      [] IsFun(Value, "get_attribute") ->
            IF AttributeOfNode THEN HotAttribute(Top.at.target.node, Top.at.name) ELSE AsIs
      [] IsFun(Value, "get_input") -> Hot("get_param", <<Text(Value.args[1])>>)
      [] IsFun(Value, "concat") -> Hot("str_replace", Top.done)
      [] Has(Value, "list") -> [list |-> Filter(Top.done, ToSet(Top.done) \ Falsy)]
      [] OTHER -> Value

\* To the caller or, from the outermost call, to the resource or the output.
Return(v) ==
    IF Len(calls) = 1
    THEN results' = Append(results, v) /\ pos' = pos + 1 /\ calls' = << >>
    ELSE /\ calls' = [Front(calls) EXCEPT ![Len(calls) - 1].done = Append(@, v)]
         /\ UNCHANGED <<results, pos>>

-----------------------------------------------------------------------------

\* The next input value of a deployment, or the next output of the template.
BeginUse ==
    /\ stage = "resolving" /\ calls = << >> /\ pos <= Len(uses)
    /\ calls' = <<Call(uses[pos].value)>>
    /\ UNCHANGED <<uses, pos, results, outputs, cwd, stage>>

InCall == stage = "resolving" /\ calls # << >> /\ ~ Fails

TranslatePart ==
    /\ InCall /\ Len(Top.done) < Len(Parts)
    /\ calls' = Append(calls, Call(Parts[Len(Top.done) + 1]))
    /\ UNCHANGED <<uses, pos, results, outputs, cwd, stage>>

\* An input value takes what is returned, even None; an output of None is
\* left out, which its result Nothing stands for.
ReturnValue ==
    /\ InCall /\ Len(Top.done) = Len(Parts)
    /\ ~ IsFun(Value, "get_artifact") /\ ~ IsFun(Value, "get_operation_output")
    /\ Return(Translated)
    /\ UNCHANGED <<uses, outputs, cwd, stage>>

\* Only an artifact that is a file is returned, from csar_dir.
ReturnArtifact ==
    /\ InCall /\ IsFun(Value, "get_artifact")
    /\ IF Node[Top.at.target.node].artifacts[Top.at.name] = "File"
       THEN /\ Return(Hot("get_file", <<Text(Top.at.name)>>))
            /\ cwd' = IF InArchive THEN "csar" ELSE cwd
       ELSE Return(AsIs) /\ UNCHANGED cwd
    /\ UNCHANGED <<uses, outputs, stage>>

\* Plausible bug: the output is added to the config that has none yet only.
WithOutputFirst(operation, name) ==
    [outputs EXCEPT ![operation] = IF @ = << >> THEN <<name>> ELSE @]

\* matching_config.properties['outputs']
WithOutput(operation, name) == [outputs EXCEPT ![operation] = Append(@, name)]

\* _translate_get_operation_output_function adds the output to the config.
ReturnOutput ==
    /\ InCall /\ IsFun(Value, "get_operation_output")
    /\ LET n == FindNode(Value.args[1], Self)
           operation == Value.args[3]
           output == Value.args[4]
       IN  IF n # None /\ operation \in Node[n].operations
           THEN /\ Return(Hot("get_attr", <<Text(n), Text(operation), Text(output)>>))
                /\ outputs' = WithOutput(<<n, operation>>, output)
           ELSE Return(AsIs) /\ UNCHANGED outputs
    /\ UNCHANGED <<uses, cwd, stage>>

Raise ==
    /\ stage = "resolving" /\ calls # << >> /\ Fails
    /\ stage' = "failed"
    /\ UNCHANGED <<uses, pos, calls, results, outputs, cwd>>

Next ==
    BeginUse \/ TranslatePart \/ ReturnValue \/ ReturnArtifact \/ ReturnOutput \/ Raise

Spec == Init /\ [][Next]_vars

-----------------------------------------------------------------------------
(* Properties.                                                             *)

\* What a function means: a property is read where it is defined, SELF is the
\* node it is written in, and a list keeps the place of each element.

\* The node that owns what a name stands for, wherever it is read from.
Meant(name, owner) ==
    CASE name = "SELF" -> owner
      [] name = "HOST" -> (Required(owner, "host")).to
      [] OTHER -> name

\* Where a get_property of the node n leads: to a property of the node, or of a
\* capability or through the requirement r if the second argument names one.
LeadsFrom(args, n, r) ==
    LET end == IF r = None THEN n ELSE r.to
        on == Len(args) >= 3 /\ args[2] \in DOMAIN Node[end].capabilities
        direct == r = None /\ ~ on
    IN  [target |-> Target(end, IF on THEN args[2] ELSE None),
         name   |-> IF direct THEN args[2] ELSE args[3],
         arg    |-> IF Len(args) = (IF direct THEN 2 ELSE 3) THEN None ELSE Last(args)]

Leads(args, owner) ==
    LET n == Meant(args[1], owner)
    IN  LeadsFrom(args, n, IF Len(args) >= 3 THEN Required(n, args[2]) ELSE None)

\* The values that v, written in the node owner, asks for, each with the node
\* it is written in.
Asks(v, owner) ==
    CASE IsFun(v, "get_property") ->
            LET end == Leads(v.args, owner)
                p == PropertyOf(end.target, end.name)
            IN  IF p = Nothing THEN << >> ELSE <<<<p, end.target.node>>>>
      [] IsFun(v, "concat") -> [k \in DOMAIN v.parts |-> <<v.parts[k], owner>>]
      [] Has(v, "list")     -> [k \in DOMAIN v.list |-> <<v.list[k], owner>>]
      [] OTHER              -> << >>

Element(v, arg) ==
    CASE arg = None -> v
      [] arg # None /\ Has(v, "dict") -> v.dict[arg]
      [] arg # None /\ Has(v, "list") -> v.list[Number(arg) + 1]

\* What v means, from the meaning of what it asks for.
Meaning(v, owner, actual) ==
    LET asked == Asks(v, owner)
    IN  CASE IsFun(v, "get_property") ->
                IF asked = << >> THEN Nothing
                ELSE Element(actual[asked[1]], Leads(v.args, owner).arg)
          [] IsFun(v, "get_attribute") -> HotAttribute(Meant(v.args[1], owner), v.args[2])
          [] IsFun(v, "get_artifact") -> Hot("get_file", <<Text(v.args[2])>>)
          [] IsFun(v, "get_input") -> Hot("get_param", <<Text(v.args[1])>>)
          [] IsFun(v, "get_operation_output") ->
                Hot("get_attr", <<Text(Meant(v.args[1], owner)), Text(v.args[3]), Text(v.args[4])>>)
          [] IsFun(v, "concat") -> Hot("str_replace", [k \in DOMAIN asked |-> actual[asked[k]]])
          [] Has(v, "list") -> [list |-> [k \in DOMAIN asked |-> actual[asked[k]]]]
          [] OTHER -> v

\* What is asked for d steps away from a use.
Asked(use) ==
    LET asked[d \in Nat] ==
            IF d = 0 THEN {<<use.value, use.owner>>}
            ELSE UNION {Range(Asks(p[1], p[2])) : p \in asked[d - 1]}
    IN  asked

\* The meanings of what is asked for, if that takes no more than d steps.
Meanings(use) ==
    LET all == UNION {Asked(use)[d] : d \in 0..MaxDepth}
        actual[d \in Nat] ==
            IF d = 0 THEN [p \in all |-> Nothing]
            ELSE [p \in all |-> Meaning(p[1], p[2], actual[d - 1])]
    IN  actual

Actual(use) == Meanings(use)[MaxDepth + 1][<<use.value, use.owner>>]

\* The lines above for which the code takes another way than TOSCA are left out
\* by what follows: a SELF or HOST is of the node whose value is translated,
\* which has one host,
Named(name, owner, self) ==
    IF name \in {"SELF", "HOST"}
    THEN /\ owner = self /\ self # None
         /\ name = "HOST" =>
                LET all == {r \in DOMAIN Node[self].requirements :
                                Node[self].requirements[r].name = "host"}
                IN  \E r \in all : all = {r} /\ Node[self].requirements[r].form = "short"
    ELSE name \in DOMAIN Node

\* the second argument names a property, an attribute or an artifact,
Directly(args, n) ==
    \/ Len(args) = 2
    \/ Len(args) = 3 /\ args[2] \notin DOMAIN Node[n].capabilities /\ Required(n, args[2]) = None

\* or either a capability or a requirement, in short form,
OneWay(args, n) ==
    \/ Directly(args, n)
    \/ /\ Len(args) \in {3, 4}
       /\ IF args[2] \in DOMAIN Node[n].capabilities THEN Required(n, args[2]) = None
          ELSE Required(n, args[2]) # None /\ (Required(n, args[2])).form = "short"

\* an argument that is left is of an entry or an element that there is,
Enters(v, arg) ==
    \/ arg = None
    \/ Has(v, "dict") /\ ~ Has(v, "list") /\ arg \in DOMAIN v.dict
    \/ Has(v, "list") /\ ~ Has(v, "dict") /\ Number(arg) # None

\* a property that is not given is asked for by an object of the parser, and no
\* element of a list is false for Python.
Agrees(v, owner, self, actual) ==
    LET asked == Asks(v, owner)
        n == Meant(v.args[1], owner)
    IN  /\ IsFun(v, "get_property") =>
                /\ Named(v.args[1], owner, self) /\ OneWay(v.args, n)
                /\ IF asked = << >> THEN v.parsed
                   ELSE Enters(actual[asked[1]], Leads(v.args, owner).arg)
        /\ IsFun(v, "get_attribute") => Named(v.args[1], owner, self) /\ Directly(v.args, n)
        /\ IsFun(v, "get_artifact") =>
                /\ Named(v.args[1], owner, self) /\ Directly(v.args, n)
                /\ v.args[2] \in DOMAIN Node[n].artifacts /\ Node[n].artifacts[v.args[2]] = "File"
        /\ IsFun(v, "get_operation_output") =>
                Named(v.args[1], owner, self) /\ v.args[3] \in Node[n].operations
        /\ Has(v, "list") => \A k \in DOMAIN asked : actual[asked[k]] \notin Falsy

Resolvable(use) ==
    /\ \A d \in 0..MaxDepth : \A p \in Asked(use)[d] :
            Agrees(p[1], p[2], use.owner, Meanings(use)[MaxDepth - d])
    /\ Asked(use)[MaxDepth + 1] = {}

\* "traverse the reference chain to get the actual value"
\* (translate_node_templates.py:391): what replaces a function is what it
\* means, however many functions stand between.
ActualValues ==
    \A k \in DOMAIN results : Resolvable(uses[k]) => results[k] = Actual(uses[k])

\* The attributes a value refers to, at any depth.
Attributes(v) == {w.args : w \in {w \in Within(v) : Has(w, "hot") /\ w.hot = "get_attr"}}

\* Every output of an operation that a value reads is one of the outputs of
\* its config, also when several values read it and others
\* (_translate_get_operation_output_function); Heat finds no other.
OutputsDeclared ==
    \A k \in DOMAIN results : \A a \in Attributes(results[k]) :
        Len(a) = 3 => a[3].text \in Range(outputs[<<a[1].text, a[2].text>>])

=============================================================================
