----------------------------- MODULE Parameters -----------------------------
(***************************************************************************)
(* The inputs of a topology become the parameters of the HOT template:     *)
(* translate_inputs.py, written by hot_parameter.py and hot_template.py.   *)
(* A deployment translates the same inputs twice, once for Heat and once   *)
(* for the output file.                                                    *)
(*                                                                         *)
(* Values are integers: a number counts halves, so that a float may lie    *)
(* between two integers, a string is its length, a boolean 0 or 1, a size  *)
(* its MiB.  A version with a minor part is even, and the odd number below *)
(* it is the same version without the part.  0 stands for what Python      *)
(* takes for false in every type.                                          *)
(***************************************************************************)
EXTENDS Integers, SequencesExt, TLC

CONSTANTS
    Declarations,  \* sequences of inputs: name, type, default, constraints
    Commands,      \* the values given on the command line: name :> value
    None,          \* no value, no bound
    Unbounded,     \* the end of a range that has none
    Tried          \* the values the properties try

Ops == {"equal", "greater_than", "greater_or_equal", "less_than", "less_or_equal",
        "in_range", "valid_values", "length", "min_length", "max_length", "pattern"}

\* The operators whose bound is moved.
Open == {"greater_than", "less_than"}

Smaller(m, n) == IF m < n THEN m ELSE n
Greater(m, n) == IF m < n THEN n ELSE m
Even(v) == v % 2 = 0

\* The types whose constraints have whole numbers as bounds.
WholeBounds == {"integer", "PortDef", "scalar-unit.size"}

\* A constraint as the parser lets it pass: bounds of the type of the input,
\* the two ends of a range in their order, for a size numbers of the parser's
\* own unit.  A pattern is the strings it matches.
IsConstraint(c, type) ==
    /\ c.op \in Ops /\ Len(c.at) >= 1
    /\ \A k \in 1 .. Len(c.at) :
        c.at[k] \in Nat \/ (c.op = "in_range" /\ k = 2 /\ c.at[k] = Unbounded)
    /\ type \in WholeBounds => \A k \in DOMAIN c.at : c.at[k] # Unbounded => Even(c.at[k])
    /\ c.op \notin {"in_range", "valid_values", "pattern"} => Len(c.at) = 1
    /\ c.op = "in_range" => Len(c.at) = 2 /\ (c.at[2] # Unbounded => c.at[1] <= c.at[2])
    /\ c.op \in Open => type \in {"integer", "float", "timestamp", "scalar-unit.size"}

IsValue(v, type) == v \in Nat /\ (type \in {"integer", "PortDef"} => Even(v))

Value == Nat \cup {None}

ConstraintRecord == [op: Ops, at: Seq(Nat \cup {Unbounded})]

InputRecord == [name: STRING, type: STRING, default: Value, constraints: Seq(ConstraintRecord)]

IsInput(i) ==
    /\ i.default = None \/ IsValue(i.default, i.type)
    /\ \A k \in 1 .. Len(i.constraints) : IsConstraint(i.constraints[k], i.type)

\* The inputs are a dictionary of the template: no name comes twice.
ASSUME InputsAssumption ==
    \A d \in Declarations :
        /\ d \in Seq(InputRecord)
        /\ \A k \in 1 .. Len(d) : IsInput(d[k])
        /\ \A j, k \in 1 .. Len(d) : d[j].name = d[k].name => j = k

ASSUME CommandsAssumption ==
    \A c \in Commands, d \in Declarations :
        /\ \A n \in DOMAIN c : c[n] \in Nat
        /\ \A k \in 1 .. Len(d) : d[k].name \in DOMAIN c => IsValue(c[d[k].name], d[k].type)

ASSUME NoneAssumption == None \notin Int /\ Unbounded \notin Int

ASSUME TriedAssumption == Tried \subseteq Nat

Numbers == {"integer", "float", "scalar-unit.size", "PortDef"}
Strings == {"string", "timestamp", "version", "null"}

HotType ==
    [type \in Numbers \cup Strings \cup {"boolean", "list"} |->
        IF type \in Numbers THEN "number" ELSE IF type \in Strings THEN "string" ELSE type]

VARIABLES
    inputs,   \* tosca.inputs
    given,    \* parsed_params
    deploy,
    pos,      \* the loop over inputs
    params,   \* hot_inputs
    section,  \* all_params, the parameters section being written
    written,  \* the parameters section of each translation
    stage

vars == <<inputs, given, deploy, pos, params, section, written, stage>>

\* TODO in the code: an input of type float is moved by the same offset.
Offset == 2

\* The types of what the translation keeps; the size of a volume is not 0.
TypeOK ==
    /\ pos \in 1 .. Greater(Len(inputs), Len(params)) + 1
    /\ \A k \in DOMAIN params :
        /\ params[k].type \in Range(HotType) /\ params[k].default \in Value
        /\ \A i \in Range(inputs) :
            i.name = params[k].name /\ i.type = "scalar-unit.size"
                => params[k].default \notin {0, None}
    /\ Len(written) <= 2 /\ stage \in {"idle", "inputs", "section", "failed"}

Init ==
    /\ inputs \in Declarations /\ given \in Commands /\ deploy \in BOOLEAN
    /\ pos = 1 /\ params = << >>
    /\ section = << >> /\ written = << >> /\ stage = "idle"

-----------------------------------------------------------------------------
(* Constraints.                                                            *)

\* What a value has to meet, constraint.validate of the parser.
Admits(c, v) ==
    CASE c.op \in {"equal", "length"} -> v = c.at[1]
      [] c.op = "greater_than" -> v > c.at[1]
      [] c.op \in {"greater_or_equal", "min_length"} -> v >= c.at[1]
      [] c.op = "less_than" -> v < c.at[1]
      [] c.op \in {"less_or_equal", "max_length"} -> v <= c.at[1]
      [] c.op = "in_range" -> v >= c.at[1] /\ (c.at[2] = Unbounded \/ v <= c.at[2])
      [] c.op \in {"valid_values", "pattern"} -> v \in Range(c.at)

Listing == {"allowed_values", "allowed_pattern"}

\* What Heat admits.
HotAdmits(h, v) ==
    /\ h.attr \in Listing => v \in h.values
    /\ h.min # None => v >= h.min
    /\ h.max # None => v <= h.max

Attribute(op) ==
    CASE op \in {"equal", "valid_values"} -> "allowed_values"
      [] op = "pattern" -> "allowed_pattern"
      [] op \in {"length", "min_length", "max_length"} -> "length"
      [] OTHER -> "range"

Lowest(c) ==
    CASE c.op = "greater_than" -> c.at[1] + Offset
      [] c.op \in {"greater_or_equal", "length", "min_length"} -> c.at[1]
      [] c.op = "in_range" -> Smaller(c.at[1], c.at[2])
      [] OTHER -> None

\* Plausible bug: the bound of less_than is not moved.
HighestUnmoved(c) ==
    CASE c.op \in {"less_than", "less_or_equal", "length", "max_length"} -> c.at[1]
      [] c.op = "in_range" -> Greater(c.at[1], c.at[2])
      [] OTHER -> None

Highest(c) ==
    CASE c.op = "less_than" -> c.at[1] - Offset
      [] c.op \in {"less_or_equal", "length", "max_length"} -> c.at[1]
      [] c.op = "in_range" -> Greater(c.at[1], c.at[2])
      [] OTHER -> None

TranslateConstraint(c) ==
    [attr |-> Attribute(c.op), min |-> Lowest(c), max |-> Highest(c),
     values |-> IF Attribute(c.op) \in Listing THEN Range(c.at) ELSE {}]

\* min and max do not compare a number with the word UNBOUNDED.
Incomparable(c) == c.op = "in_range" /\ c.at[2] = Unbounded

\* The offset of 1 is not added to a date.
Unmovable(c, type) == type = "timestamp" /\ c.op \in Open

-----------------------------------------------------------------------------
(* One translation of the inputs.                                          *)

KeyName == [name |-> "key_name", type |-> "string", default |-> given["key_name"],
            constraints |-> << >>]

\* 'key_name' not in self.inputs compares a string with Input objects and is
\* always true: a key_name is appended whether or not there is one.
BeginTranslation ==
    /\ stage = "idle" /\ Len(written) < IF deploy THEN 2 ELSE 1
    /\ inputs' = IF "key_name" \in DOMAIN given THEN Append(inputs, KeyName) ELSE inputs
    /\ pos' = 1 /\ params' = << >> /\ stage' = "inputs"
    /\ UNCHANGED <<given, deploy, section, written>>

\* Plausible bug: the default of the template comes before the given value.
StartingDefaultFirst(i) ==
    IF i.default = None /\ i.name \in DOMAIN given THEN given[i.name] ELSE i.default

Starting(i) == IF i.name \in DOMAIN given THEN given[i.name] ELSE i.default

\* Plausible bug: a whole number of GiB is rounded up too.
WholeGiBOver(mib) == mib \div 1024 + 1

WholeGiB(mib) == (mib + 1023) \div 1024

\* TOSCAVersionProperty.get_version: 18 is 18.0.
WithMinor(version) == IF Even(version) THEN version ELSE version + 1

\* A size becomes its number of GiB, counted in halves as any number.
Default(i) ==
    CASE i.type = "scalar-unit.size" -> 2 * WholeGiB(Starting(i))
      [] i.type = "version" -> WithMinor(Starting(i))
      [] OTHER -> Starting(i)

\* constraint.validate, only if the default is not false; of a size it is the
\* number of GiB that is compared, whatever the unit of the bounds.
Breaks(i) ==
    /\ Starting(i) \notin {None, 0}
    /\ \E k \in DOMAIN i.constraints : ~ Admits(i.constraints[k], Default(i))

\* Plausible bug: a deployment does without values too.
RejectedAnyway(i) ==
    \/ i.type \notin DOMAIN HotType
    \/ i.type \in {"scalar-unit.size", "version"} /\ Starting(i) \in {None, 0}
    \/ \E k \in DOMAIN i.constraints :
            Incomparable(i.constraints[k]) \/ Unmovable(i.constraints[k], i.type)
    \/ Breaks(i)

\* The parser takes a version 0 for none, and neither a version nor a size
\* can be made of no value.
Rejected(i) ==
    \/ i.type \notin DOMAIN HotType
    \/ deploy /\ Starting(i) = None
    \/ i.type \in {"scalar-unit.size", "version"} /\ Starting(i) \in {None, 0}
    \/ \E k \in DOMAIN i.constraints :
            Incomparable(i.constraints[k]) \/ Unmovable(i.constraints[k], i.type)
    \/ Breaks(i)

AtInput == stage = "inputs" /\ pos <= Len(inputs)

Parameter(i) ==
    [name |-> i.name, type |-> HotType[i.type], default |-> Default(i),
     constraints |-> [k \in DOMAIN i.constraints |-> TranslateConstraint(i.constraints[k])]]

\* Plausible bug: the inputs are taken off tosca.inputs one by one.
TranslateInputOff ==
    /\ AtInput /\ ~ Rejected(inputs[pos])
    /\ params' = Append(params, Parameter(inputs[pos]))
    /\ inputs' = Tail(inputs)
    /\ UNCHANGED <<given, deploy, pos, section, written, stage>>

TranslateInput ==
    /\ AtInput /\ ~ Rejected(inputs[pos])
    /\ params' = Append(params, Parameter(inputs[pos]))
    /\ pos' = pos + 1
    /\ UNCHANGED <<inputs, given, deploy, section, written, stage>>

\* An exception ends the command.
Reject ==
    /\ AtInput /\ Rejected(inputs[pos])
    /\ stage' = "failed"
    /\ UNCHANGED <<inputs, given, deploy, pos, params, section, written>>

\* Plausible bug: only a default of None is left out.
OutputOfFalse(p) == p

\* HotParameter.get_dict_output leaves a default out that is false.
Output(p) == [p EXCEPT !.default = IF @ = 0 THEN None ELSE @]

FinishInputs ==
    /\ stage = "inputs" /\ pos > Len(inputs)
    /\ section' = << >> /\ pos' = 1 /\ stage' = "section"
    /\ UNCHANGED <<inputs, given, deploy, params, written>>

\* A parameter takes the place of one of the same name.
WriteParameter ==
    /\ stage = "section" /\ pos <= Len(params)
    /\ section' = [n \in DOMAIN section \cup {params[pos].name} |->
                    IF n = params[pos].name THEN Output(params[pos]) ELSE section[n]]
    /\ pos' = pos + 1
    /\ UNCHANGED <<inputs, given, deploy, params, written, stage>>

FinishSection ==
    /\ stage = "section" /\ pos > Len(params)
    /\ written' = Append(written, section)
    /\ pos' = 1 /\ stage' = "idle"
    /\ UNCHANGED <<inputs, given, deploy, params, section>>

Next ==
    \/ BeginTranslation \/ TranslateInput \/ Reject
    \/ FinishInputs \/ WriteParameter \/ FinishSection

Spec == Init /\ [][Next]_vars

-----------------------------------------------------------------------------
(* Properties.                                                             *)

\* The values of a type that are tried.
Values(type) == IF type \in WholeBounds THEN {2 * v : v \in Tried} ELSE Tried

\* The inputs whose own parameter is written: a key_name that is given is
\* replaced by the one the translator appends.
Kept == {k \in DOMAIN inputs : ~ (inputs[k].name = "key_name" /\ "key_name" \in DOMAIN given)}

\* Heat admits for a parameter exactly the values that the constraints of the
\* input admit, although less_than and greater_than become closed bounds
\* (TranslateInputs._translate_constraints).  Not so for a size, whose bounds
\* stay in the parser's unit while the parameter counts GiB, and for a
\* timestamp, a string that Heat knows no range of.
ConstraintsAgree ==
    \A t \in DOMAIN written, k \in Kept :
        inputs[k].type \notin {"scalar-unit.size", "timestamp"} => \A v \in Values(inputs[k].type) :
            (\A c \in Range(inputs[k].constraints) : Admits(c, v))
              <=> \A h \in Range(written[t][inputs[k].name].constraints) : HotAdmits(h, v)

\* Heat rejects a template whose default breaks the constraints of its own
\* parameter: the check of a default and the test that leaves it out agree on
\* what is false (translate_inputs.py:125, hot_parameter.py:45).
DefaultsAdmitted ==
    \A t \in DOMAIN written : \A n \in DOMAIN written[t] :
        LET p == written[t][n]
        IN  p.default # None =>
                \A k \in DOMAIN p.constraints : HotAdmits(p.constraints[k], p.default)

\* A volume is as large as was asked, by less than one GiB more, and what is
\* given on the command line decides (translate_inputs.py:89-118).
SizesCoverRequest ==
    \A t \in DOMAIN written, k \in Kept :
        LET i == inputs[k]
            gib == written[t][i.name].default \div 2
            asked == IF i.name \in DOMAIN given THEN given[i.name] ELSE i.default
        IN  i.type = "scalar-unit.size" => gib * 1024 >= asked /\ (gib - 1) * 1024 < asked

\* What the user gives, in GiB if it is a size and with a minor part if it is
\* a version, is the default of the parameter, unless it is false, and of
\* key_name too (usage.rst:73: "the user must provide it via parameters, and
\* the heat-translator will set it").
GivenDecides ==
    \A t \in DOMAIN written : \A n \in DOMAIN given \cap DOMAIN written[t] :
        given[n] # 0 =>
            written[t][n].default \in {given[n], 2 * WholeGiB(given[n]), WithMinor(given[n])}

\* The parameters of the file are those of the stack that was deployed,
\* although the first translation has changed tosca.inputs (shell.py:194-198).
TranslatedAlike == Len(written) = 2 => written[1] = written[2]

\* What Heat is asked for is what the template and the user asked for, in
\* each translation.
ParametersFaithful ==
    /\ ConstraintsAgree /\ DefaultsAdmitted
    /\ SizesCoverRequest /\ GivenDecides
    /\ TranslatedAlike

\* "Need to specify a value for input {0}." (translate_inputs.py:97): Heat is
\* not asked to create a stack without a value for a parameter.  A default
\* that is false passes the check and is not written (hot_parameter.py:45).
DeployedWithValues ==
    deploy => \A t \in DOMAIN written, k \in Kept :
        \/ inputs[k].name \in DOMAIN given
        \/ written[t][inputs[k].name].default # None
        \/ inputs[k].default = 0

=============================================================================
