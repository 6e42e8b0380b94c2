---------------------------- MODULE MCParameters ----------------------------
(* Inputs of each type with each constraint around its boundary.           *)
EXTENDS Parameters

Input(name, type, default, constraints) ==
    [name |-> name, type |-> type, default |-> default, constraints |-> constraints]

On(op, at) == [op |-> op, at |-> at]

IntegerConstraints ==
    {<<On(op, <<2>>)>> : op \in {"equal", "greater_than", "greater_or_equal",
                                  "less_than", "less_or_equal"}}
    \cup {<< >>, <<On("in_range", <<2, 4>>)>>, <<On("in_range", <<2, Unbounded>>)>>,
          <<On("valid_values", <<2, 6>>)>>,
          <<On("greater_than", <<2>>), On("less_than", <<8>>)>>}

StringConstraints ==
    {<<On(op, <<2>>)>> : op \in {"length", "min_length", "max_length"}}
    \cup {<<On("pattern", <<2, 3>>)>>}

\* The bound of a float is moved by as much as that of an integer: no open one.
FloatConstraints == {<<On("greater_or_equal", <<3>>)>>, <<On("in_range", <<1, 3>>)>>}
DateConstraints == {<< >>, <<On("in_range", <<2, 4>>)>>, <<On("greater_than", <<2>>)>>}
SizeConstraints == {<<On("greater_than", <<2>>)>>, <<On("less_or_equal", <<2>>)>>}

Cpus == {<<Input("cpus", "integer", d, c)>> : d \in {None, 0, 2, 4}, c \in IntegerConstraints}
Users == {<<Input("user", "string", d, c)>> : d \in {None, 0, 1, 2, 3}, c \in StringConstraints}
Others == {<<Input("flag", "boolean", d, << >>), Input("size", "scalar-unit.size", s, << >>)>> :
            d \in {None, 0, 1}, s \in {None, 0, 1, 1024, 1025}}
KeyNames == {<<Input("key_name", "string", d, c), Input("user", "string", 3, << >>)>> :
            d \in {None, 3}, c \in {<< >>, <<On("max_length", <<4>>)>>}}
Loads == {<<Input("load", "float", d, c)>> : d \in {None, 0, 3, 5}, c \in FloatConstraints}
Dates == {<<Input("date", "timestamp", d, c)>> : d \in {None, 3}, c \in DateConstraints}
Volume == {<<Input("size", "scalar-unit.size", s, c)>> : s \in {1024, 1025}, c \in SizeConstraints}
Releases == {<<Input("release", "version", d, c)>> :
            d \in {None, 0, 3, 4}, c \in {<< >>, <<On("valid_values", <<4>>)>>}}
Rest == {<<Input("none", "null", None, << >>), Input("hosts", "list", d, << >>),
           Input("port", "PortDef", 4, <<On("equal", <<p>>)>>)>> : d \in {None, 0, 2}, p \in {2, 4}}
Unknown == {<<Input("cpus", "integer", 2, << >>), Input("flag", "map", 2, << >>)>>}

PlainDeclarations == Cpus \cup Users \cup Others \cup KeyNames
    \cup Loads \cup Dates \cup Volume \cup Releases \cup Rest \cup Unknown

\* Nothing given, each input given by itself, and a key_name with an input.
PlainCommands ==
    {<< >>, "key_name" :> 5} \cup {"cpus" :> v : v \in {0, 2, 4, 6}}
    \cup {"user" :> v : v \in {0, 2, 3}} \cup {"size" :> v : v \in {0, 512, 2049}}
    \cup {"load" :> 1, "release" :> 3}
    \cup {("cpus" :> 4) @@ ("key_name" :> 5), ("flag" :> 0) @@ ("size" :> 2048)}

=============================================================================
