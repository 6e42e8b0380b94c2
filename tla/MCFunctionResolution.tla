------------------------ MODULE MCFunctionResolution ------------------------
(* A component on a server, a component that uses its endpoint, a volume.   *)
EXTENDS FunctionResolution

Fun(f, args) == [fun |-> f, args |-> args, parsed |-> FALSE]
Parsed(f, args) == [fun |-> f, args |-> args, parsed |-> TRUE]
Joined(parts) == [fun |-> "concat", parts |-> parts, parsed |-> FALSE]
Req(name, form, to) == [name |-> name, form |-> form, to |-> to]

Plain(kind) == [kind |-> kind, properties |-> << >>, capabilities |-> << >>,
                requirements |-> << >>, artifacts |-> << >>, operations |-> {}]

Topology ==
    ("server" :> [Plain("server") EXCEPT !.capabilities = "os" :> ("type" :> Text("linux"))])
    @@ ("disk" :> Plain("volume"))
    @@ ("db" :> [Plain("component") EXCEPT
            !.properties = ("port" :> Text("3306"))
                @@ ("name" :> Fun("get_input", <<"db_name">>))
                @@ ("ports" :> [list |-> <<Text("80"), Fun("get_input", <<"p">>), Text("82")>>])
                @@ ("table" :> [dict |-> "user" :> Text("root")]),
            !.capabilities = "endpoint" :> ("url" :> Fun("get_property", <<"db", "port">>)),
            !.requirements = <<Req("host", "short", "server")>>,
            !.artifacts = ("page" :> "File") @@ ("image" :> "Other"),
            !.operations = {"create"}])
    @@ ("app" :> [Plain("component") EXCEPT
            !.properties = ("port" :> Text("8080")) @@ ("mine" :> Fun("get_property", <<"db", "name">>)),
            !.requirements = <<Req("host", "short", "server"), Req("endpoint", "short", "db"),
                               Req("needs", "short", "db"), Req("full", "full", "db")>>])

Plainly ==
    {Text("x"), Text("0"), [dict |-> "user" :> Text("root")],
     Fun("get_input", <<"cpus">>), Parsed("get_input", <<"cpus">>),
     Fun("get_property", <<"SELF", "port">>), Fun("get_property", <<"app", "mine">>),
     Fun("get_property", <<"db", "ports", "1">>), Fun("get_property", <<"db", "ports", "2">>),
     Fun("get_property", <<"db", "table", "user">>), Parsed("get_property", <<"db", "endpoint", "url">>),
     Fun("get_property", <<"app", "endpoint", "url">>), Fun("get_property", <<"app", "needs", "ports", "0">>),
     Fun("get_property", <<"HOST", "os", "type">>),
     Fun("get_attribute", <<"HOST", "private_address">>), Fun("get_attribute", <<"disk", "volume_id">>),
     Fun("get_operation_output", <<"db", "Standard", "create", "user">>),
     Fun("get_operation_output", <<"db", "Standard", "create", "password">>),
     Fun("get_artifact", <<"db", "page">>), Parsed("get_property", <<"db", "none">>)}

\* What a list keeps.
Lasting == Plainly \ {Text("0"), Parsed("get_property", <<"db", "none">>)}

Combined == Plainly
    \cup {Joined(<<u, v>>) : u \in Plainly, v \in Plainly}
    \cup {[list |-> <<u, v>>] : u \in Lasting, v \in Lasting}

\* What an output reads, which is of no node.
OfOutputs == {v \in Plainly : Has(v, "fun") => v.args[1] \notin {"SELF", "HOST"}}

\* What cannot be resolved ends the translation.
Failing ==
    {Fun("get_artifact", <<"db", "none">>), Fun("get_attribute", <<"db", "address">>),
     Fun("get_property", <<"app", "full", "port">>)}

PlainUses ==
    {<<[owner |-> o, value |-> v]>> : o \in {"db", "app"}, v \in Combined}
    \cup {<<[owner |-> o, value |-> u], [owner |-> "app", value |-> v]>> :
            o \in {"db", "app"}, u \in Plainly, v \in Plainly \cup Failing}
    \cup {<<[owner |-> "app", value |-> u], [owner |-> None, value |-> v]>> :
            u \in Plainly, v \in OfOutputs \cup Failing}

\* What is translated is resolvable, but for what ends the translation.
ASSUME ResolvableAssumption ==
    \A u \in Uses : \A k \in DOMAIN u : Resolvable(u[k]) \/ u[k].value \in Failing

=============================================================================
