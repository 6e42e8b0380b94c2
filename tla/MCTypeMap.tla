----------------------------- MODULE MCTypeMap -----------------------------
(* Types as the samples have them: policies that are derived from Scaling,  *)
(* Placement and Cluster, one of them, and a node type, with a class in the *)
(* configured directory, and a type that no parent of is supported.         *)
EXTENDS TypeMap

Types == {"SoftwareComponent", "WebServer", "MyWebServer", "Compute", "Root",
          "Scaling", "tacker.Scaling", "my.Scaling", "Cluster", "my.Cluster",
          "Placement", "my.Placement", "Affinity", "Affinity2"}

Lineage ==
    [t \in Types |->
        CASE t = "WebServer"      -> <<t, "SoftwareComponent", "Root">>
          [] t = "MyWebServer"    -> <<t, "WebServer", "SoftwareComponent", "Root">>
          [] t = "SoftwareComponent" \/ t = "Compute" -> <<t, "Root">>
          [] t = "tacker.Scaling" -> <<t, "Scaling">>
          [] t = "my.Scaling"     -> <<t, "Scaling">>
          [] t = "Cluster"        -> <<t, "Scaling">>
          [] t = "my.Cluster"     -> <<t, "Cluster", "Scaling">>
          [] t = "my.Placement"   -> <<t, "Placement">>
          [] t = "Affinity"       -> <<t, "Placement">>
          [] t = "Affinity2"      -> <<t, "Affinity", "Placement">>
          [] OTHER                -> <<t>>]

Own  == [component |-> "SoftwareComponent", web |-> "WebServer", scaling |-> "Scaling",
         cluster |-> "Cluster", placement |-> "Placement", customWeb |-> "WebServer",
         customPlacement |-> "my.Placement"]

Place == [component |-> 1, web |-> 1, scaling |-> 1, cluster |-> 1, placement |-> 2,
          customWeb |-> 3, customPlacement |-> 3]

Modules == DOMAIN Own

Fine == [m \in Modules |-> "class"]
But(m, fault) == [Fine EXCEPT ![m] = fault]

Node(t)   == [type |-> t, isPolicy |-> FALSE]
Policy(t) == [type |-> t, isPolicy |-> TRUE]

\* Of types with and without a class of their own, of types derived once
\* and twice, of a type without a supported parent.
OfNodes    == {<<Node("MyWebServer"), Node("WebServer")>>, <<Node("SoftwareComponent")>>,
               <<Node("Compute")>>}
OfPolicies == {<<Policy("my.Scaling"), Policy("my.Placement")>>, <<Policy("Scaling")>>,
               <<Policy("tacker.Scaling")>>, <<Policy("Cluster")>>, <<Policy("my.Cluster")>>,
               <<Policy("Affinity"), Policy("Placement")>>, <<Policy("Affinity2")>>,
               <<Policy("Affinity"), Policy("Affinity2")>>, <<Policy("Root")>>}
Usual      == OfNodes \cup OfPolicies

AnyFault == {Fine} \cup {But(m, c) : m \in {"web", "customWeb"},
                        c \in {"import error", "no class", "no target", "no type"}}

BasePolicies == {"Scaling", "Placement"}
ScalingTypes == {"Scaling", "tacker.Scaling"}

=============================================================================
