------------------------------ MODULE TypeMap ------------------------------
(***************************************************************************)
(* The map from TOSCA types to translation classes: TOSCA_TO_HOT_TYPE in   *)
(* translate_node_templates.py.  It is loaded when the module is imported, *)
(* from three directories, the last of which a configuration file names,   *)
(* and lives as long as the process: in an OpenStack client session, or    *)
(* with --deploy, it serves several translations, which write to it.       *)
(***************************************************************************)
EXTENDS Integers, SequencesExt

CONSTANTS
    Type,          \* the TOSCA types
    Ancestors,     \* of each type: itself, its parent, and so on
    Module,        \* the modules tosca_*.py
    Location,      \* the position of the directory each is in
    Contents,      \* what the modules hold, one of "class", "import error",
                   \* "no class", "no target" and "no type" for each
    ToscaType,     \* toscatype of the class of each
    Templates,     \* sequences of nodes and policies: records type, isPolicy
    BasePolicy,    \* BASE_POLICY_TYPES
    Scaling,       \* the two types of scaling the loop over the policies knows
    Cluster,       \* tosca.policies.Scaling.Cluster
    MaxTranslations

Locations == 3

ASSUME TypesAssumption ==
    /\ Ancestors \in [Type -> Seq(Type)]
    /\ \A t \in Type : Ancestors[t] # << >> /\ Ancestors[t][1] = t
    /\ \A t \in Type : \A k \in 1 .. Len(Ancestors[t]) :
            Ancestors[Ancestors[t][k]] = SubSeq(Ancestors[t], k, Len(Ancestors[t]))

ASSUME ModulesAssumption ==
    /\ Location \in [Module -> 1 .. Locations]
    /\ ToscaType \in [Module -> Type]
    /\ "" \notin Module

ASSUME TemplatesAssumption ==
    \A template \in Templates : template \in Seq([type: Type, isPolicy: BOOLEAN])

VARIABLES
    content,
    at,        \* the directory that is read
    unread,    \* the modules in it that are still to be imported
    target,    \* target_name of the last module that has one; "" before it
    classes,   \* the modules whose class was found, in their order
    typeMap,   \* TOSCA_TO_HOT_TYPE
    template,  \* the template that is translated
    made,      \* per node and policy: the class, and whether it gets the parameters
    count,     \* the translations begun
    error,     \* the exception that ended the import or the translation; ""
    stage

loading == <<content, at, unread, target, classes>>
vars == <<loading, typeMap, template, made, count, error, stage>>

TypeOK ==
    /\ at \in 1 .. Locations /\ unread \subseteq Module
    /\ \A k \in DOMAIN classes : classes[k] \in Module
    /\ \A t \in DOMAIN typeMap : t \in Type /\ typeMap[t] \in Module
    /\ Len(made) <= Len(template)
    /\ stage \in {"loading", "idle", "translating", "failed"}

In(location) == {m \in Module : Location[m] = location}

Init ==
    /\ content \in Contents
    /\ at = 1 /\ unread = In(1) /\ target = "" /\ classes = << >>
    /\ typeMap = << >> /\ template = << >> /\ made = << >>
    /\ count = 0 /\ error = "" /\ stage = "loading"

-----------------------------------------------------------------------------
(* The import.  os.listdir gives the modules of a directory in any order.  *)

LoadClass(m) ==
    /\ stage = "loading" /\ m \in unread
    /\ content[m] \in {"class", "no type"}
    /\ unread' = unread \ {m} /\ target' = m
    /\ classes' = Append(classes, m)
    /\ UNCHANGED <<content, at, typeMap, template, made, count, error, stage>>

\* The name of a class that a module does not have is that of an earlier
\* module if this one names none.
LoadError(m) ==
    CASE content[m] = "import error" -> "ToscaModImportError"
      [] content[m] = "no class"     -> "ToscaClassImportError"
      [] content[m] = "no target"    -> IF target = "" THEN "UnboundLocalError"
                                        ELSE "ToscaClassImportError"

LoadFails(m) ==
    /\ stage = "loading" /\ m \in unread
    /\ content[m] \in {"import error", "no class", "no target"}
    /\ error' = LoadError(m) /\ stage' = "failed"
    /\ UNCHANGED <<loading, typeMap, template, made, count>>

NextLocation ==
    /\ stage = "loading" /\ unread = {} /\ at < Locations
    /\ at' = at + 1 /\ unread' = In(at + 1)
    /\ UNCHANGED <<content, target, classes, typeMap, template, made, count, error, stage>>

Named(t) == {k \in DOMAIN classes : ToscaType[classes[k]] = t}

\* Plausible bug: the first class of a type stays.
WinnerFirst(t) == CHOOSE k \in Named(t) : \A n \in Named(t) : k <= n

\* A dictionary keeps the last.
Winner(t) == CHOOSE k \in Named(t) : \A n \in Named(t) : n <= k

Untyped == \E k \in DOMAIN classes : content[classes[k]] = "no type"

FinishLoading ==
    /\ stage = "loading" /\ unread = {} /\ at = Locations /\ ~ Untyped
    /\ typeMap' = [t \in {t \in Type : Named(t) # {}} |-> classes[Winner(t)]]
    /\ stage' = "idle"
    /\ UNCHANGED <<loading, template, made, count, error>>

\* The handler of a class without toscatype reads e.message, which no
\* exception of Python 3 has.
FinishFails ==
    /\ stage = "loading" /\ unread = {} /\ at = Locations /\ Untyped
    /\ error' = "AttributeError" /\ stage' = "failed"
    /\ UNCHANGED <<loading, typeMap, template, made, count>>

-----------------------------------------------------------------------------
(* The translations.                                                       *)

BeginTranslation ==
    /\ stage = "idle" /\ count < MaxTranslations
    /\ template' \in Templates /\ made' = << >> /\ count' = count + 1
    /\ error' = "" /\ stage' = "translating"
    /\ UNCHANGED <<loading, typeMap>>

Steps(t) == {k \in DOMAIN Ancestors[t] : Ancestors[t][k] \in DOMAIN typeMap}

\* Plausible bug: the search goes on to the root.
SupportedTop(t) == Ancestors[t][CHOOSE k \in Steps(t) : \A n \in Steps(t) : n <= k]

\* _get_supported_type, if Steps is not empty.
Supported(t) == Ancestors[t][CHOOSE k \in Steps(t) : \A n \in Steps(t) : k <= n]

Item == template[Len(made) + 1]

Translating == stage = "translating" /\ Len(made) < Len(template)

Make(class, parameters) ==
    made' = Append(made, [class |-> class, parameters |-> parameters])

TranslateNode ==
    /\ Translating /\ ~ Item.isPolicy /\ Steps(Item.type) # {}
    /\ Make(typeMap[Supported(Item.type)], FALSE)
    /\ UNCHANGED <<loading, typeMap, template, count, error, stage>>

RegisteredClass(own) == typeMap[Supported(own)]

Registers(own) == Supported(own) \in BasePolicy /\ own # Cluster

Registered(own) ==
    IF Registers(own)
    THEN [t \in DOMAIN typeMap \cup {own} |->
            IF t = own THEN RegisteredClass(own) ELSE typeMap[t]]
    ELSE typeMap

\* hot_template_parameters
GetsParameters(own) == Supported(own) \in Scaling /\ own # Cluster

\* A policy is made from the entry of its own type.
TranslatePolicy ==
    /\ Translating /\ Item.isPolicy /\ Steps(Item.type) # {}
    /\ Item.type \in DOMAIN Registered(Item.type)
    /\ Make(Registered(Item.type)[Item.type], GetsParameters(Item.type))
    /\ typeMap' = Registered(Item.type)
    /\ UNCHANGED <<loading, template, count, error, stage>>

\* The exception ends the translation; the map stays as it is.
TranslationFails ==
    /\ Translating
    /\ \/ Steps(Item.type) = {} /\ error' = "UnsupportedTypeError"
       \/ /\ Steps(Item.type) # {} /\ Item.isPolicy
          /\ Item.type \notin DOMAIN Registered(Item.type)
          /\ error' = "KeyError"
    /\ stage' = "idle"
    /\ UNCHANGED <<loading, typeMap, template, made, count>>

EndTranslation ==
    /\ stage = "translating" /\ Len(made) = Len(template)
    /\ stage' = "idle"
    /\ UNCHANGED <<loading, typeMap, template, made, count, error>>

Next ==
    \/ \E m \in Module : LoadClass(m) \/ LoadFails(m)
    \/ NextLocation \/ FinishLoading \/ FinishFails
    \/ BeginTranslation \/ TranslateNode \/ TranslatePolicy
    \/ TranslationFails \/ EndTranslation

Spec == Init /\ [][Next]_vars

-----------------------------------------------------------------------------
(* Properties.                                                             *)

Loaded == stage \in {"idle", "translating"}

\* The types that some module translates.
Base == {ToscaType[m] : m \in Module}

\* A class of the configured directory, the last that is read, takes the
\* place of the class of its type that the translator brings along, in every
\* translation of the process (_load_classes, _generate_type_map).
CustomDecides ==
    Loaded =>
        \A m \in Module : ToscaType[m] \in DOMAIN typeMap
                          /\ Location[m] <= Location[typeMap[ToscaType[m]]]

Nearest(t, class) ==
    \E k \in DOMAIN Ancestors[t] :
        /\ Ancestors[t][k] \in Base /\ ToscaType[class] = Ancestors[t][k]
        /\ \A n \in 1 .. k - 1 : Ancestors[t][n] \notin Base

\* Nodes and policies are translated by a class for the nearest of their
\* types that a module is for, whatever the translations before have written
\* to the map.
NearestDecides ==
    \A k \in DOMAIN made : Nearest(template[k].type, made[k].class)

\* Policies that are to be translated with the parameters of the template.
Scales(t) == Range(Ancestors[t]) \cap Scaling # {} /\ Cluster \notin Range(Ancestors[t])

\* The output "can be deployed by Heat": the nested template of a policy that
\* scales has the parameters that its resources refer to, so the policy gets
\* them wherever in the process it comes.
ParametersGiven ==
    \A k \in DOMAIN made :
        template[k].isPolicy /\ Scales(template[k].type) => made[k].parameters

=============================================================================
