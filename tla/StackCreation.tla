---------------------------- MODULE StackCreation ----------------------------
(***************************************************************************)
(* The translation followed by Heat creating the stack of its output.      *)
(* Heat is external: the model has what the translator relies on, that a   *)
(* resource is created after the ones it names under depends_on or by      *)
(* get_resource, and that nothing else orders resources.                   *)
(***************************************************************************)
EXTENDS PropertyPass

VARIABLE created  \* the resources Heat has created

stackVars == <<allVars, created>>

StackInit == PassInit /\ created = {}

Translate == PassNext /\ UNCHANGED created

CreateResource(r) ==
    /\ phase = "done" /\ r \notin created
    /\ References(r) \subseteq created
    /\ created' = created \cup {r}
    /\ UNCHANGED allVars

StackNext == Translate \/ \E r \in Output : CreateResource(r)

\* Heat creates whatever it can; the translator is one running thread.
StackSpec == StackInit /\ [][StackNext]_stackVars /\ WF_stackVars(StackNext)

-----------------------------------------------------------------------------
(* Refinement: a server is up when its resource exists, an operation is     *)
(* complete when its deployment is.                                         *)

Up  == {n \in Node : tpl.kind[n] = "compute" /\ Main(n) \in created}
Ran == UNION {{<<n, op>> : op \in {o \in Declared(n) : OpDeploy(n, o) \in created}} :
                n \in Node}

Orchestrated ==
    INSTANCE Orchestration WITH up <- Up, ran <- Ran, Hosts <- HostsIn

\* The stack of the output runs exactly the operations the template declares:
\* on no schedule of Heat does an operation run before one that precedes it
\* in its node, before the operations of a node it requires, or before its
\* servers, and all of them run.
ImplementsOrchestration == Orchestrated!Spec

\* Heat can create every resource of the output: none waits for itself or for
\* a resource that is not there.
StackCompletes == phase = "done" ~> created = Output

=============================================================================
