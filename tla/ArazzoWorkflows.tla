---- MODULE ArazzoWorkflows ----
(***************************************************************************)
(* An Arazzo document on its way to the graphs: it is read and normalized, *)
(* the steps of each of its workflows are ordered (dependency-analysis.ts),*)
(* what is wrong with it and how much of it is supported is said           *)
(* (process-arazzo.ts), and the graphs are built of whatever was read      *)
(* (build-declared-flow-graphs.ts), also when there are errors.            *)
(***************************************************************************)
EXTENDS FlowGraphs

CONSTANTS
    Inputs      \* the documents that may be given with their OpenAPI sources

(* What a document or a workflow has of these, it has in an order.         *)
ASSUME InputsAssumption ==
    \A given \in Inputs :
        /\ InOrder(given.sources)
        /\ given.raw # Bad =>
              /\ InOrder(given.raw.workflows)
              /\ \A v \in ToSet(given.raw.workflows) : v # Bad => InOrder(v.steps)

VARIABLES
    raw,        \* the document given
    sources,    \* the OpenAPI sources
    at,         \* the stage
    document,   \* the normalized document
    w,          \* the workflow that is looked at
    i,          \* its step that is looked at
    advanced,   \* whether a step was ordered since the first one was looked at
    order,      \* for each workflow the steps ordered so far
    errors,     \* what is wrong, and in which workflow, 0 for the document
    level,      \* how much is supported: the document, and each workflow
    edges,      \* for each workflow its edges
    between,    \* the edges between operations
    problems,   \* what could not be shown, for each workflow
    graphs      \* the graph of the operations, and one for each workflow

input == <<raw, sources>>
loop == <<w, i, advanced, order>>
verdict == <<errors, level>>
shown == <<edges, between, problems, graphs>>
vars == <<input, at, document, loop, verdict, shown>>

Init ==
    /\ \E given \in Inputs : raw = given.raw /\ sources = given.sources
    /\ at = "read" /\ document = [sources |-> <<>>, self |-> "none", workflows |-> <<>>]
    /\ w = 1 /\ i = 1 /\ advanced = FALSE /\ order = <<>>
    /\ errors = {} /\ level = <<"", <<>>>>
    /\ edges = <<>> /\ between = {} /\ problems = <<>> /\ graphs = <<>>

Workflow == document.workflows[w]
Step_ == Workflow.steps[i]

Read ==
    /\ at = "read"
    /\ IF raw # Bad /\ raw.version = "1.1"
       THEN /\ document' = NormalDocument(raw) /\ at' = "order"
            /\ order' = [v \in DOMAIN document'.workflows |-> <<>>]
       ELSE at' = "refused" /\ UNCHANGED <<document, order>>
    /\ UNCHANGED <<input, w, i, advanced, verdict, shown>>

(* A step is ordered when all that has to be done before it is.            *)
Ready(v, stepId) ==
    /\ stepId \notin ToSet(order[v])
    /\ GraphDependencies(document.workflows[v], stepId) \subseteq ToSet(order[v])

Visit ==
    /\ at = "order" /\ w <= Len(document.workflows) /\ i <= Len(Workflow.steps)
    /\ LET ready == Ready(w, Step_.stepId)
       IN /\ order' = IF ready THEN [order EXCEPT ![w] = Append(@, Step_.stepId)] ELSE order
          /\ advanced' = (advanced \/ ready)
    /\ i' = i + 1
    /\ UNCHANGED <<input, at, document, w, verdict, shown>>

(* Mutant: the steps are looked at again as long as some are left.         *)
MoreToVisit == advanced \/ Cardinality(ToSet(order[w])) < Len(Workflow.steps)

(* Mutant: every step is looked at once.                                   *)
VisitOnce == FALSE

VisitAgain == advanced

Round ==
    /\ at = "order" /\ w <= Len(document.workflows) /\ i > Len(Workflow.steps)
    /\ w' = IF VisitAgain THEN w ELSE w + 1
    /\ i' = 1 /\ advanced' = FALSE
    /\ UNCHANGED <<input, at, document, order, verdict, shown>>

Judge ==
    /\ at = "order" /\ w > Len(document.workflows)
    /\ LET semantic == SemanticErrors(document, order)
       IN /\ level' = <<DocumentLevel(document, semantic),
                        [v \in DOMAIN document.workflows |-> WorkflowLevel(document, semantic, v)]>>
          /\ errors' = semantic \cup
                (({0} \X ReadingErrors(raw)) \cup ({0} \X AddressErrors(document)))
    /\ at' = "connect" /\ w' = 1
    /\ UNCHANGED <<input, document, i, advanced, order, shown>>

(* A node of a step without a name cannot be made: that throws, and with   *)
(* it what was found wrong is gone.                                        *)
Connect ==
    /\ at = "connect" /\ w <= Len(document.workflows)
    /\ IF Workflow.steps # <<>> /\ "" \in {Workflow.workflowId}
                                          \cup {s.stepId : s \in ToSet(Workflow.steps)}
       THEN at' = "thrown" /\ UNCHANGED <<w, edges, between, problems>>
       ELSE /\ edges' = Append(edges, WorkflowEdges(Workflow))
            /\ between' = between \cup OperationEdges(document, sources, Workflow)
            /\ problems' = Append(problems, ProjectionErrors(document, sources, Workflow))
            /\ w' = w + 1 /\ UNCHANGED at
    /\ UNCHANGED <<input, document, i, advanced, order, verdict, graphs>>

Assemble ==
    /\ at = "connect" /\ w > Len(document.workflows)
    /\ graphs' =
         <<Assembled(Endpoints(sources), between \cup UNION {SourceLinks(s) : s \in ToSet(sources)}),
           [v \in DOMAIN document.workflows |->
               Assembled({s.stepId : s \in ToSet(document.workflows[v].steps)}, edges[v])]>>
    /\ at' = "done"
    /\ UNCHANGED <<input, document, loop, verdict, edges, between, problems>>

Next == Read \/ Visit \/ Round \/ Judge \/ Connect \/ Assemble

Spec == Init /\ [][Next]_vars /\ WF_vars(Next)
-----------------------------------------------------------------------------
TypeOK ==
    /\ at \in {"read", "order", "connect", "done", "refused", "thrown"}
    /\ w \in 1 .. Len(document.workflows) + 1 /\ i \in Nat \ {0} /\ advanced \in BOOLEAN
    /\ \A v \in DOMAIN order :
          /\ ToSet(order[v]) \subseteq {s.stepId : s \in ToSet(document.workflows[v].steps)}
          /\ IsInjective(order[v])
    /\ level[1] \in {"", "supported", "preserve-only", "invalid"}

Judged == at \in {"connect", "done"}
Position(v, stepId) == CHOOSE n \in DOMAIN order[v] : order[v][n] = stepId
ErrorFree(v) == ~ \E e \in errors : e[1] \in {0, v}
StepsOf(v) == document.workflows[v].steps

(* A step is never ordered before one that it asks for.                    *)
AskedForComesFirst ==
    \A v \in DOMAIN order : \A n \in DOMAIN order[v] :
        \A j \in DOMAIN StepsOf(v) :
            StepsOf(v)[j].stepId = order[v][n] /\ ~RepeatedSteps(StepsOf(v)) =>
                \A d \in StepsOf(v)[j].dependsOn :
                    IndexOf(document.workflows[v], d) # 0 =>
                        d \in ToSet(order[v]) /\ Position(v, d) < n

(* A cycle is reported exactly when following what steps need one can go   *)
(* around, and then the steps that are ordered are those that need nothing *)
(* of it.                                                                  *)
CycleIsReported ==
    at \in {"connect", "done"} =>
        \A v \in DOMAIN order :
            LET steps == {s.stepId : s \in ToSet(StepsOf(v))}
                needs(x) == GraphDependencies(document.workflows[v], x)
                stuck == UNION {S \in SUBSET steps : \A x \in S : needs(x) \cap S # {}}
            IN /\ <<v, "1009">> \in errors <=> stuck # {}
               /\ ToSet(order[v]) = steps \ stuck

(* In a workflow without errors the step that an edge of data leads to     *)
(* runs after the one it comes from, or it was warned of that.             *)
ReadsFollowWrites ==
    Judged =>
        \A v \in DOMAIN edges : ErrorFree(v) =>
            \A e \in {d \in edges[v] : d.kind = "data"} :
                \/ Position(v, e.from) < Position(v, e.to)
                \/ \E j \in DOMAIN StepsOf(v) : /\ StepsOf(v)[j].stepId = e.to
                                                /\ e.from \in Forward(document.workflows[v], j)

(* Every output that a parameter or a body reads, and that can be shown,   *)
(* is on an edge of the graph of the workflow, with its name; what is not  *)
(* was reported.                                                           *)
EveryReadIsShown ==
    at = "done" =>
        \A v \in DOMAIN edges : \A j \in DOMAIN StepsOf(v) :
            LET step == StepsOf(v)[j]
            IN \A r \in UNION {Uses(leaf[2]) : leaf \in step.body \cup
                                   UNION {p.value : p \in ToSet(step.parameters)}} :
                  \/ \E e \in graphs[2][v].edges :
                        /\ e.kind = "data" /\ e.from = r[1] /\ e.to = step.stepId
                        /\ <<document.workflows[v].workflowId, r[1], r[2]>> \in e.aliases
                  \/ {<<"parameter", step.stepId>>, <<"read", step.stepId, r[1], r[2]>>}
                        \cap problems[v] # {}

(* The graph of the operations and those of the workflows tell the same:   *)
(* between the operations of two steps there is what is between the steps. *)
GraphsAgree ==
    at = "done" =>
        \A v \in DOMAIN edges : \A e \in graphs[2][v].edges :
            LET bound(stepId) == Binding(document, sources, document.workflows[v].workflowId, stepId)
            IN \/ Absent \in {bound(e.from), bound(e.to)}
               \/ \E d \in graphs[1].edges :
                     /\ d.kind = e.kind /\ d.mapping = e.mapping
                     /\ d.from = bound(e.from) /\ d.to = bound(e.to)
                     /\ e.aliases \subseteq d.aliases

(* The report calls a document invalid exactly when what it says is wrong  *)
(* (not how an expression or an address is written), and a workflow too.   *)
ErrorsMakeInvalid ==
    Judged =>
        /\ level[1] = "invalid" <=> \E e \in errors : e[2] \notin {"expression", "1013"}
        /\ \A v \in DOMAIN level[2] :
              (\E e \in errors : e[1] = v /\ e[2] # "1005") =>
                  \/ level[2][v] = "invalid"
                  \/ \E u \in 1 .. v - 1 :
                        document.workflows[u].workflowId = document.workflows[v].workflowId

(* The graphs come to be, or there is a reason.                            *)
ComesToAnEnd == <>(at \in {"done", "refused", "thrown"})

(* What is kept but cannot be run is never reported as if it could, as the *)
(* plan of the Arazzo package says.                                        *)
PreserveOnlyIsReported ==
    Judged /\ level[1] = "supported" =>
        \A v \in DOMAIN document.workflows :
            /\ document.workflows[v].actions \subseteq SupportedActions
            /\ \A s \in ToSet(StepsOf(v)) : s.actions \subseteq SupportedActions

(* The order of the steps is one in which they can be done.                *)
OrderIsRight == TypeOK /\ AskedForComesFirst /\ ReadsFollowWrites

(* What is wrong with a document is reported, and makes it invalid.        *)
ProblemsAreReported == CycleIsReported /\ ErrorsMakeInvalid

(* Both graphs show everything that the steps hand to one another.         *)
GraphsAreWhole == EveryReadIsShown /\ GraphsAgree
====
