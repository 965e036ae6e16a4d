---- MODULE WorkflowExport ----
(***************************************************************************)
(* What a workflow draft becomes: which accepted mappings its steps can    *)
(* use (validMappings of apps/web/src/workflow/workflow-editor.tsx), the   *)
(* Arazzo document made of it (workflow-export.ts and exportArazzo of      *)
(* packages/exporter-arazzo, with the checks of packages/arazzo that its   *)
(* own output can fail), and what the local mock makes of the document     *)
(* (packages/execution, packages/mock-runtime).                            *)
(*                                                                         *)
(* A graph is the set of its accepted data mappings, each a record of the  *)
(* operations it joins, the response value it reads and the parameter or   *)
(* body field it writes.  Texts are reduced to what decides: a step ID is  *)
(* blank, fit for an expression, or not.                                   *)
(***************************************************************************)
EXTENDS Naturals, Sequences, FiniteSets

CONSTANTS
    Nodes,         \* the endpoint nodes of the graph
    MappingIds,    \* edge and mapping ids a draft can name
    Outputs,       \* the values of a response that mappings read
    Parameters,    \* the parameters and body fields that mappings write
    StepIds,
    Blank,         \* the step id of spaces only
    Unquotable,    \* step ids that do not fit into $steps.<id>.outputs
    Unsupported,   \* mappings whose selector, transform or target is not
                   \* exported
    Nothing,       \* no document: diagnostics instead
    ResponseId,    \* the output $response.body#/id
    PathId,        \* the path parameter named id
    MockPairs      \* the pairs of operations assessMockPair has no objection to

ASSUME ExportAssumption ==
    /\ Blank \in StepIds /\ Unquotable \subseteq StepIds
    /\ Unsupported \subseteq MappingIds
    /\ ResponseId \in Outputs /\ PathId \in Parameters
    /\ MockPairs \subseteq Nodes \X Nodes

Mappings == [id : MappingIds, source : Nodes, target : Nodes,
             output : Outputs, parameter : Parameters]
Steps == [id : StepIds, node : Nodes]
-----------------------------------------------------------------------------
At(steps, n) == {i \in DOMAIN steps : steps[i].node = n}

(* Both modules keep, in a Map, the last step of each operation.           *)
Precedes(steps, m, n) ==
    /\ At(steps, m) # {}
    /\ \E j \in At(steps, n) : \A i \in At(steps, m) : i < j

validMappings(graph, steps) ==
    {l \in graph : Precedes(steps, l.source, l.target)}

unavailableMappings(graph, draft) ==
    {id \in draft.selected :
        \A l \in validMappings(graph, draft.steps) : l.id # id}

SelectionsHold(graph, draft) ==
    \A id \in draft.selected :
        \E l \in graph : l.id = id /\ Precedes(draft.steps, l.source, l.target)

(* Mutant: all that could be bound is bound.                               *)
AllOf(graph, draft) == validMappings(graph, draft.steps)

Selected(graph, draft) == {l \in graph : l.id \in draft.selected}

validateArazzoWorkflowPlan(draft) ==
    /\ draft.named
    /\ draft.steps # <<>>
    /\ \A i, j \in DOMAIN draft.steps :
          draft.steps[i].id = draft.steps[j].id => i = j
    /\ \A i \in DOMAIN draft.steps : draft.steps[i].id # Blank

(* No operation bound twice, and no target given two values.               *)
MappingsProject(graph, draft) ==
    \A l \in Selected(graph, draft) :
        /\ l.id \notin Unsupported
        /\ \A i, j \in At(draft.steps, l.source) : i = j
        /\ \A i, j \in At(draft.steps, l.target) : i = j
        /\ \A k \in Selected(graph, draft) :
              k.target = l.target /\ k.parameter = l.parameter
                  => k.source = l.source /\ k.output = l.output

ExpressionsParse(graph, draft) ==
    \A l \in Selected(graph, draft) : \A i \in At(draft.steps, l.source) :
        draft.steps[i].id \notin Unquotable

StepOf(draft, n) == draft.steps[CHOOSE i \in At(draft.steps, n) : TRUE].id

Document(graph, draft) ==
    [i \in DOMAIN draft.steps |->
        LET n == draft.steps[i].node
            into == {l \in Selected(graph, draft) : l.target = n}
        IN  [id |-> draft.steps[i].id, node |-> n,
             outputs |-> {l.output : l \in
                            {k \in Selected(graph, draft) : k.source = n}},
             bindings |-> {[parameter |-> l.parameter, output |-> l.output,
                            step |-> StepOf(draft, l.source)] : l \in into},
             dependsOn |-> {StepOf(draft, l.source) : l \in into}]]

exportWorkflowDraft(graph, draft) ==
    IF /\ SelectionsHold(graph, draft)
       /\ validateArazzoWorkflowPlan(draft)
       /\ MappingsProject(graph, draft)
       /\ ExpressionsParse(graph, draft)
    THEN Document(graph, draft)
    ELSE Nothing
-----------------------------------------------------------------------------
(* The operations to run, create before read; nothing when not ready.      *)
NoPlan == <<>>

(* A POST and a GET that fit, joined by the id alone.                      *)
PreparesMock(document) ==
    /\ document # Nothing
    /\ Len(document) = 2
    /\ <<document[1].node, document[2].node>> \in MockPairs
    /\ document[1].outputs = {ResponseId}
    /\ document[2].bindings = {[parameter |-> PathId, output |-> ResponseId,
                                step |-> document[1].id]}
    /\ document[2].dependsOn = {document[1].id}

prepareWorkflowRun(graph, draft) ==
    LET document == exportWorkflowDraft(graph, draft)
    IN  IF PreparesMock(document)
        THEN <<document[1].node, document[2].node>>
        ELSE NoPlan

(* The in-memory session: entities by collection and id.  The collection   *)
(* is that of the create operation; assessMockPair has seen to it that the *)
(* read operation looks into the same one.                                 *)
NewSession == [entities |-> {}, nextId |-> 1, revision |-> 0]

reset(s) == [entities |-> {}, nextId |-> 1, revision |-> s.revision + 1]

create(s, n) ==
    [entities |-> s.entities \cup {<<n, s.nextId>>},
     nextId |-> s.nextId + 1, revision |-> s.revision + 1]

(* A body that does not fit the request schema is refused before anything  *)
(* is created; what was created is found again by its id.                  *)
executeLocalMockWorkflow(plan, fits, s) ==
    IF fits
    THEN [session |-> create(s, plan[1]), entity |-> <<plan[1], s.nextId>>]
    ELSE [session |-> s, entity |-> <<>>]

summary(s) == [count |-> Cardinality(s.entities), revision |-> s.revision]
====
