---- MODULE FlowGraphs ----
(***************************************************************************)
(* The graphs that declared workflows make: which operation a step calls   *)
(* (operation-resolution.ts of packages/arazzo), the edges between steps   *)
(* and between operations, and the graph put together of them              *)
(* (arazzo-workflow-projector.ts, arazzo-value-projector.ts and            *)
(* graph-assembler.ts of packages/flow).                                   *)
(*                                                                         *)
(* An OpenAPI source is a record of its id, its name and its normalized    *)
(* document; the name of an operation in a step is <<id>> or               *)
(* <<source, id>>, its path <<source, key>>.                               *)
(***************************************************************************)
EXTENDS ArazzoDocument

(* The sources a document can mean.                                        *)
Available(document, sources) ==
    {i \in DOMAIN sources : sources[i].name \in {d.name : d \in ToSet(document.sources)}}

Unbound(status) == [status |-> status, name |-> Absent, operation |-> Absent]

(* What is found among some of the sources: one operation or none.         *)
Found(sources, among, field, value) ==
    LET candidates == UNION {{<<i, o>> : o \in {p \in sources[i].document.operations :
                                                  p[field] = value}} : i \in among}
    IN CASE candidates = {} -> Unbound("missing")
         [] Cardinality(candidates) > 1 -> Unbound("ambiguous")
         [] OTHER -> LET c == CHOOSE x \in candidates : TRUE
                     IN [status |-> "resolved", name |-> sources[c[1]].name, operation |-> c[2].id]

(* The first source of a name.                                             *)
OfName(sources, among, name) ==
    {i \in among : /\ sources[i].name = name
                   /\ \A j \in among : sources[j].name = name => i <= j}

Resolution(document, sources, target) ==
    LET available == Available(document, sources)
        what == target[2]
    IN CASE target[1] = "operationId" /\ Len(what) = 1 ->
              Found(sources, available, "operationId", what[1])
         [] target[1] = "operationId" /\ Len(what) = 2 ->
              Found(sources, OfName(sources, available, what[1]), "operationId", what[2])
         [] target[1] = "operationPath" ->
              IF Len(what) = 2
              THEN Found(sources, OfName(sources, available, what[1]), "id", what[2])
              ELSE Unbound("missing")
         [] OTHER -> Unbound("preserve-only")

(* Of all the targets of steps of the same names the first one counts.     *)
StepResolution(document, sources, workflowId, stepId) ==
    LET workflows == SelectSeq(document.workflows, LAMBDA w : w.workflowId = workflowId)
        steps == SelectSeq(FlattenSeq([w \in DOMAIN workflows |-> workflows[w].steps]),
                           LAMBDA s : s.stepId = stepId /\ s.targets # <<>>)
    IN IF steps = <<>> THEN Unbound("missing")
       ELSE Resolution(document, sources, steps[1].targets[1])

(* The operation of a step; two sources of one name leave it without.      *)
Binding(document, sources, workflowId, stepId) ==
    LET found == StepResolution(document, sources, workflowId, stepId)
        named == {i \in DOMAIN sources : sources[i].name = found.name}
    IN IF found.status = "resolved" /\ Cardinality(named) = 1
       THEN <<sources[CHOOSE i \in named : TRUE].id, found.operation>> ELSE Absent
-----------------------------------------------------------------------------
Edge(kind, from, to, mapping, alias) ==
    [kind |-> kind, from |-> from, to |-> to, mapping |-> mapping, alias |-> alias]
NoMapping == [source |-> NoSelector, target |-> NoSelector, around |-> <<>>]
NoAlias == <<>>

ControlEdges(workflow) ==
    {Edge("control", workflow.steps[i - 1].stepId, workflow.steps[i].stepId, NoMapping, NoAlias) :
        i \in 2 .. Len(workflow.steps)}

DependencyEdges(workflow) ==
    UNION {{Edge("dependency", d, workflow.steps[i].stepId, NoMapping, NoAlias) :
               d \in {e \in workflow.steps[i].dependsOn : IndexOf(workflow, e) # 0}} :
              i \in DOMAIN workflow.steps}

(* Mutant: a read with text around it is not seen.                         *)
WholeReads(template, target) ==
    {[step |-> use[1], output |-> use[2], target |-> target, around |-> <<>>] :
        use \in {u \in Uses(template) : template.kind = "expression"}}

(* The reads in a leaf, with the text around them.                         *)
Reads(template, target) ==
    {[step |-> use[1], output |-> use[2], target |-> target,
      around |-> IF template.kind = "template" THEN template.segments ELSE <<>>] :
        use \in Uses(template)}

ParameterReads(step) ==
    UNION {UNION {Reads(leaf[2], TargetOf(p)) : leaf \in p.value} :
              p \in {q \in ToSet(step.parameters) : q.location \in Locations}}
BodyReads(step) == UNION {Reads(leaf[2], <<"request-body", leaf[1]>>) : leaf \in step.body}
StepReads(step) == ParameterReads(step) \cup BodyReads(step)

Misdirected(step) ==
    \E p \in ToSet(step.parameters) :
        p.location \notin Locations /\ \E leaf \in p.value : Uses(leaf[2]) # {}

(* What an output is as one value; one that has parts is none.             *)
Output(workflow, stepId, name) ==
    LET i == IndexOf(workflow, stepId)
        whole == IF i = 0 THEN {}
                 ELSE IF name \notin DOMAIN workflow.steps[i].outputs THEN {}
                 ELSE {leaf \in workflow.steps[i].outputs[name] : leaf[1] = <<>>}
    IN IF whole = {} THEN [selector |-> NoSelector, around |-> <<>>]
       ELSE LET template == (CHOOSE leaf \in whole : TRUE)[2]
                value == Projection(template)
            IN [selector |-> value.selector,
                around |-> IF value.wrapped THEN template.segments ELSE <<>>]

(* A read makes a mapping unless there is text around both the output and  *)
(* the read of it.                                                         *)
Mappable(workflow, read) ==
    LET output == Output(workflow, read.step, read.output)
    IN output.selector # NoSelector /\ (output.around = <<>> \/ read.around = <<>>)

ReadMapping(workflow, read) ==
    LET output == Output(workflow, read.step, read.output)
    IN [source |-> output.selector, target |-> read.target,
        around |-> IF read.around # <<>> THEN read.around ELSE output.around]

DataEdges(workflow) ==
    UNION {{Edge("data", read.step, workflow.steps[i].stepId, ReadMapping(workflow, read),
                 <<workflow.workflowId, read.step, read.output>>) :
               read \in {r \in StepReads(workflow.steps[i]) : Mappable(workflow, r)}} :
           i \in DOMAIN workflow.steps}

WorkflowEdges(workflow) ==
    ControlEdges(workflow) \cup DependencyEdges(workflow) \cup DataEdges(workflow)

(* The same edges between the operations of the steps that have one.       *)
OperationEdges(document, sources, workflow) ==
    LET binding(stepId) == Binding(document, sources, workflow.workflowId, stepId)
    IN {Edge(e.kind, binding(e.from), binding(e.to), e.mapping, e.alias) :
           e \in {d \in WorkflowEdges(workflow) : Absent \notin {binding(d.from), binding(d.to)}}}

ProjectionErrors(document, sources, workflow) ==
    UNION {LET step == workflow.steps[i]
               status == StepResolution(document, sources, workflow.workflowId, step.stepId).status
           IN (IF status = "resolved" THEN {} ELSE {<<status, step.stepId>>})
              \cup {<<"reference", step.stepId, d>> :
                       d \in {e \in step.dependsOn : IndexOf(workflow, e) = 0}}
              \cup (IF Misdirected(step) THEN {<<"parameter", step.stepId>>} ELSE {})
              \cup {<<"read", step.stepId, r.step, r.output>> :
                       r \in {q \in StepReads(step) : ~Mappable(workflow, q)}} :
           i \in DOMAIN workflow.steps}
-----------------------------------------------------------------------------
(* Edges that are the same but for where they come from are one.           *)
Assembled(nodes, edges) ==
    LET valid == {e \in edges : e.from \in nodes /\ e.to \in nodes}
    IN [nodes |-> nodes,
        edges |-> {[kind |-> e.kind, from |-> e.from, to |-> e.to, mapping |-> e.mapping,
                    aliases |-> {d.alias : d \in {c \in valid : c.kind = e.kind
                        /\ c.from = e.from /\ c.to = e.to /\ c.mapping = e.mapping}} \ {NoAlias}] :
                      e \in valid}]

Endpoints(sources) ==
    UNION {{<<s.id, o.id>> : o \in s.document.operations} : s \in ToSet(sources)}

(* The links of a source as edges of single mappings between its nodes.    *)
SourceLinks(s) ==
    UNION {{Edge("data", <<s.id, e.from>>, <<s.id, e.to>>,
                 [source |-> m.source, target |-> m.target, around |-> <<>>], NoAlias) :
               m \in e.mappings} :
              e \in LinkEdges(s.document)}
====
