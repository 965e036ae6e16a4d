---- MODULE ArazzoDocument ----
(***************************************************************************)
(* An Arazzo document (packages/arazzo/src): what is kept of it, what is   *)
(* wrong with it and how much of it is supported.                          *)
(*                                                                         *)
(* A value is the set of its leaves: a leaf is the place in the value and  *)
(* the string that is there, as in RuntimeExpressions; a value that is a   *)
(* string has one leaf at the place <<>>.                                  *)
(***************************************************************************)
EXTENDS LinkProjection

HasExpression(pieces) ==
    \/ Len(pieces) = 1 /\ pieces[1] # <<>> /\ pieces[1][1] \in Dollars
    \/ \E i \in 1 .. Len(pieces) - 1 :
          pieces[i] = Opening /\ pieces[i + 1] # <<>> /\ pieces[i + 1][1] \in Dollars

Misread(pieces) == HasExpression(pieces) /\ Template(pieces).kind = "invalid"

Literal == [kind |-> "literal", segments |-> <<>>]

NormalText(pieces) ==
    IF HasExpression(pieces) /\ ~Misread(pieces) THEN Template(pieces) ELSE Literal

NormalValue(leaves) == {<<leaf[1], NormalText(leaf[2])>> : leaf \in leaves}

(* What is not an object is left out.                                      *)
WithEntry(kept, entry) == IF entry = Bad THEN kept ELSE Append(kept, entry)
Objects(entries) == FoldLeft(WithEntry, <<>>, entries)

NormalParameters(raw) ==
    LET kept == Objects(raw)
    IN [i \in DOMAIN kept |-> [kept[i] EXCEPT !.value = NormalValue(@)]]

TargetKinds == <<"operationId", "operationPath", "workflowId", "channelPath">>

NormalTargets(targets) ==
    LET given == SelectSeq(TargetKinds, LAMBDA k : k \in DOMAIN targets)
    IN [i \in DOMAIN given |-> <<given[i], targets[given[i]]>>]

(* The conditions of criteria are not read for expressions.                *)
NormalStep(step) ==
    [stepId |-> step.stepId, targets |-> NormalTargets(step.targets),
     parameters |-> NormalParameters(step.parameters), body |-> NormalValue(step.body),
     outputs |-> [n \in DOMAIN step.outputs |-> NormalValue(step.outputs[n])],
     dependsOn |-> step.dependsOn \ {Bad}, criteria |-> step.criteria \ {Bad},
     actions |-> step.actions \ {Bad}, preserved |-> step.preserved]

NormalWorkflow(workflow) ==
    LET steps == Objects(workflow.steps)
    IN [workflowId |-> workflow.workflowId, parameters |-> NormalParameters(workflow.parameters),
        steps |-> [i \in DOMAIN steps |-> NormalStep(steps[i])],
        actions |-> workflow.actions \ {Bad}, preserved |-> workflow.preserved]

NormalDocument(raw) ==
    LET workflows == Objects(raw.workflows)
    IN [sources |-> Objects(raw.sources), self |-> raw.self,
        workflows |-> [w \in DOMAIN workflows |-> NormalWorkflow(workflows[w])]]

(* A string that looks like an expression and is none.                     *)
ReadingErrors(raw) ==
    LET workflows == ToSet(raw.workflows) \ {Bad}
        steps == UNION {ToSet(v.steps) \ {Bad} : v \in workflows}
        parameters == UNION {ToSet(x.parameters) \ {Bad} : x \in steps \cup workflows}
        leaves == (UNION {p.value : p \in parameters})
                  \cup (UNION {s.body : s \in steps})
                  \cup (UNION {UNION {s.outputs[n] : n \in DOMAIN s.outputs} : s \in steps})
    IN IF \E leaf \in leaves : Misread(leaf[2]) THEN {"expression"} ELSE {}

(* The sources are found from the address of the document, or from the one *)
(* it gives itself, which may not point into a document.                   *)
AddressErrors(document) ==
    IF document.self = "fragment" \/ \E s \in ToSet(document.sources) : s.url = Bad
    THEN {"1013"} ELSE {}
-----------------------------------------------------------------------------
Uses(template) ==
    {<<e.scope, e.name>> : e \in {x \in ToSet(template.segments) : x.kind = "step-output"}}

References(step) ==
    UNION {Uses(leaf[2]) : leaf \in step.body
                                    \cup (UNION {p.value : p \in ToSet(step.parameters)})
                                    \cup (UNION {step.outputs[n] : n \in DOMAIN step.outputs})}

Implicit(step) == {r[1] : r \in References(step)}
AllDependencies(step) == step.dependsOn \cup Implicit(step)

(* The first step of a name, 0 if there is none.                           *)
IndexOf(workflow, stepId) ==
    LET at == {i \in DOMAIN workflow.steps : workflow.steps[i].stepId = stepId}
    IN IF at = {} THEN 0 ELSE Min(at)

Missing(workflow, i) ==
    {d \in AllDependencies(workflow.steps[i]) : IndexOf(workflow, d) = 0}
Forward(workflow, i) == {d \in AllDependencies(workflow.steps[i]) : IndexOf(workflow, d) > i}

(* Mutant: a step that was asked for may come later too.                   *)
AnyForward(workflow, stepId) ==
    LET i == Max({j \in DOMAIN workflow.steps : workflow.steps[j].stepId = stepId})
    IN {d \in AllDependencies(workflow.steps[i]) :
          IndexOf(workflow, d) # 0 /\ d \notin Forward(workflow, i)}

(* What has to be done before a step: what it asks for, and what it reads, *)
(* except from a step that comes later.  Of steps of the same name the     *)
(* last one counts.                                                        *)
GraphDependencies(workflow, stepId) ==
    LET i == Max({j \in DOMAIN workflow.steps : workflow.steps[j].stepId = stepId})
        step == workflow.steps[i]
    IN {d \in step.dependsOn : IndexOf(workflow, d) # 0}
       \cup {d \in Implicit(step) : IndexOf(workflow, d) # 0 /\ d \notin Forward(workflow, i)}

NoSuchOutput(workflow, i) ==
    {r \in References(workflow.steps[i]) :
        /\ IndexOf(workflow, r[1]) # 0
        /\ r[2] \notin DOMAIN workflow.steps[IndexOf(workflow, r[1])].outputs}

Repeated(keys) == \E i \in DOMAIN keys, j \in DOMAIN keys : i < j /\ keys[i] = keys[j]
RepeatedParameters(parameters) ==
    Repeated([i \in DOMAIN parameters |-> ParameterKey(parameters[i])])
RepeatedSteps(steps) == Repeated([i \in DOMAIN steps |-> steps[i].stepId])

(* What is wrong with a workflow of which some steps could be ordered.     *)
WorkflowErrors(workflow, order) ==
    LET some(P(_)) == \E i \in DOMAIN workflow.steps : P(i)
        error(holds, code) == IF holds THEN {code} ELSE {}
    IN error(\/ RepeatedParameters(workflow.parameters)
             \/ some(LAMBDA i : RepeatedParameters(workflow.steps[i].parameters)), "1017")
       \cup error(RepeatedSteps(workflow.steps), "1006")
       \cup error(some(LAMBDA i : Len(workflow.steps[i].targets) # 1), "1007")
       \cup error(some(LAMBDA i : Missing(workflow, i) # {}), "1008")
       \cup error(some(LAMBDA i : NoSuchOutput(workflow, i) # {}), "1011")
       \cup error(some(LAMBDA i : workflow.steps[i].stepId \notin ToSet(order)), "1009")

(* The workflow an error is in, 0 for the document.                        *)
SemanticErrors(document, order) ==
    (IF Repeated([i \in DOMAIN document.sources |-> document.sources[i].name]) THEN {<<0, "1004">>} ELSE {})
    \cup {<<w, "1005">> : w \in {v \in DOMAIN document.workflows : \E u \in 1 .. v - 1 :
             document.workflows[u].workflowId = document.workflows[v].workflowId}}
    \cup UNION {{<<w, code>> : code \in WorkflowErrors(document.workflows[w], order[w])} :
                   w \in DOMAIN document.workflows}
-----------------------------------------------------------------------------
SupportedActions == {"", "retry", "end"}

(* What of a workflow is kept and cannot be run.                           *)
PreserveOnly(workflow) ==
    \/ workflow.preserved # {}
    \/ \E s \in ToSet(workflow.steps) :
          \/ \E t \in ToSet(s.targets) : t[1] \in {"workflowId", "channelPath"}
          \/ ~ s.criteria \subseteq {"", "simple"} \/ ~ s.actions \subseteq SupportedActions
          \/ s.preserved # {}

(* An error belongs to a workflow when its place begins with the place of  *)
(* the workflow, as strings: workflow 1 also has the errors of workflow 10.*)
BeginsWith(index, other) ==
    index = other \/ (index > 0 /\ \E power \in {10, 100} : other \div power = index)

(* Of workflows of the same name the first one is looked at.               *)
WorkflowLevel(document, errors, w) ==
    LET first == Min({v \in DOMAIN document.workflows :
                         document.workflows[v].workflowId = document.workflows[w].workflowId})
    IN CASE \E e \in errors : e[1] > 0 /\ BeginsWith(first - 1, e[1] - 1) -> "invalid"
         [] OTHER -> IF PreserveOnly(document.workflows[w]) THEN "preserve-only" ELSE "supported"

DocumentLevel(document, errors) ==
    CASE errors # {} -> "invalid"
      [] errors = {} /\ (\/ \E s \in ToSet(document.sources) : s.type # "openapi" \/ s.preserved # {}
                         \/ \E w \in ToSet(document.workflows) : PreserveOnly(w)) -> "preserve-only"
      [] OTHER -> "supported"
====
