---- MODULE WorkflowEditor ----
(***************************************************************************)
(* The workflow editor (apps/web/src/workflow/workflow-editor.tsx) in the  *)
(* workspace that opens and closes it (workspace-shell.tsx): editing the   *)
(* draft, previews and readiness checks that answer when they answer,      *)
(* downloads, and runs in the local mock.                                  *)
(*                                                                         *)
(* The draft and the graph belong to the review session and may be         *)
(* replaced under the editor, by a restored record or a loaded project.    *)
(* The component learns of it by rendering; its effects run after that,    *)
(* though before it handles the next click, and answers can come between.  *)
(* Code that compares drafts and graphs compares object identities: each   *)
(* object made here carries a number of its own.                           *)
(***************************************************************************)
EXTENDS WorkflowExport

CONSTANTS
    BaseId,       \* the step id suggested for an operation, by number
    TypedIds,     \* the step ids a user types
    Loadable,     \* the drafts a stored record or project file can hold
    Graphs,       \* the graphs the review can come to
    NoDraft, NoArtifact, Failure, NoCheck, NoResult, NoRun,
    MaxSteps,     \* 40
    MaxSelected,  \* 200
    MaxObjects,   \* bound on the drafts and graphs made
    MaxRequests,  \* bound on the requests of one editor
    MaxRevision   \* bound on the changes of the mock session

VARIABLES
    draft, graph, made,
    open,       \* whether the editor is mounted
    effects,    \* the changed props whose effects have not run yet
    format, artifact, busy, request,
    previews,   \* preview() calls that wait for the exporter
    check,      \* the readiness check: its timer, then the exporter
    prepared,
    session,    \* the in-memory mock session, which outlives the editor
    shown,      \* sessionSummary
    run         \* runResult

props == <<draft, graph, made>>
preview == <<format, artifact, busy, request, previews>>
mock == <<session, shown, run>>
vars == <<props, open, effects, preview, check, prepared, mock>>

Formats == {"yaml", "json"}

(* parseWorkflowDraft, for what an editor or a file can get wrong.         *)
parseWorkflowDraft(d) ==
    Len(d.steps) <= MaxSteps /\ Cardinality(d.selected) <= MaxSelected

(* In a graph an id names one mapping: the review puts none into a graph   *)
(* twice (OneEdgePerMapping of ReviewSession).                             *)
ASSUME EditorAssumption ==
    /\ BaseId \in [Nodes -> [1 .. MaxSteps -> StepIds]]
    /\ \A n \in Nodes : \A i, j \in 1 .. MaxSteps :
          BaseId[n][i] = BaseId[n][j] => i = j
    /\ TypedIds \subseteq StepIds
    /\ \A d \in Loadable :
          /\ d.named \in BOOLEAN /\ d.steps \in Seq(Steps)
          /\ d.selected \subseteq MappingIds /\ parseWorkflowDraft(d)
    /\ \A g \in Graphs :
          g \subseteq Mappings /\ \A k, l \in g : k.id = l.id => k = l
    /\ {MaxSteps, MaxSelected, MaxObjects, MaxRequests, MaxRevision} \subseteq Nat

Drafts == [ref : 0 .. MaxObjects, named : BOOLEAN, steps : Seq(Steps),
           selected : SUBSET MappingIds]
GraphObjects == [ref : 0 .. MaxObjects, links : Graphs]

DraftObject(d, ref) == [ref |-> ref, named |-> d.named, steps |-> d.steps,
                        selected |-> d.selected]

TypeOK ==
    /\ draft \in Drafts \cup {NoDraft}
    /\ draft # NoDraft => Len(draft.steps) <= MaxSteps
    /\ graph \in GraphObjects
    /\ made \in 0 .. MaxObjects
    /\ open \in BOOLEAN /\ busy \in BOOLEAN
    /\ effects \subseteq {"draft", "graph"}
    /\ format \in Formats
    /\ request \in Nat
    /\ \A p \in previews : p.id \in 1 .. request /\ p.draft \in Drafts
    /\ check # NoCheck => check.phase \in {"timer", "checking"}
    /\ session.nextId \in 1 .. MaxRevision + 1
    /\ session.revision \in 0 .. MaxRevision
    /\ session.entities \subseteq Nodes \X (1 .. MaxRevision)
-----------------------------------------------------------------------------
(* The preview as rendered: the document, or Nothing for diagnostics.      *)
currentArtifact ==
    IF /\ artifact # NoArtifact
       /\ artifact.draft = draft /\ artifact.graph = graph
       /\ artifact.format = format
    THEN artifact.value
    ELSE Failure

(* What the Download button hands out, if it is enabled.                   *)
Offers == open /\ currentArtifact \notin {Nothing, Failure}

Checked == /\ prepared # NoResult
           /\ prepared.draft = draft /\ prepared.graph = graph

currentPlan == IF Checked THEN prepared.plan ELSE NoPlan

(* The user acts on what is rendered; effects run first.                   *)
Ready == open /\ effects = {} /\ draft # NoDraft

Init ==
    /\ made = 0
    /\ draft \in {DraftObject(d, 0) : d \in Loadable} \cup {NoDraft}
    /\ graph \in [ref : {0}, links : Graphs]
    /\ open = FALSE /\ effects = {}
    /\ format = "yaml" /\ artifact = NoArtifact /\ busy = FALSE
    /\ request = 0 /\ previews = {}
    /\ check = NoCheck /\ prepared = NoResult
    /\ session = NewSession /\ shown = summary(session) /\ run = NoRun
-----------------------------------------------------------------------------
(* Mutant: what drops the preview leaves the button busy.                  *)
DropPreviewStillBusy ==
    /\ request' = request + 1
    /\ artifact' = NoArtifact
    /\ UNCHANGED <<busy, format, previews>>

(* A preview in progress is of no interest any more.                       *)
DropPreview ==
    /\ request' = request + 1
    /\ artifact' = NoArtifact
    /\ busy' = FALSE
    /\ UNCHANGED <<format, previews>>

update(next) ==
    /\ made < MaxObjects
    /\ made' = made + 1
    /\ draft' = DraftObject(next, made + 1)
    /\ effects' = effects \cup {"draft"}
    /\ DropPreview
    /\ run' = NoRun
    /\ UNCHANGED <<graph, open, check, prepared, session, shown>>

updateSteps(steps) ==
    update([draft EXCEPT
              !.steps = steps,
              !.selected = {l.id : l \in {k \in validMappings(graph.links, steps) :
                                            k.id \in draft.selected}}])

CreateDraft ==
    /\ open /\ effects = {} /\ draft = NoDraft /\ made < MaxObjects
    /\ made' = made + 1
    /\ draft' = [ref |-> made + 1, named |-> TRUE, steps |-> <<>>,
                 selected |-> {}]
    /\ effects' = {"draft"}
    /\ UNCHANGED <<graph, open, preview, check, prepared, mock>>

(* The workflow ID, the summary and the source URL.                        *)
EditDetails == Ready /\ \E b \in BOOLEAN : update([draft EXCEPT !.named = b])

EditStepId ==
    Ready /\ \E i \in DOMAIN draft.steps, id \in TypedIds :
                updateSteps([draft.steps EXCEPT ![i].id = id])

(* Up from i + 1 or down from i.                                           *)
MoveStep ==
    Ready /\ \E i \in 1 .. Len(draft.steps) - 1 :
                updateSteps([draft.steps EXCEPT ![i] = draft.steps[i + 1],
                                                ![i + 1] = draft.steps[i]])

RemoveStep ==
    Ready /\ \E i \in DOMAIN draft.steps :
                updateSteps(SubSeq(draft.steps, 1, i - 1)
                            \o SubSeq(draft.steps, i + 1, Len(draft.steps)))

Used == {draft.steps[i].id : i \in DOMAIN draft.steps}

FreshId(n) ==
    BaseId[n][CHOOSE k \in 1 .. MaxSteps :
                /\ BaseId[n][k] \notin Used
                /\ \A j \in 1 .. k - 1 : BaseId[n][j] \in Used]

addStep ==
    /\ Ready /\ Len(draft.steps) < MaxSteps
    /\ \E n \in Nodes :
          /\ At(draft.steps, n) = {}
          /\ updateSteps(Append(draft.steps, [id |-> FreshId(n), node |-> n]))

ToggleMapping ==
    Ready /\ \E l \in validMappings(graph.links, draft.steps) :
        update([draft EXCEPT !.selected =
                    IF l.id \in @ THEN @ \ {l.id} ELSE @ \cup {l.id}])

RemoveUnavailable ==
    /\ Ready /\ unavailableMappings(graph.links, draft) # {}
    /\ update([draft EXCEPT !.selected =
                    @ \ unavailableMappings(graph.links, draft)])
-----------------------------------------------------------------------------
ChooseFormat ==
    /\ Ready /\ request < MaxRequests
    /\ \E f \in Formats \ {format} : format' = f
    /\ request' = request + 1
    /\ artifact' = NoArtifact
    /\ busy' = FALSE
    /\ UNCHANGED <<props, open, effects, previews, check, prepared, mock>>

Preview ==
    /\ Ready /\ ~busy /\ request < MaxRequests
    /\ request' = request + 1
    /\ artifact' = NoArtifact
    /\ busy' = TRUE
    /\ previews' = previews \cup
          {[id |-> request + 1, draft |-> draft, graph |-> graph,
            format |-> format]}
    /\ UNCHANGED <<props, open, effects, format, check, prepared, mock>>

(* Mutant: an answer is taken whoever asked.                               *)
AnswerAnyway(p, value) ==
    /\ previews' = previews \ {p}
    /\ artifact' = [value |-> value, draft |-> draft, graph |-> graph,
                    format |-> format]
    /\ busy' = FALSE
    /\ UNCHANGED <<props, open, effects, format, request, check, prepared, mock>>

Answer(p, value) ==
    /\ previews' = previews \ {p}
    /\ IF p.id = request
       THEN /\ artifact' = [value |-> value, draft |-> p.draft,
                            graph |-> p.graph, format |-> p.format]
            /\ busy' = FALSE
       ELSE UNCHANGED <<artifact, busy>>
    /\ UNCHANGED <<props, open, effects, format, request, check, prepared, mock>>

PreviewAnswers ==
    \E p \in previews :
        Answer(p, exportWorkflowDraft(p.graph.links, p.draft))

PreviewFails == \E p \in previews : Answer(p, Failure)
-----------------------------------------------------------------------------
TimerFires ==
    /\ check # NoCheck /\ check.phase = "timer"
    /\ check' = [check EXCEPT !.phase = "checking"]
    /\ UNCHANGED <<props, open, effects, preview, prepared, mock>>

(* Mutant: nothing catches a check that fails, so it leaves no result.     *)
CheckAnswersOnlyWell ==
    /\ check # NoCheck /\ check.phase = "checking"
    /\ check' = NoCheck
    /\ \E plan \in {prepareWorkflowRun(check.graph.links, check.draft), NoPlan} :
          prepared' = IF plan = NoPlan THEN prepared
                      ELSE [draft |-> check.draft, graph |-> check.graph,
                            plan |-> plan]
    /\ UNCHANGED <<props, open, effects, preview, mock>>

CheckAnswers ==
    /\ check # NoCheck /\ check.phase = "checking"
    /\ check' = NoCheck
    /\ \E plan \in {prepareWorkflowRun(check.graph.links, check.draft), NoPlan} :
          prepared' = [draft |-> check.draft, graph |-> check.graph,
                       plan |-> plan]
    /\ UNCHANGED <<props, open, effects, preview, mock>>

(* The effects, in the order of the component, after a cleanup that makes  *)
(* an earlier check count for nothing.                                     *)
RunEffects ==
    /\ effects # {}
    /\ check' = IF draft = NoDraft THEN NoCheck
                ELSE [phase |-> "timer", draft |-> draft, graph |-> graph]
    /\ IF "graph" \in effects THEN DropPreview ELSE UNCHANGED preview
    /\ run' = NoRun
    /\ effects' = {}
    /\ UNCHANGED <<props, open, prepared, session, shown>>

-----------------------------------------------------------------------------
(* The body is no JSON, or a value that may fit the request schema.        *)
runMock ==
    /\ Ready /\ currentPlan # NoPlan /\ session.revision < MaxRevision
    /\ \/ /\ run' = [draft |-> draft, graph |-> graph, entity |-> <<>>]
          /\ UNCHANGED <<session, shown>>
       \/ \E fits \in BOOLEAN :
             LET done == executeLocalMockWorkflow(currentPlan, fits, session)
             IN  /\ session' = done.session
                 /\ run' = [draft |-> draft, graph |-> graph,
                            entity |-> done.entity]
                 /\ shown' = summary(done.session)
    /\ UNCHANGED <<props, open, effects, preview, check, prepared>>

(* Mutant: the trace of the run stays on the screen.                       *)
ResetMockOnly ==
    /\ Ready /\ session.revision < MaxRevision
    /\ session' = reset(session)
    /\ shown' = summary(session')
    /\ UNCHANGED <<props, open, effects, preview, check, prepared, run>>

ResetMock ==
    /\ Ready /\ session.revision < MaxRevision
    /\ session' = reset(session)
    /\ shown' = summary(session')
    /\ run' = NoRun
    /\ UNCHANGED <<props, open, effects, preview, check, prepared>>
-----------------------------------------------------------------------------
(* Mounting starts a new component, unmounting ends it: what answers later *)
(* answers nobody.                                                         *)
Blankly ==
    /\ format' = "yaml" /\ artifact' = NoArtifact /\ busy' = FALSE
    /\ request' = 0 /\ previews' = {}
    /\ check' = NoCheck /\ prepared' = NoResult
    /\ shown' = summary(session) /\ run' = NoRun

Open ==
    /\ ~open
    /\ open' = TRUE /\ effects' = {"draft", "graph"}
    /\ Blankly
    /\ UNCHANGED <<props, session>>

Close ==
    /\ open /\ effects = {}
    /\ open' = FALSE
    /\ Blankly
    /\ UNCHANGED <<props, effects, session>>

(* Decisions are made in the review workspace, in the editor's place.      *)
Review ==
    /\ ~open /\ made < MaxObjects
    /\ made' = made + 1
    /\ \E g \in Graphs : graph' = [ref |-> made + 1, links |-> g]
    /\ UNCHANGED <<draft, open, effects, preview, check, prepared, mock>>

(* restore-decisions: a project is applied or the stored record read again. *)
Restore ==
    /\ made < MaxObjects
    /\ made' = made + 1
    /\ draft' \in {DraftObject(d, made + 1) : d \in Loadable} \cup {NoDraft}
    /\ \E g \in Graphs : graph' = [ref |-> made + 1, links |-> g]
    /\ effects' = IF open THEN {"draft", "graph"} ELSE {}
    /\ UNCHANGED <<open, preview, check, prepared, mock>>

Next ==
    \/ CreateDraft \/ EditDetails \/ EditStepId \/ MoveStep \/ RemoveStep
    \/ addStep \/ ToggleMapping \/ RemoveUnavailable
    \/ ChooseFormat \/ Preview \/ PreviewAnswers \/ PreviewFails
    \/ TimerFires \/ CheckAnswers \/ RunEffects
    \/ runMock \/ ResetMock
    \/ Open \/ Close \/ Review \/ Restore

Spec == Init /\ [][Next]_vars

(* React runs effects, timers fire and promises settle: none of this waits *)
(* for the user.                                                           *)
Fairness ==
    /\ WF_vars(RunEffects)
    /\ WF_vars(TimerFires)
    /\ WF_vars(CheckAnswers)
    /\ WF_vars(PreviewAnswers \/ PreviewFails)

FairSpec == Spec /\ Fairness
-----------------------------------------------------------------------------
(* What can be downloaded or run is what the exporter makes of the draft,  *)
(* the graph and the format on the screen, whichever previews and checks   *)
(* answer late and whatever is restored under the editor                   *)
(* (workflow-editor.tsx:142-153, 271).                                     *)
OfferIsCurrent ==
    /\ Offers => /\ currentArtifact = exportWorkflowDraft(graph.links, draft)
                 /\ artifact.format = format
    /\ currentPlan # NoPlan =>
          currentPlan = prepareWorkflowRun(graph.links, draft)

(* A document on offer binds each selected mapping, accepted in the present *)
(* graph, from an earlier step to a later one; it binds nothing else, and   *)
(* no parameter twice (workflow-export.ts:48-73, mapping-projector.ts).     *)
OfferHoldsTheSelection ==
    Offers =>
        LET steps == currentArtifact
            Binds(i, j, l) ==
                /\ steps[i].node = l.source /\ steps[j].node = l.target
                /\ l.output \in steps[i].outputs
                /\ [parameter |-> l.parameter, output |-> l.output,
                    step |-> steps[i].id] \in steps[j].bindings
        IN  /\ \A id \in draft.selected :
                  \E j \in DOMAIN steps : \E i \in 1 .. j - 1, l \in graph.links :
                      l.id = id /\ Binds(i, j, l)
            /\ \A j \in DOMAIN steps : \A b \in steps[j].bindings :
                  \E i \in 1 .. j - 1, l \in graph.links :
                      /\ l.id \in draft.selected /\ Binds(i, j, l)
                      /\ b = [parameter |-> l.parameter, output |-> l.output,
                              step |-> steps[i].id]
            /\ \A j \in DOMAIN steps : \A b, c \in steps[j].bindings :
                  b.parameter = c.parameter => b = c

(* While a binding is marked as no longer available, nothing can be        *)
(* downloaded and nothing run: what the editor calls unavailable is what   *)
(* the exporter refuses (workflow-editor.tsx:138-141,                      *)
(* workflow-export.ts:50-64).                                              *)
UnavailableBlocks ==
    draft # NoDraft /\ unavailableMappings(graph.links, draft) # {} =>
        ~Offers /\ currentPlan = NoPlan

(* The preview button is busy exactly while the answer it waits for is on  *)
(* its way, so a preview dropped by an edit, a format or a new graph never *)
(* leaves it busy and never frees it early (workflow-editor.tsx:264-297).  *)
BusyMeansPending == busy <=> \E p \in previews : p.id = request

(* A trace on the screen is of this draft and graph, the entity it names   *)
(* is in the mock session, and so is the number of entities shown          *)
(* (workflow-editor.tsx:174-214, 600-606).                                 *)
RunIsOfThis ==
    open =>
        /\ shown = summary(session)
        /\ effects = {} /\ run # NoRun =>
              /\ run.draft = draft /\ run.graph = graph
              /\ run.entity # <<>> => run.entity \in session.entities

(* A preview that was asked for ends, with a document or diagnostics, or   *)
(* is dropped (workflow-editor.tsx:294-296).                               *)
PreviewEnds == busy ~> ~busy

(* "Checking Local Mock readiness" does not stay: whatever replaces the    *)
(* draft or the graph, a check of the present ones comes to its end        *)
(* (workflow-editor.tsx:155-172).                                          *)
ReadinessSettles == []<>(open /\ draft # NoDraft => Checked)

(* What is offered holds what is selected, or nothing is offered.          *)
SelectionIsKept == TypeOK /\ OfferHoldsTheSelection /\ UnavailableBlocks

(* No request of the editor is left hanging.                               *)
RequestsEnd == PreviewEnds /\ ReadinessSettles
====
