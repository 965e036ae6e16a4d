---- MODULE EditorProofs ----
(***************************************************************************)
(* Proofs about the two editors.  First the workflow editor: what it       *)
(* offers, shows as busy and shows of a run, for any graphs, drafts,       *)
(* numbers of steps and of edits.                                          *)
(*                                                                         *)
(* The properties are not inductive.  What is: a preview or a check that   *)
(* has answered carries what it was made of and is the exporter's answer   *)
(* to just that; requests have numbers of their own, none above the        *)
(* counter; and a trace is of the present draft unless effects are due.    *)
(* That what is offered holds the selection is a lemma about the exporter, *)
(* DocumentHoldsTheSelection, and the shape of drafts under every edit.    *)
(*                                                                         *)
(* Then the mapping editor, for any documents: its fields have stars where *)
(* an index is asked for and no token else is one, so that just one field  *)
(* fits what is given out; and the panel comes wherever the dialog's walk  *)
(* came, after as many lists.  And the walk that reaches the end of a way  *)
(* knows what it met there: whether each name on it is asked for, whether  *)
(* anything is only read or only written, whether anything may be null.    *)
(***************************************************************************)
EXTENDS WorkflowEditor, MappingEditor, FoldProofs, TLAPS

AnswersAreTrue ==
    /\ artifact # NoArtifact =>
          artifact.value \in {Failure, exportWorkflowDraft(artifact.graph.links,
                                                           artifact.draft)}
    /\ prepared # NoResult =>
          prepared.plan \in {NoPlan, prepareWorkflowRun(prepared.graph.links,
                                                        prepared.draft)}

RequestsAreNumbered ==
    /\ request \in Nat
    /\ \A p \in previews : p.id \in Nat /\ p.id <= request
    /\ \A p, q \in previews : p.id = q.id => p = q

RunIsRecent ==
    /\ shown = summary(session)
    /\ run # NoRun =>
          /\ effects = {} => open /\ run.draft = draft /\ run.graph = graph
          /\ run.entity # <<>> => run.entity \in session.entities
    /\ ~open => run = NoRun

IInv ==
    /\ AnswersAreTrue
    /\ RequestsAreNumbered
    /\ BusyMeansPending
    /\ RunIsRecent

(* The invariant gives the three properties.                               *)
LEMMA InvariantGivesProperties ==
    IInv => OfferIsCurrent /\ BusyMeansPending /\ RunIsOfThis
<1>1. ASSUME AnswersAreTrue PROVE OfferIsCurrent
    BY <1>1 DEF AnswersAreTrue, OfferIsCurrent, Offers, currentArtifact,
               currentPlan, Checked
<1>2. ASSUME RunIsRecent PROVE RunIsOfThis
    BY <1>2 DEF RunIsRecent, RunIsOfThis
<1> QED BY <1>1, <1>2 DEF IInv

(* It holds of the workspace as it is loaded.                              *)
LEMMA InitInvariant == Init => IInv
    BY DEF Init, IInv, AnswersAreTrue, RequestsAreNumbered, BusyMeansPending,
           RunIsRecent

(* Whatever drops the preview keeps the numbering.                         *)
LEMMA DropPreviewKeepsRequests ==
    ASSUME RequestsAreNumbered, BusyMeansPending, DropPreview
    PROVE  RequestsAreNumbered' /\ BusyMeansPending'
    BY DEF RequestsAreNumbered, BusyMeansPending, DropPreview

(* Every way of editing the draft ends in update().                        *)
Edits == \/ EditDetails \/ EditStepId \/ MoveStep \/ RemoveStep \/ addStep
         \/ ToggleMapping \/ RemoveUnavailable

(* The handlers of the form and of the step list call update, with some    *)
(* next draft.                                                             *)
LEMMA EditsUpdate == Edits => \E next : update(next)
<1>1. \A steps : updateSteps(steps) => \E next : update(next)
    BY DEF updateSteps
<1>2. EditDetails => \E next : update(next)
    BY DEF EditDetails
<1>3. EditStepId \/ MoveStep \/ RemoveStep \/ addStep => \E next : update(next)
    BY <1>1 DEF EditStepId, MoveStep, RemoveStep, addStep
<1>4. ToggleMapping => \E next : update(next)
    BY DEF ToggleMapping
<1>5. RemoveUnavailable => \E next : update(next)
    BY DEF RemoveUnavailable
<1> QED BY <1>2, <1>3, <1>4, <1>5 DEF Edits

(* An edit of the draft keeps the invariant.                               *)
LEMMA UpdateKeeps ==
    ASSUME IInv, NEW next, update(next)
    PROVE  IInv'
<1>1. AnswersAreTrue'
    BY DEF IInv, AnswersAreTrue, update, DropPreview
<1>2. RequestsAreNumbered' /\ BusyMeansPending'
    BY DropPreviewKeepsRequests DEF IInv, update
<1>3. RunIsRecent'
    BY DEF IInv, RunIsRecent, update
<1> QED BY <1>1, <1>2, <1>3 DEF IInv

(* A click on Validate and preview keeps the invariant.                    *)
LEMMA PreviewKeeps ==
    ASSUME IInv, Preview
    PROVE  IInv'
<1>1. AnswersAreTrue'
    BY DEF IInv, AnswersAreTrue, Preview
<1>2. RequestsAreNumbered' /\ BusyMeansPending'
    <2> DEFINE new == [id |-> request + 1, draft |-> draft, graph |-> graph,
                       format |-> format]
    <2>1. /\ request' = request + 1 /\ busy' = TRUE
          /\ previews' = previews \cup {new}
        BY DEF Preview
    <2>2. new.id = request + 1
        OBVIOUS
    <2> HIDE DEF new
    <2>3. RequestsAreNumbered'
        BY <2>1, <2>2 DEF IInv, RequestsAreNumbered
    <2>4. BusyMeansPending'
        BY <2>1, <2>2 DEF BusyMeansPending
    <2> QED BY <2>3, <2>4
<1>3. RunIsRecent'
    BY DEF IInv, RunIsRecent, Preview, props, mock
<1> QED BY <1>1, <1>2, <1>3 DEF IInv

(* So does the answer to a preview, with the document of what it was asked *)
(* for or with a failure, late or in time.                                 *)
LEMMA AnswerKeeps ==
    ASSUME IInv, NEW p \in previews, NEW value, Answer(p, value),
           value \in {Failure, exportWorkflowDraft(p.graph.links, p.draft)}
    PROVE  IInv'
<1>1. AnswersAreTrue'
    <2>1. prepared' = prepared
        BY DEF Answer
    <2>2. CASE p.id = request
        <3>1. artifact' = [value |-> value, draft |-> p.draft,
                           graph |-> p.graph, format |-> p.format]
            BY <2>2 DEF Answer
        <3>2. /\ artifact'.value = value /\ artifact'.draft = p.draft
              /\ artifact'.graph = p.graph
            BY <3>1
        <3> QED BY <2>1, <3>2 DEF IInv, AnswersAreTrue
    <2>3. CASE p.id # request
        BY <2>1, <2>3 DEF IInv, AnswersAreTrue, Answer
    <2> QED BY <2>2, <2>3
<1>2. RequestsAreNumbered' /\ BusyMeansPending'
    BY DEF IInv, RequestsAreNumbered, BusyMeansPending, Answer
<1>3. RunIsRecent'
    BY DEF IInv, RunIsRecent, Answer, props, mock
<1> QED BY <1>1, <1>2, <1>3 DEF IInv

(* The end of a readiness check keeps the invariant.                       *)
LEMMA CheckAnswersKeeps ==
    ASSUME IInv, CheckAnswers
    PROVE  IInv'
<1>1. AnswersAreTrue'
    <2>1. PICK plan \in {prepareWorkflowRun(check.graph.links, check.draft), NoPlan} :
              prepared' = [draft |-> check.draft, graph |-> check.graph,
                           plan |-> plan]
        BY DEF CheckAnswers
    <2>2. /\ prepared'.plan = plan /\ prepared'.draft = check.draft
          /\ prepared'.graph = check.graph
        BY <2>1
    <2>3. artifact' = artifact
        BY DEF CheckAnswers, preview
    <2> QED BY <2>2, <2>3 DEF IInv, AnswersAreTrue
<1>2. RequestsAreNumbered' /\ BusyMeansPending'
    BY DEF IInv, RequestsAreNumbered, BusyMeansPending, CheckAnswers, preview
<1>3. RunIsRecent'
    BY DEF IInv, RunIsRecent, CheckAnswers, props, mock
<1> QED BY <1>1, <1>2, <1>3 DEF IInv

(* The effects keep the invariant.                                         *)
LEMMA RunEffectsKeeps ==
    ASSUME IInv, RunEffects
    PROVE  IInv'
<1>1. AnswersAreTrue'
    BY DEF IInv, AnswersAreTrue, RunEffects, DropPreview, preview
<1>2. RequestsAreNumbered' /\ BusyMeansPending'
    <2>1. CASE "graph" \in effects
        BY <2>1, DropPreviewKeepsRequests DEF IInv, RunEffects
    <2>2. CASE "graph" \notin effects
        BY <2>2 DEF IInv, RequestsAreNumbered, BusyMeansPending, RunEffects, preview
    <2> QED BY <2>1, <2>2
<1>3. RunIsRecent'
    BY DEF IInv, RunIsRecent, RunEffects
<1> QED BY <1>1, <1>2, <1>3 DEF IInv

(* A run in the mock, whatever the body, keeps the invariant.              *)
LEMMA RunMockKeeps ==
    ASSUME IInv, runMock
    PROVE  IInv'
<1>1. AnswersAreTrue' /\ RequestsAreNumbered' /\ BusyMeansPending'
    BY DEF IInv, AnswersAreTrue, RequestsAreNumbered, BusyMeansPending,
           runMock, preview
<1>2. RunIsRecent'
    <2>1. open' /\ draft' = draft /\ graph' = graph
        BY DEF runMock, Ready, props
    <2>2. CASE /\ run' = [draft |-> draft, graph |-> graph, entity |-> <<>>]
               /\ UNCHANGED <<session, shown>>
        <3>1. /\ run'.draft = draft /\ run'.graph = graph
              /\ run'.entity = <<>>
            BY <2>2
        <3>2. shown' = summary(session)'
            BY <2>2 DEF summary, IInv, RunIsRecent
        <3> QED BY <2>1, <3>1, <3>2 DEF RunIsRecent
    <2>3. ASSUME NEW fits \in BOOLEAN, NEW done,
                 done = executeLocalMockWorkflow(currentPlan, fits, session),
                 session' = done.session, shown' = summary(done.session),
                 run' = [draft |-> draft, graph |-> graph,
                         entity |-> done.entity]
          PROVE  RunIsRecent'
        <3>1. /\ run'.draft = draft /\ run'.graph = graph
              /\ run'.entity = done.entity
            BY <2>3
        <3>2. done.entity # <<>> => done.entity \in done.session.entities
            BY <2>3 DEF executeLocalMockWorkflow, create
        <3>3. shown' = summary(session)'
            BY <2>3 DEF summary
        <3> QED BY <2>1, <2>3, <3>1, <3>2, <3>3 DEF RunIsRecent
    <2> QED BY <2>2, <2>3 DEF runMock
<1> QED BY <1>1, <1>2 DEF IInv

(* Opening and closing the editor keep the invariant.                      *)
LEMMA MountingKeeps ==
    ASSUME IInv, Open \/ Close
    PROVE  IInv'
<1>1. Blankly /\ UNCHANGED session
    BY DEF Open, Close
<1>2. AnswersAreTrue' /\ RequestsAreNumbered' /\ BusyMeansPending'
    BY <1>1 DEF Blankly, AnswersAreTrue, RequestsAreNumbered, BusyMeansPending
<1>3. RunIsRecent'
    BY <1>1 DEF Blankly, RunIsRecent, summary
<1> QED BY <1>2, <1>3 DEF IInv

(* So do the steps that touch neither preview nor run.                     *)
LEMMA OthersKeep ==
    ASSUME IInv, CreateDraft \/ ChooseFormat \/ TimerFires \/ ResetMock
                 \/ Review \/ Restore
    PROVE  IInv'
<1>1. CASE CreateDraft
    BY <1>1 DEF IInv, AnswersAreTrue, RequestsAreNumbered, BusyMeansPending,
               RunIsRecent, CreateDraft, preview, mock
<1>2. CASE ChooseFormat
    BY <1>2 DEF IInv, AnswersAreTrue, RequestsAreNumbered, BusyMeansPending,
               RunIsRecent, ChooseFormat, props, mock
<1>3. CASE TimerFires
    BY <1>3 DEF IInv, AnswersAreTrue, RequestsAreNumbered, BusyMeansPending,
               RunIsRecent, TimerFires, props, preview, mock
<1>4. CASE ResetMock
    <2>1. shown' = summary(session)'
        BY <1>4 DEF ResetMock, summary
    <2> QED
        BY <1>4, <2>1 DEF IInv, AnswersAreTrue, RequestsAreNumbered,
                   BusyMeansPending, RunIsRecent, ResetMock, preview
<1>5. CASE Review
    BY <1>5 DEF IInv, AnswersAreTrue, RequestsAreNumbered, BusyMeansPending,
               RunIsRecent, Review, preview, mock
<1>6. CASE Restore
    <2>1. AnswersAreTrue' /\ RequestsAreNumbered' /\ BusyMeansPending'
        BY <1>6 DEF IInv, AnswersAreTrue, RequestsAreNumbered,
                    BusyMeansPending, Restore, preview
    <2>2. open => effects' # {}
        BY <1>6 DEF Restore
    <2>3. RunIsRecent'
        BY <1>6, <2>2 DEF IInv, RunIsRecent, Restore, mock
    <2> QED BY <2>1, <2>3 DEF IInv
<1> QED BY <1>1, <1>2, <1>3, <1>4, <1>5, <1>6

(* Every step keeps the invariant.                                         *)
LEMMA NextKeeps == IInv /\ [Next]_vars => IInv'
<1> SUFFICES ASSUME IInv, [Next]_vars PROVE IInv'
    OBVIOUS
<1>1. CASE Edits
    BY <1>1, EditsUpdate, UpdateKeeps
<1>2. CASE Preview
    BY <1>2, PreviewKeeps
<1>3. CASE PreviewAnswers \/ PreviewFails
    BY <1>3, AnswerKeeps DEF PreviewAnswers, PreviewFails
<1>4. CASE CheckAnswers
    BY <1>4, CheckAnswersKeeps
<1>5. CASE RunEffects
    BY <1>5, RunEffectsKeeps
<1>6. CASE runMock
    BY <1>6, RunMockKeeps
<1>7. CASE Open \/ Close
    BY <1>7, MountingKeeps
<1>8. CASE CreateDraft \/ ChooseFormat \/ TimerFires \/ ResetMock
           \/ Review \/ Restore
    BY <1>8, OthersKeep
<1>9. CASE UNCHANGED vars
    BY <1>9 DEF vars, props, preview, mock, IInv, AnswersAreTrue,
               RequestsAreNumbered, BusyMeansPending, RunIsRecent
<1> QED
    BY <1>1, <1>2, <1>3, <1>4, <1>5, <1>6, <1>7, <1>8, <1>9 DEF Next, Edits

(* The strengthening is an invariant of the editor.                        *)
THEOREM EditorInvariant == Spec => []IInv
    BY InitInvariant, NextKeeps, PTL DEF Spec

(* What can be downloaded or run is what the exporter makes of the draft   *)
(* and the graph on the screen, however late the answers come.             *)
THEOREM OfferAlwaysCurrent == Spec => []OfferIsCurrent
<1>1. IInv => OfferIsCurrent
    BY InvariantGivesProperties
<1> QED BY <1>1, EditorInvariant, PTL

(* The preview button is busy exactly while its own answer is awaited.     *)
THEOREM BusyAlwaysPending == Spec => []BusyMeansPending
<1>1. IInv => BusyMeansPending
    BY DEF IInv
<1> QED BY <1>1, EditorInvariant, PTL

(* A trace on the screen is of the present draft and graph and names an    *)
(* entity of the mock session.                                             *)
THEOREM RunAlwaysOfThis == Spec => []RunIsOfThis
<1>1. IInv => RunIsOfThis
    BY InvariantGivesProperties
<1> QED BY <1>1, EditorInvariant, PTL
-----------------------------------------------------------------------------
(* What is on offer holds the selection.  The argument about documents is  *)
(* one about the exporter alone; what it takes of the editor is that the   *)
(* draft of a preview is a draft, for which every handler must keep the    *)
(* shape of drafts.                                                        *)
Binds(doc, i, j, l) ==
    /\ doc[i].node = l.source /\ doc[j].node = l.target
    /\ l.output \in doc[i].outputs
    /\ [parameter |-> l.parameter, output |-> l.output,
        step |-> doc[i].id] \in doc[j].bindings

Holds(doc, links, d) ==
    /\ \A id \in d.selected :
          \E j \in DOMAIN doc : \E i \in 1 .. j - 1, l \in links :
              l.id = id /\ Binds(doc, i, j, l)
    /\ \A j \in DOMAIN doc : \A b \in doc[j].bindings :
          \E i \in 1 .. j - 1, l \in links :
              /\ l.id \in d.selected /\ Binds(doc, i, j, l)
              /\ b = [parameter |-> l.parameter, output |-> l.output,
                      step |-> doc[i].id]
    /\ \A j \in DOMAIN doc : \A b, c \in doc[j].bindings :
          b.parameter = c.parameter => b = c

(* A document the exporter makes holds what the draft selects.             *)
LEMMA DocumentHoldsTheSelection ==
    ASSUME NEW G \in Graphs, NEW d \in Drafts,
           exportWorkflowDraft(G, d) # Nothing
    PROVE  Holds(exportWorkflowDraft(G, d), G, d)
<1> DEFINE S == d.steps
           doc == exportWorkflowDraft(G, d)
           B(l) == [parameter |-> l.parameter, output |-> l.output,
                    step |-> StepOf(d, l.source)]
<1>1. /\ doc = Document(G, d) /\ SelectionsHold(G, d)
      /\ MappingsProject(G, d)
    BY DEF exportWorkflowDraft
<1>2. S \in Seq(Steps) /\ DOMAIN S = 1 .. Len(S) /\ Len(S) \in Nat
    BY DEF Drafts
<1>3. /\ DOMAIN doc = DOMAIN S
      /\ \A j \in DOMAIN S :
            /\ doc[j].id = S[j].id /\ doc[j].node = S[j].node
            /\ doc[j].outputs = {l.output : l \in {k \in Selected(G, d) :
                                                      k.source = S[j].node}}
            /\ doc[j].bindings = {B(l) : l \in {k \in Selected(G, d) :
                                                   k.target = S[j].node}}
    BY <1>1 DEF Document
<1> HIDE DEF doc
<1>4. ASSUME NEW l \in Selected(G, d)
      PROVE  \E j \in DOMAIN S : \E i \in 1 .. j - 1 :
                 /\ S[i].node = l.source /\ S[j].node = l.target
                 /\ \A n \in DOMAIN S : S[n].node = l.target => n = j
                 /\ B(l) = [parameter |-> l.parameter, output |-> l.output,
                            step |-> S[i].id]
    <2>1. l \in G /\ l.id \in d.selected
        BY DEF Selected
    <2>2. Precedes(S, l.source, l.target)
        <3>1. PICK k \in G : k.id = l.id /\ Precedes(S, k.source, k.target)
            BY <1>1, <2>1 DEF SelectionsHold
        <3>2. k = l
            BY <2>1, <3>1, EditorAssumption
        <3> QED BY <3>1, <3>2
    <2>3. PICK j \in At(S, l.target) : \A i \in At(S, l.source) : i < j
        BY <2>2 DEF Precedes
    <2>4. PICK i \in At(S, l.source) : TRUE
        BY <2>2 DEF Precedes
    <2>5. /\ j \in DOMAIN S /\ i \in 1 .. j - 1
          /\ S[i].node = l.source /\ S[j].node = l.target
        BY <1>2, <2>3, <2>4 DEF At
    <2>6. \A n \in DOMAIN S : S[n].node = l.target => n = j
        BY <1>1 DEF MappingsProject, At
    <2>7. StepOf(d, l.source) = S[i].id
        BY <1>1, <2>4 DEF MappingsProject, StepOf
    <2> QED BY <2>5, <2>6, <2>7
<1>5. ASSUME NEW l \in Selected(G, d), NEW j \in DOMAIN S, NEW i \in 1 .. j - 1,
             S[i].node = l.source, S[j].node = l.target,
             B(l) = [parameter |-> l.parameter, output |-> l.output, step |-> S[i].id]
      PROVE  Binds(doc, i, j, l)
    <2>1. i \in DOMAIN S
        BY <1>2
    <2>2. l.output \in doc[i].outputs
        BY <1>3, <1>5, <2>1
    <2>3. B(l) \in doc[j].bindings
        BY <1>3, <1>5
    <2> QED BY <1>3, <1>5, <2>1, <2>2, <2>3 DEF Binds
<1>6. ASSUME NEW id \in d.selected
      PROVE  \E j \in DOMAIN doc : \E i \in 1 .. j - 1, l \in G :
                 l.id = id /\ Binds(doc, i, j, l)
    <2>1. PICK l \in Selected(G, d) : l \in G /\ l.id = id
        BY <1>1 DEF SelectionsHold, Selected
    <2> QED BY <1>3, <1>4, <1>5, <2>1
<1>7. ASSUME NEW j \in DOMAIN doc, NEW b \in doc[j].bindings
      PROVE  \E i \in 1 .. j - 1, l \in G :
                 /\ l.id \in d.selected /\ Binds(doc, i, j, l)
                 /\ b = [parameter |-> l.parameter, output |-> l.output,
                         step |-> doc[i].id]
    <2>1. PICK l \in Selected(G, d) : l.target = S[j].node /\ b = B(l)
        BY <1>3
    <2>2. PICK i \in 1 .. j - 1 :
              /\ S[i].node = l.source
              /\ B(l) = [parameter |-> l.parameter, output |-> l.output,
                         step |-> S[i].id]
        BY <1>3, <1>4, <2>1
    <2>3. Binds(doc, i, j, l)
        BY <1>3, <1>5, <2>1, <2>2
    <2>4. doc[i].id = S[i].id
        BY <1>2, <1>3
    <2>5. l \in G /\ l.id \in d.selected
        BY DEF Selected
    <2> QED BY <2>1, <2>2, <2>3, <2>4, <2>5
<1>8. ASSUME NEW j \in DOMAIN doc, NEW b \in doc[j].bindings,
             NEW c \in doc[j].bindings, b.parameter = c.parameter
      PROVE  b = c
    <2>1. PICK k \in Selected(G, d) : k.target = S[j].node /\ b = B(k)
        BY <1>3
    <2>2. PICK l \in Selected(G, d) : l.target = S[j].node /\ c = B(l)
        BY <1>3
    <2>3. k.target = l.target /\ k.parameter = l.parameter
        BY <1>8, <2>1, <2>2
    <2>4. k.source = l.source /\ k.output = l.output
        BY <1>1, <2>3 DEF MappingsProject
    <2> QED BY <2>1, <2>2, <2>3, <2>4
<1> QED BY <1>6, <1>7, <1>8 DEF Holds, doc
-----------------------------------------------------------------------------
Checks == [phase : {"timer", "checking"}, draft : Drafts, graph : GraphObjects]

(* The types are inductive with those of what has been asked and answered, *)
(* and with the numbers of the mock session bounded by its revision.       *)
DraftTyped ==
    /\ draft \in Drafts \cup {NoDraft}
    /\ draft # NoDraft => Len(draft.steps) <= MaxSteps
    /\ graph \in GraphObjects
    /\ made \in 0 .. MaxObjects

PreviewsTyped ==
    /\ request \in Nat
    /\ \A p \in previews : p.id \in 1 .. request /\ p.draft \in Drafts
    /\ artifact # NoArtifact => artifact.draft \in Drafts

ScreenTyped ==
    /\ open \in BOOLEAN /\ busy \in BOOLEAN
    /\ effects \subseteq {"draft", "graph"}
    /\ format \in Formats
    /\ check \in Checks \cup {NoCheck}

SessionTyped ==
    /\ session.nextId \in 1 .. MaxRevision + 1
    /\ session.revision \in 0 .. MaxRevision
    /\ session.nextId <= session.revision + 1
    /\ session.entities \subseteq Nodes \X (1 .. MaxRevision)

Typed == DraftTyped /\ PreviewsTyped /\ ScreenTyped /\ SessionTyped

LEMMA TypedIsTypeOK == Typed => TypeOK
    BY DEF Typed, DraftTyped, PreviewsTyped, ScreenTyped, SessionTyped, TypeOK, Checks

Sizes == /\ MaxSteps \in Nat /\ MaxObjects \in Nat /\ MaxRevision \in Nat
         /\ \A d \in Drafts : d.steps \in Seq(Steps) /\ Len(d.steps) \in Nat
         /\ \A g \in GraphObjects : g.links \in Graphs

LEMMA SizesHold == Sizes
    BY EditorAssumption DEF Sizes, Drafts, GraphObjects

(* What can be made into a draft.                                          *)
Draftable(d) ==
    /\ d.named \in BOOLEAN
    /\ d.steps \in Seq(Steps) /\ Len(d.steps) <= MaxSteps
    /\ d.selected \subseteq MappingIds

LEMMA ObjectIsDraft ==
    ASSUME NEW d, Draftable(d), NEW ref \in 0 .. MaxObjects
    PROVE  DraftObject(d, ref) \in Drafts /\ Len(DraftObject(d, ref).steps) <= MaxSteps
    BY DEF Draftable, DraftObject, Drafts

LEMMA LoadableIsDraftable == \A d \in Loadable : Draftable(d)
    BY EditorAssumption DEF Draftable, parseWorkflowDraft

LEMMA TypedInit == Init => Typed
<1> SUFFICES ASSUME Init PROVE Typed
    OBVIOUS
<1>1. 0 \in 0 .. MaxObjects /\ Sizes
    BY SizesHold DEF Sizes
<1>2. DraftTyped
    <2>1. draft # NoDraft => draft \in Drafts /\ Len(draft.steps) <= MaxSteps
        BY <1>1, ObjectIsDraft, LoadableIsDraftable DEF Init
    <2>2. graph \in GraphObjects
        BY <1>1 DEF Init, GraphObjects
    <2> QED BY <1>1, <2>1, <2>2 DEF Init, DraftTyped
<1>3. SessionTyped
    <2>1. session.nextId = 1 /\ session.revision = 0 /\ session.entities = {}
        BY DEF Init, NewSession
    <2> QED BY <1>1, <2>1 DEF SessionTyped, Sizes
<1>4. PreviewsTyped
    BY DEF Init, PreviewsTyped
<1>5. ScreenTyped
    BY DEF Init, ScreenTyped, Formats
<1> QED BY <1>2, <1>3, <1>4, <1>5 DEF Typed

(* An edit keeps the shape of the draft if what it makes of it has it.     *)
LEMMA UpdateKeepsTypes ==
    ASSUME Typed, NEW next, update(next), Draftable(next)
    PROVE  Typed'
<1>1. Sizes
    BY SizesHold
<1>2. DraftTyped'
    <2>1. made + 1 \in 0 .. MaxObjects
        BY <1>1 DEF Typed, DraftTyped, update, Sizes
    <2>2. draft' \in Drafts /\ Len(draft'.steps) <= MaxSteps
        BY <2>1, ObjectIsDraft DEF update
    <2> QED BY <2>1, <2>2 DEF Typed, DraftTyped, update
<1>3. PreviewsTyped'
    <2>1. request' = request + 1 /\ previews' = previews /\ artifact' = NoArtifact
        BY DEF update, DropPreview
    <2> QED BY <2>1 DEF Typed, PreviewsTyped
<1>4. ScreenTyped'
    BY DEF Typed, ScreenTyped, update, DropPreview
<1>5. SessionTyped'
    BY DEF Typed, SessionTyped, update
<1> QED BY <1>2, <1>3, <1>4, <1>5 DEF Typed

(* A set of numbers has a least one: of the intervals up to its members    *)
(* one contains no other.                                                  *)
LEMMA LeastNumber ==
    ASSUME NEW S \in SUBSET Nat, S # {}
    PROVE  \E k \in S : \A j \in S : k <= j
<1> DEFINE T == {0 .. k : k \in S}
<1>1. IsWellFoundedOn(StrictSubsetOrdering(Nat), FiniteSubsetsOf(Nat))
    BY FS_StrictSubsetOrderingWellFounded
<1>2. T \subseteq FiniteSubsetsOf(Nat)
    <2> SUFFICES ASSUME NEW k \in S PROVE 0 .. k \in FiniteSubsetsOf(Nat)
        OBVIOUS
    <2>1. IsFiniteSet(0 .. k)
        BY FS_Interval
    <2> QED BY <2>1 DEF FiniteSubsetsOf
<1>3. T # {}
    OBVIOUS
<1> HIDE DEF T
<1>4. PICK x \in T : \A y \in T : <<y, x>> \notin StrictSubsetOrdering(Nat)
    BY <1>1, <1>2, <1>3, WFMin
<1> USE DEF T
<1>5. PICK k \in S : x = 0 .. k
    BY <1>4
<1>6. ASSUME NEW j \in S PROVE k <= j
    <2> SUFFICES ASSUME j < k PROVE FALSE
        OBVIOUS
    <2>1. 0 .. j \subseteq 0 .. k /\ k \in 0 .. k /\ k \notin 0 .. j
        OBVIOUS
    <2>2. <<0 .. j, 0 .. k>> \in StrictSubsetOrdering(Nat)
        BY <2>1 DEF StrictSubsetOrdering
    <2> QED BY <1>4, <1>5, <2>2
<1> QED BY <1>6

(* The number that FreshId looks for exists: fewer steps are there than    *)
(* the operation has ids.                                                  *)
LEMMA FreshIdExists ==
    ASSUME Typed, Ready, Len(draft.steps) < MaxSteps, NEW n \in Nodes
    PROVE  FreshId(n) \in StepIds
<1> DEFINE D == 1 .. MaxSteps
           U == 1 .. Len(draft.steps)
           Free == {k \in D : BaseId[n][k] \notin Used}
<1>1. /\ MaxSteps \in Nat /\ draft \in Drafts /\ Len(draft.steps) \in Nat
      /\ DOMAIN draft.steps = U
    BY SizesHold DEF Sizes, Typed, DraftTyped, Ready, Drafts
<1>2. \A k \in D : BaseId[n][k] \in StepIds
    BY EditorAssumption
<1>3. \A i, j \in D : BaseId[n][i] = BaseId[n][j] => i = j
    BY EditorAssumption
<1>4. Free # {}
    <2> SUFFICES ASSUME \A k \in D : BaseId[n][k] \in Used PROVE FALSE
        OBVIOUS
    <2> DEFINE at == [k \in D |-> CHOOSE i \in U : draft.steps[i].id = BaseId[n][k]]
    <2>1. \A k \in D : at[k] \in U /\ draft.steps[at[k]].id = BaseId[n][k]
        BY <1>1 DEF Used
    <2>2. \A i, j \in D : at[i] = at[j] => i = j
        BY <1>3, <2>1
    <2>3. at \in [D -> U]
        BY <2>1
    <2>4. /\ IsFiniteSet(D) /\ Cardinality(D) = MaxSteps
          /\ IsFiniteSet(U) /\ Cardinality(U) = Len(draft.steps)
        BY <1>1, FS_Interval
    <2> HIDE DEF at, D, U
    <2>5. \E i, j \in D : i # j /\ at[i] = at[j]
        BY <2>3, <2>4, FS_PigeonHole
    <2> QED BY <2>2, <2>5
<1>5. PICK k \in Free : \A j \in Free : k <= j
    <2>1. Free \in SUBSET Nat
        BY <1>1
    <2> HIDE DEF Free
    <2> QED BY <1>4, <2>1, LeastNumber
<1>6. k \in D /\ BaseId[n][k] \notin Used /\ \A j \in 1 .. k - 1 : BaseId[n][j] \in Used
    BY <1>1, <1>5
<1> QED BY <1>2, <1>6 DEF FreshId

(* An edit of the step list: bindings that no longer go from an earlier to *)
(* a later step are dropped.                                               *)
LEMMA StepsKeepTypes ==
    ASSUME Typed, Ready, NEW steps \in Seq(Steps), Len(steps) <= MaxSteps,
           updateSteps(steps)
    PROVE  Typed'
<1> DEFINE kept == {l.id : l \in {k \in validMappings(graph.links, steps) :
                                     k.id \in draft.selected}}
           next == [draft EXCEPT !.steps = steps, !.selected = kept]
<1>1. draft \in Drafts
    BY DEF Typed, DraftTyped, Ready
<1>2. kept \subseteq MappingIds
    BY <1>1 DEF Drafts
<1> HIDE DEF kept
<1>3. next.named = draft.named /\ next.steps = steps /\ next.selected = kept
    BY <1>1 DEF Drafts
<1>4. Draftable(next)
    BY <1>1, <1>2, <1>3 DEF Draftable, Drafts
<1>5. update(next)
    BY DEF updateSteps, kept
<1> QED BY <1>4, <1>5, UpdateKeepsTypes

LEMMA EditsKeepTypes ==
    ASSUME Typed, Edits
    PROVE  Typed'
<1> DEFINE S == draft.steps
<1>1. Ready
    BY DEF Edits, EditDetails, EditStepId, MoveStep, RemoveStep, addStep, ToggleMapping,
           RemoveUnavailable
<1>2. /\ draft \in Drafts /\ S \in Seq(Steps) /\ Len(S) \in Nat /\ Len(S) <= MaxSteps
      /\ MaxSteps \in Nat /\ DOMAIN S = 1 .. Len(S)
      /\ draft.named \in BOOLEAN /\ draft.selected \subseteq MappingIds
    BY <1>1, SizesHold DEF Typed, DraftTyped, Ready, Drafts, Sizes
<1>3. \A i \in 1 .. Len(S) : S[i] \in Steps
    BY <1>2
<1>4. graph.links \subseteq Mappings
    BY SizesHold, EditorAssumption DEF Sizes, Typed, DraftTyped
<1>5. CASE EditDetails
    <2>1. PICK b \in BOOLEAN : update([draft EXCEPT !.named = b])
        BY <1>5 DEF EditDetails
    <2>2. Draftable([draft EXCEPT !.named = b])
        BY <1>2 DEF Draftable, Drafts
    <2> QED BY <2>1, <2>2, UpdateKeepsTypes
<1>6. CASE EditStepId
    <2>1. PICK i \in DOMAIN S, id \in TypedIds : updateSteps([S EXCEPT ![i].id = id])
        BY <1>6 DEF EditStepId
    <2> DEFINE step == [S[i] EXCEPT !.id = id]
    <2>2. step \in Steps
        BY <1>2, <1>3, EditorAssumption DEF Steps
    <2>3. updateSteps([S EXCEPT ![i] = step])
        BY <2>1
    <2> HIDE DEF step
    <2>4. [S EXCEPT ![i] = step] \in Seq(Steps) /\ Len([S EXCEPT ![i] = step]) = Len(S)
        BY <1>2, <2>2
    <2> QED BY <1>1, <1>2, <2>3, <2>4, StepsKeepTypes
<1>7. CASE MoveStep
    <2>1. PICK i \in 1 .. Len(S) - 1 :
              updateSteps([S EXCEPT ![i] = S[i + 1], ![i + 1] = S[i]])
        BY <1>7 DEF MoveStep
    <2> DEFINE T == [S EXCEPT ![i] = S[i + 1], ![i + 1] = S[i]]
    <2>2. T \in Seq(Steps) /\ Len(T) = Len(S)
        BY <1>2, <1>3
    <2> QED BY <1>1, <1>2, <2>1, <2>2, StepsKeepTypes
<1>8. CASE RemoveStep
    <2>1. PICK i \in DOMAIN S :
              updateSteps(SubSeq(S, 1, i - 1) \o SubSeq(S, i + 1, Len(S)))
        BY <1>8 DEF RemoveStep
    <2> DEFINE before == SubSeq(S, 1, i - 1)
               after == SubSeq(S, i + 1, Len(S))
    <2>2. before \in Seq(Steps) /\ Len(before) = i - 1
        BY <1>2, <1>3
    <2>3. after \in Seq(Steps) /\ Len(after) = Len(S) - i
        BY <1>2, <1>3
    <2> HIDE DEF before, after
    <2>4. /\ before \o after \in Seq(Steps)
          /\ Len(before \o after) = Len(before) + Len(after)
        BY <2>2, <2>3
    <2>5. updateSteps(before \o after)
        BY <2>1 DEF before, after
    <2>6. Len(before \o after) <= MaxSteps
        BY <1>2, <2>2, <2>3, <2>4
    <2> QED BY <1>1, <2>4, <2>5, <2>6, StepsKeepTypes
<1>9. CASE addStep
    <2>1. PICK n \in Nodes : updateSteps(Append(S, [id |-> FreshId(n), node |-> n]))
        BY <1>9 DEF addStep
    <2>2. Len(S) < MaxSteps
        BY <1>9 DEF addStep
    <2>3. FreshId(n) \in StepIds
        BY <1>1, <2>2, FreshIdExists
    <2> DEFINE step == [id |-> FreshId(n), node |-> n]
    <2>4. step \in Steps
        BY <2>3 DEF Steps
    <2>5. updateSteps(Append(S, step))
        BY <2>1
    <2> HIDE DEF step
    <2>6. Append(S, step) \in Seq(Steps) /\ Len(Append(S, step)) = Len(S) + 1
        BY <1>2, <2>4
    <2>7. Len(Append(S, step)) <= MaxSteps
        BY <1>2, <2>2, <2>6
    <2> QED BY <1>1, <2>5, <2>6, <2>7, StepsKeepTypes
<1>10. CASE ToggleMapping
    <2>1. PICK l \in validMappings(graph.links, S) :
              update([draft EXCEPT !.selected =
                          IF l.id \in @ THEN @ \ {l.id} ELSE @ \cup {l.id}])
        BY <1>10 DEF ToggleMapping
    <2>2. l.id \in MappingIds
        BY <1>4 DEF validMappings, Mappings
    <2> DEFINE next(T) == [draft EXCEPT !.selected = T]
    <2>3. ASSUME NEW T, T \subseteq MappingIds PROVE Draftable(next(T))
        BY <1>2, <2>3 DEF Draftable, Drafts
    <2>4. CASE l.id \in draft.selected
        <3>1. update(next(draft.selected \ {l.id}))
            BY <2>1, <2>4
        <3> QED BY <1>2, <2>3, <3>1, UpdateKeepsTypes
    <2>5. CASE l.id \notin draft.selected
        <3>1. update(next(draft.selected \cup {l.id}))
            BY <2>1, <2>5
        <3> QED BY <1>2, <2>2, <2>3, <3>1, UpdateKeepsTypes
    <2> QED BY <2>4, <2>5
<1>11. CASE RemoveUnavailable
    <2> DEFINE rest == draft.selected \ unavailableMappings(graph.links, draft)
    <2>1. update([draft EXCEPT !.selected = rest])
        BY <1>11 DEF RemoveUnavailable
    <2>2. Draftable([draft EXCEPT !.selected = rest])
        BY <1>2 DEF Draftable, Drafts
    <2> QED BY <2>1, <2>2, UpdateKeepsTypes
<1> QED BY <1>5, <1>6, <1>7, <1>8, <1>9, <1>10, <1>11 DEF Edits

(* What a run creates is an entity of an operation, with the next number.  *)
LEMMA RunMockKeepsTypes ==
    ASSUME Typed, IInv, runMock
    PROVE  Typed'
<1>1. DraftTyped' /\ PreviewsTyped' /\ ScreenTyped'
    BY DEF Typed, DraftTyped, PreviewsTyped, ScreenTyped, runMock, props, preview
<1>2. MaxRevision \in Nat /\ session.revision < MaxRevision
    BY SizesHold DEF Sizes, runMock
<1>3. /\ session.nextId \in 1 .. MaxRevision + 1 /\ session.revision \in 0 .. MaxRevision
      /\ session.nextId <= session.revision + 1
      /\ session.entities \subseteq Nodes \X (1 .. MaxRevision)
    BY DEF Typed, SessionTyped
<1>4. currentPlan[1] \in Nodes
    <2>1. currentPlan # NoPlan /\ currentPlan = prepareWorkflowRun(graph.links, draft)
        BY InvariantGivesProperties DEF runMock, OfferIsCurrent
    <2> DEFINE doc == exportWorkflowDraft(graph.links, draft)
    <2>2. PreparesMock(doc) /\ currentPlan = <<doc[1].node, doc[2].node>>
        BY <2>1 DEF prepareWorkflowRun
    <2> HIDE DEF doc
    <2>3. <<doc[1].node, doc[2].node>> \in Nodes \X Nodes
        BY <2>2, ExportAssumption DEF PreparesMock
    <2> QED BY <2>2, <2>3
<1>5. CASE UNCHANGED session
    BY <1>1, <1>5 DEF Typed, SessionTyped
<1>6. CASE session' = create(session, currentPlan[1])
    <2>1. /\ session'.entities = session.entities \cup {<<currentPlan[1], session.nextId>>}
          /\ session'.nextId = session.nextId + 1
          /\ session'.revision = session.revision + 1
        BY <1>6 DEF create
    <2>2. session.nextId \in 1 .. MaxRevision
        BY <1>2, <1>3
    <2>3. session'.entities \subseteq Nodes \X (1 .. MaxRevision)
        BY <1>3, <1>4, <2>1, <2>2
    <2>4. SessionTyped'
        BY <1>2, <1>3, <2>1, <2>2, <2>3 DEF SessionTyped
    <2> QED BY <1>1, <2>4 DEF Typed
<1> QED BY <1>5, <1>6 DEF runMock, executeLocalMockWorkflow

LEMMA PreviewKeepsTypes ==
    ASSUME Typed, Preview
    PROVE  Typed'
<1> DEFINE new == [id |-> request + 1, draft |-> draft, graph |-> graph, format |-> format]
<1>1. DraftTyped' /\ SessionTyped' /\ ScreenTyped'
    BY DEF Typed, DraftTyped, SessionTyped, ScreenTyped, Preview, props, mock
<1>2. draft \in Drafts /\ request \in Nat
    BY DEF Typed, DraftTyped, PreviewsTyped, Preview, Ready
<1>3. new.id = request + 1 /\ new.draft = draft
    OBVIOUS
<1>4. /\ request' = request + 1 /\ artifact' = NoArtifact
      /\ previews' = previews \cup {new}
    BY DEF Preview
<1> HIDE DEF new
<1>5. PreviewsTyped'
    BY <1>2, <1>3, <1>4 DEF Typed, PreviewsTyped
<1> QED BY <1>1, <1>5 DEF Typed

LEMMA AnswerKeepsTypes ==
    ASSUME Typed, NEW p \in previews, NEW value, Answer(p, value)
    PROVE  Typed'
<1>1. DraftTyped' /\ SessionTyped' /\ ScreenTyped'
    BY DEF Typed, DraftTyped, SessionTyped, ScreenTyped, Answer, props, mock
<1>2. p.draft \in Drafts
    BY DEF Typed, PreviewsTyped
<1>3. artifact' # NoArtifact => artifact'.draft \in Drafts
    <2>1. CASE p.id = request
        <3>1. artifact' = [value |-> value, draft |-> p.draft,
                           graph |-> p.graph, format |-> p.format]
            BY <2>1 DEF Answer
        <3> QED BY <1>2, <3>1
    <2>2. CASE p.id # request
        BY <2>2 DEF Answer, Typed, PreviewsTyped
    <2> QED BY <2>1, <2>2
<1>4. PreviewsTyped'
    BY <1>3 DEF Typed, PreviewsTyped, Answer
<1> QED BY <1>1, <1>4 DEF Typed

(* The check, its timer and the effects.                                   *)
LEMMA ChecksKeepTypes ==
    ASSUME Typed, TimerFires \/ CheckAnswers \/ RunEffects
    PROVE  Typed'
<1>1. DraftTyped' /\ SessionTyped'
    BY DEF Typed, DraftTyped, SessionTyped, TimerFires, CheckAnswers, RunEffects, props, mock
<1>2. PreviewsTyped'
    <2>1. CASE UNCHANGED preview
        BY <2>1 DEF Typed, PreviewsTyped, preview
    <2>2. CASE DropPreview
        BY <2>2 DEF Typed, PreviewsTyped, DropPreview
    <2> QED BY <2>1, <2>2 DEF TimerFires, CheckAnswers, RunEffects
<1>3. CASE TimerFires
    <2>1. check \in Checks
        BY <1>3 DEF Typed, ScreenTyped, TimerFires
    <2>2. [check EXCEPT !.phase = "checking"] \in Checks
        BY <2>1 DEF Checks
    <2>3. ScreenTyped'
        BY <1>3, <2>2 DEF Typed, ScreenTyped, TimerFires, preview
    <2> QED BY <1>1, <1>2, <2>3 DEF Typed
<1>4. CASE CheckAnswers
    BY <1>1, <1>2, <1>4 DEF Typed, ScreenTyped, CheckAnswers, preview
<1>5. CASE RunEffects
    <2>1. check' \in Checks \cup {NoCheck}
        BY <1>5 DEF Typed, DraftTyped, Checks, RunEffects
    <2>2. busy' \in BOOLEAN /\ format' \in Formats
        BY <1>5 DEF Typed, ScreenTyped, RunEffects, DropPreview, preview
    <2>3. ScreenTyped'
        BY <1>5, <2>1, <2>2 DEF Typed, ScreenTyped, RunEffects
    <2> QED BY <1>1, <1>2, <2>3 DEF Typed
<1> QED BY <1>3, <1>4, <1>5

(* A new draft or graph under the editor, from the review or from a file.  *)
LEMMA ReplacingKeepsTypes ==
    ASSUME Typed, CreateDraft \/ Review \/ Restore
    PROVE  Typed'
<1>1. SessionTyped' /\ PreviewsTyped'
    BY DEF Typed, SessionTyped, PreviewsTyped, CreateDraft, Review, Restore, preview, mock
<1>2. ScreenTyped'
    BY DEF Typed, ScreenTyped, CreateDraft, Review, Restore, preview
<1>3. /\ made + 1 \in 0 .. MaxObjects /\ made' = made + 1
      /\ MaxSteps \in Nat
    BY SizesHold DEF Sizes, Typed, DraftTyped, CreateDraft, Review, Restore
<1>4. \A links \in Graphs : [ref |-> made + 1, links |-> links] \in GraphObjects
    BY <1>3 DEF GraphObjects
<1>5. CASE CreateDraft
    <2> DEFINE next == [ref |-> made + 1, named |-> TRUE, steps |-> <<>>, selected |-> {}]
    <2>1. next \in Drafts /\ Len(next.steps) <= MaxSteps
        BY <1>3 DEF Drafts
    <2>2. draft' = next /\ graph' = graph
        BY <1>5 DEF CreateDraft
    <2> HIDE DEF next
    <2>3. DraftTyped'
        BY <1>3, <2>1, <2>2 DEF Typed, DraftTyped
    <2> QED BY <1>1, <1>2, <2>3 DEF Typed
<1>6. CASE Review
    <2>1. graph' \in GraphObjects /\ draft' = draft
        BY <1>4, <1>6 DEF Review
    <2>2. DraftTyped'
        BY <1>3, <2>1 DEF Typed, DraftTyped
    <2> QED BY <1>1, <1>2, <2>2 DEF Typed
<1>7. CASE Restore
    <2>1. graph' \in GraphObjects
        BY <1>4, <1>7 DEF Restore
    <2>2. draft' # NoDraft => draft' \in Drafts /\ Len(draft'.steps) <= MaxSteps
        BY <1>3, <1>7, ObjectIsDraft, LoadableIsDraftable DEF Restore
    <2>3. DraftTyped'
        BY <1>3, <2>1, <2>2 DEF DraftTyped
    <2> QED BY <1>1, <1>2, <2>3 DEF Typed
<1> QED BY <1>5, <1>6, <1>7

(* Mounting, the format, and the reset of the mock.                        *)
LEMMA RestKeepsTypes ==
    ASSUME Typed, Open \/ Close \/ ChooseFormat \/ ResetMock
    PROVE  Typed'
<1>1. DraftTyped'
    BY DEF Typed, DraftTyped, Open, Close, ChooseFormat, ResetMock, props
<1>2. CASE Open \/ Close
    <2>1. PreviewsTyped'
        BY <1>2 DEF PreviewsTyped, Open, Close, Blankly
    <2>2. ScreenTyped'
        BY <1>2 DEF Typed, ScreenTyped, Open, Close, Blankly, Formats
    <2>3. SessionTyped'
        BY <1>2 DEF Typed, SessionTyped, Open, Close
    <2> QED BY <1>1, <2>1, <2>2, <2>3 DEF Typed
<1>3. CASE ChooseFormat
    <2>1. PreviewsTyped'
        BY <1>3 DEF Typed, PreviewsTyped, ChooseFormat
    <2>2. ScreenTyped'
        BY <1>3 DEF Typed, ScreenTyped, ChooseFormat
    <2>3. SessionTyped'
        BY <1>3 DEF Typed, SessionTyped, ChooseFormat, mock
    <2> QED BY <1>1, <2>1, <2>2, <2>3 DEF Typed
<1>4. CASE ResetMock
    <2>1. PreviewsTyped' /\ ScreenTyped'
        BY <1>4 DEF Typed, PreviewsTyped, ScreenTyped, ResetMock, preview
    <2>2. /\ session'.entities = {} /\ session'.nextId = 1
          /\ session'.revision = session.revision + 1
        BY <1>4 DEF ResetMock, reset
    <2>3. SessionTyped'
        BY <1>4, <2>2, SizesHold DEF Typed, SessionTyped, ResetMock, Sizes
    <2> QED BY <1>1, <2>1, <2>3 DEF Typed
<1> QED BY <1>2, <1>3, <1>4

LEMMA NextKeepsTypes == Typed /\ IInv /\ [Next]_vars => Typed'
<1> SUFFICES ASSUME Typed, IInv, [Next]_vars PROVE Typed'
    OBVIOUS
<1>1. CASE Edits
    BY <1>1, EditsKeepTypes
<1>2. CASE Preview
    BY <1>2, PreviewKeepsTypes
<1>3. CASE PreviewAnswers \/ PreviewFails
    BY <1>3, AnswerKeepsTypes DEF PreviewAnswers, PreviewFails
<1>4. CASE TimerFires \/ CheckAnswers \/ RunEffects
    BY <1>4, ChecksKeepTypes
<1>5. CASE runMock
    BY <1>5, RunMockKeepsTypes
<1>6. CASE CreateDraft \/ Review \/ Restore
    BY <1>6, ReplacingKeepsTypes
<1>7. CASE Open \/ Close \/ ChooseFormat \/ ResetMock
    BY <1>7, RestKeepsTypes
<1>8. CASE UNCHANGED vars
    BY <1>8 DEF vars, props, preview, mock, Typed, DraftTyped, PreviewsTyped,
               ScreenTyped, SessionTyped
<1> QED BY <1>1, <1>2, <1>3, <1>4, <1>5, <1>6, <1>7, <1>8 DEF Next, Edits

(* Whatever is edited, restored or answered late, the editor's state has   *)
(* the shape the exporter and the mock expect.                             *)
THEOREM EditorTyped == Spec => []Typed
<1>1. Init => Typed
    BY TypedInit
<1> QED BY <1>1, NextKeepsTypes, EditorInvariant, PTL DEF Spec

(* A document on offer holds exactly what is selected, and nothing is      *)
(* offered or run while a binding is unavailable.                          *)
THEOREM SelectionAlwaysKept == Spec => []SelectionIsKept
<1>1. ASSUME Typed, IInv PROVE OfferHoldsTheSelection
    <2>1. ASSUME Offers
          PROVE  Holds(currentArtifact, graph.links, draft)
        <3>1. currentArtifact = exportWorkflowDraft(graph.links, draft)
            BY <1>1, <2>1, InvariantGivesProperties DEF OfferIsCurrent
        <3>2. currentArtifact # Nothing
            BY <2>1 DEF Offers
        <3>3. artifact # NoArtifact /\ artifact.draft = draft
            BY <2>1 DEF Offers, currentArtifact
        <3>4. draft \in Drafts /\ graph.links \in Graphs
            BY <1>1, <3>3, SizesHold DEF Typed, PreviewsTyped, DraftTyped, Sizes
        <3> QED BY <3>1, <3>2, <3>4, DocumentHoldsTheSelection
    <2> QED BY <2>1 DEF OfferHoldsTheSelection, Holds, Binds
<1>2. ASSUME IInv PROVE UnavailableBlocks
    <2>1. unavailableMappings(graph.links, draft) # {} =>
              exportWorkflowDraft(graph.links, draft) = Nothing
        BY DEF unavailableMappings, validMappings, SelectionsHold, exportWorkflowDraft
    <2>2. unavailableMappings(graph.links, draft) # {} =>
              prepareWorkflowRun(graph.links, draft) = NoPlan
        BY <2>1 DEF prepareWorkflowRun, PreparesMock
    <2>3. OfferIsCurrent
        BY <1>2, InvariantGivesProperties
    <2> QED BY <2>1, <2>2, <2>3 DEF OfferIsCurrent, UnavailableBlocks, Offers
<1>3. Typed /\ IInv => SelectionIsKept
    BY <1>1, <1>2, TypedIsTypeOK DEF SelectionIsKept
<1> QED BY <1>3, EditorTyped, EditorInvariant, PTL

-----------------------------------------------------------------------------
(* What may stand in a pointer, and where the stars of one are.            *)
Tokens == {"*"} \cup UNION {DOMAIN Schemas[s].properties : s \in DOMAIN Schemas}

Stars(place) == {i \in 1 .. Len(place) : place[i] = "*"}

(* No token but the star stands for an index.                              *)
LEMMA TokensAreNoNumbers == "*" \in Tokens /\ \A t \in Tokens : t \notin Numerals
<1>1. ASSUME NEW t \in Tokens, t # "*" PROVE t \notin Numerals
    <2>1. PICK s \in DOMAIN Schemas : t \in DOMAIN Schemas[s].properties
        BY <1>1 DEF Tokens
    <2> QED BY <2>1, TokensAssumption
<1> QED BY <1>1, TokensAssumption DEF Tokens

(* What a schema is made of are schemas of the document.                   *)
LEMMA ExpansionsAre ==
    \A s \in DOMAIN Schemas : expandSchema(s) \in SUBSET DOMAIN Schemas /\ s \in expandSchema(s)
<1> DEFINE N == DOMAIN Schemas
           k == Cardinality(N)
           V == [N -> SUBSET N]
           base == [s \in N |-> {s}]
           Wider(e) == [s \in N |-> UNION {e[t] : t \in
                            {s} \cup (N \cap (Schemas[s].parts \cup Schemas[s].variants))}]
           step == [p \in Int \X V |-> Wider(p[2])]
           Is(g) == g = [n \in 0 .. k |-> IF n = 0 THEN base ELSE Wider(g[n - 1])]
           all == CHOOSE g : Is(g)
<1>1. k \in Nat
    BY SchemasAssumption, FS_CardinalityType
<1>2. base \in V
    OBVIOUS
<1>3. \A e \in V : Wider(e) \in V
    OBVIOUS
<1>4. step \in [Int \X V -> V]
    <2> HIDE DEF V, Wider
    <2> QED BY <1>3
<1> HIDE DEF k
<1>5. PICK g \in [0 .. k -> V] : IsRecursion(g, k, base, step)
    <2> HIDE DEF step, V, base
    <2> QED BY <1>1, <1>2, <1>4, RecursionExists
<1>6. ASSUME NEW n \in 1 .. k PROVE g[n] = Wider(g[n - 1])
    <2> HIDE DEF V, Wider, base
    <2>1. n - 1 \in 0 .. k /\ n \in Int
        BY <1>1
    <2>2. g[n] = step[<<n, g[n - 1]>>] /\ g[n - 1] \in V
        BY <1>5, <2>1 DEF IsRecursion
    <2> QED BY <2>1, <2>2
<1>7. g[0] = base
    BY <1>5 DEF IsRecursion
<1>8. Is(g)
    <2> HIDE DEF V, base, Wider
    <2>1. \A n \in 0 .. k : n # 0 => n \in 1 .. k
        BY <1>1
    <2> QED BY <1>5, <1>6, <1>7, <2>1
<1>9. Is(all)
    <2> HIDE DEF Is
    <2> QED BY <1>8
<1>10. Expansions = all[k]
    BY DEF Expansions, k
<1> HIDE DEF all
<1>11. all[0] = base /\ \A n \in 1 .. k : all[n] = Wider(all[n - 1])
    <2> HIDE DEF base, Wider
    <2>1. 0 \in 0 .. k /\ \A n \in 1 .. k : n \in 0 .. k /\ n # 0
        BY <1>1
    <2> QED BY <1>9, <2>1
<1> DEFINE P == {n \in 0 .. k : all[n] = g[n]}
<1>12. \A n \in 0 .. k : n \in P
    <2> HIDE DEF base, Wider, V
    <2>1. 0 \in P
        BY <1>1, <1>7, <1>11
    <2>2. ASSUME NEW n \in 1 .. k, n - 1 \in P PROVE n \in P
        BY <1>1, <1>6, <1>11, <2>2
    <2> HIDE DEF P
    <2> QED BY <1>1, <2>1, <2>2, UpToInduction
<1> DEFINE Q == {n \in 0 .. k : \A s \in N : s \in g[n][s]}
<1>13. \A n \in 0 .. k : n \in Q
    <2>1. 0 \in Q
        BY <1>1, <1>7
    <2>2. ASSUME NEW n \in 1 .. k, n - 1 \in Q PROVE n \in Q
        <3>1. g[n] = Wider(g[n - 1]) /\ \A s \in N : s \in g[n - 1][s]
            BY <1>6, <2>2
        <3>2. \A s \in N : s \in Wider(g[n - 1])[s]
            BY <3>1
        <3> HIDE DEF Wider, V
        <3> QED BY <3>1, <3>2
    <2> HIDE DEF Q, V, Wider
    <2> QED BY <1>1, <2>1, <2>2, UpToInduction
<1>14. Expansions \in V /\ \A s \in N : s \in Expansions[s]
    <2>1. k \in 0 .. k
        BY <1>1
    <2> HIDE DEF V
    <2> QED BY <1>5, <1>10, <1>12, <1>13, <2>1
<1> QED BY <1>14 DEF expandSchema

(* A walk knows where the stars of its pointer are.                        *)
Walker ==
    [schema : DOMAIN Schemas, place : Seq(Tokens), slots : SUBSET Nat, required : BOOLEAN,
     above : SUBSET DOMAIN Schemas, barred : BOOLEAN, nullable : BOOLEAN]

Walk == {w \in Walker : w.slots = Stars(w.place)}

(* The walk at the beginning is one.                                       *)
LEMMA BeginIs ==
    ASSUME NEW s \in DOMAIN Schemas, NEW required \in BOOLEAN
    PROVE  Begin(s, required) \in Walk
BY DEF Begin, Walk, Walker, Stars

(* One token more has one star more if it is one.                          *)
LEMMA StarsOfMore ==
    ASSUME NEW place \in Seq(Tokens), NEW token \in Tokens
    PROVE  /\ Append(place, token) \in Seq(Tokens)
           /\ Stars(Append(place, token)) =
                 Stars(place) \cup IF token = "*" THEN {Len(place) + 1} ELSE {}
<1>1. /\ Len(place) \in Nat /\ Len(Append(place, token)) = Len(place) + 1
      /\ \A i \in 1 .. Len(place) : Append(place, token)[i] = place[i]
      /\ Append(place, token)[Len(place) + 1] = token
    OBVIOUS
<1>2. 1 .. Len(place) + 1 = (1 .. Len(place)) \cup {Len(place) + 1}
    BY <1>1
<1>3. Append(place, token) \in Seq(Tokens)
    OBVIOUS
<1> QED BY <1>1, <1>2, <1>3 DEF Stars

(* Going down adds a token to its pointer.                                 *)
LEMMA DownIs ==
    ASSUME NEW w \in Walk, NEW side, NEW s \in DOMAIN Schemas, NEW token \in Tokens
    PROVE  /\ Down(w, side, s, token) \in Walker
           /\ Down(w, side, s, token).place = Append(w.place, token)
           /\ Down(w, side, s, token).slots = w.slots
           /\ Down(w, side, s, token).schema = s
<1>1. Barred(w, side) \in BOOLEAN /\ MaybeNull(w) \in BOOLEAN
    BY DEF Barred, MaybeNull
<1>2. Append(w.place, token) \in Seq(Tokens)
    BY StarsOfMore DEF Walk, Walker
<1> QED BY <1>1, <1>2 DEF Down, Walk, Walker

(* Going on is a walk again, by an index or a name.                        *)
ByIndex(w, next, v) ==
    /\ Schemas[v].items # Absent /\ next.schema = Schemas[v].items
    /\ next.place = Append(w.place, "*") /\ next.slots = w.slots \cup {Len(w.place) + 1}

ByName(w, next, v) ==
    \E n \in DOMAIN Schemas[v].properties :
        /\ next.schema = Schemas[v].properties[n]
        /\ next.place = Append(w.place, n) /\ next.slots = w.slots

(* Every step onward is through a list or along a property.                *)
LEMMA OnwardIs ==
    ASSUME NEW w \in Walk, NEW side, NEW next \in Onward(w, side)
    PROVE  /\ next \in Walk
           /\ \E v \in expandSchema(w.schema) : ByIndex(w, next, v) \/ ByName(w, next, v)
<1>1. w.schema \in DOMAIN Schemas /\ w.place \in Seq(Tokens) /\ w.slots = Stars(w.place)
      /\ w.slots \in SUBSET Nat /\ w.required \in BOOLEAN
    BY DEF Walk, Walker
<1>2. PICK v \in expandSchema(w.schema) :
          \/ \E s \in {Schemas[v].items} \ {Absent} :
                next = [Down(w, side, s, "*") EXCEPT !.slots = @ \cup {Len(w.place) + 1}]
          \/ \E n \in DOMAIN Schemas[v].properties :
                next = [Down(w, side, Schemas[v].properties[n], n)
                          EXCEPT !.required = @ /\ n \in Schemas[v].required]
    BY DEF Onward
<1>3. v \in DOMAIN Schemas
    BY <1>1, ExpansionsAre
<1>4. CASE \E s \in {Schemas[v].items} \ {Absent} :
              next = [Down(w, side, s, "*") EXCEPT !.slots = @ \cup {Len(w.place) + 1}]
    <2>1. PICK s \in {Schemas[v].items} \ {Absent} :
              next = [Down(w, side, s, "*") EXCEPT !.slots = @ \cup {Len(w.place) + 1}]
        BY <1>4
    <2>2. s \in DOMAIN Schemas /\ "*" \in Tokens /\ s # Absent /\ s = Schemas[v].items
        BY <1>3, SchemasAssumption, TokensAreNoNumbers
    <2>3. Stars(Append(w.place, "*")) = w.slots \cup {Len(w.place) + 1} /\ Len(w.place) + 1 \in Nat
        BY <1>1, StarsOfMore, TokensAreNoNumbers
    <2> DEFINE d == Down(w, side, s, "*")
    <2>4. d \in Walker /\ d.place = Append(w.place, "*") /\ d.slots = w.slots /\ d.schema = s
        BY <2>2, DownIs
    <2>5. next = [d EXCEPT !.slots = w.slots \cup {Len(w.place) + 1}]
        BY <2>1, <2>4
    <2> HIDE DEF d
    <2>6. next \in Walk
        BY <1>1, <2>3, <2>4, <2>5 DEF Walk, Walker
    <2>7. ByIndex(w, next, v)
        BY <2>2, <2>4, <2>5 DEF ByIndex, Walker
    <2> QED BY <2>6, <2>7
<1>5. CASE \E n \in DOMAIN Schemas[v].properties :
              next = [Down(w, side, Schemas[v].properties[n], n)
                        EXCEPT !.required = @ /\ n \in Schemas[v].required]
    <2>1. PICK n \in DOMAIN Schemas[v].properties :
              next = [Down(w, side, Schemas[v].properties[n], n)
                        EXCEPT !.required = @ /\ n \in Schemas[v].required]
        BY <1>5
    <2>2. Schemas[v].properties[n] \in DOMAIN Schemas /\ n \in Tokens /\ n # "*"
        BY <1>3, SchemasAssumption, TokensAssumption DEF Tokens
    <2>3. Stars(Append(w.place, n)) = w.slots
        BY <1>1, <2>2, StarsOfMore
    <2> DEFINE d == Down(w, side, Schemas[v].properties[n], n)
    <2>4. d \in Walker /\ d.place = Append(w.place, n) /\ d.slots = w.slots
          /\ d.schema = Schemas[v].properties[n]
        BY <2>2, DownIs
    <2>5. next = [d EXCEPT !.required = d.required /\ n \in Schemas[v].required]
        BY <2>1
    <2> HIDE DEF d
    <2>6. next \in Walk
        BY <2>3, <2>4, <2>5 DEF Walk, Walker
    <2>7. ByName(w, next, v)
        BY <2>4, <2>5 DEF ByName, Walker
    <2> QED BY <2>6, <2>7
<1> QED BY <1>2, <1>4, <1>5

(* What there is of every field.                                           *)
IsField(f) ==
    /\ {"value", "slots", "unavailable", "types", "format", "enum", "nullable",
       "required"} \subseteq DOMAIN f
    /\ f.value = [kind |-> f.value.kind, place |-> f.value.place]
    /\ Len(f.value.place) \in Nat
    /\ f.value.place = [i \in 1 .. Len(f.value.place) |-> f.value.place[i]]
    /\ f.slots \subseteq 1 .. Len(f.value.place)
    /\ f.unavailable \in BOOLEAN

(* A field of a body, and one of a parameter.                              *)
OfBody(f, kind) ==
    /\ IsField(f) /\ f.value.kind = kind
    /\ f.value.place \in Seq(Tokens) /\ f.slots = Stars(f.value.place)

OfParameter(f) ==
    /\ IsField(f) /\ f.value.kind \in {"path", "query", "header"}
    /\ f.slots = {} /\ Len(f.value.place) = 1

(* What a field says of its values, and a schema.                          *)
SaysAs(f, v) == f.types = Schemas[v].types /\ f.format = Schemas[v].format

(* A walk finds fields with its pointer.                                   *)
LEMMA FoundAre ==
    ASSUME NEW w \in Walk, NEW side, NEW kind, NEW f \in Found(w, side, kind)
    PROVE  /\ OfBody(f, kind) /\ f.value.place = w.place /\ f.slots = w.slots
           /\ \E v \in expandSchema(w.schema) : SaysAs(f, v)
<1>1. PICK v \in expandSchema(w.schema) : \E nullable : \E unavailable \in BOOLEAN :
                  f = FieldOf(w, v, kind, nullable, unavailable)
    <2>1. CASE Ambiguous(w)
        <3>1. f = FieldOf(w, w.schema, kind, Schemas[w.schema].nullable, TRUE)
            BY <2>1 DEF Found
        <3>2. w.schema \in expandSchema(w.schema)
            BY ExpansionsAre DEF Walk, Walker
        <3> QED BY <3>1, <3>2
    <2>2. CASE ~Ambiguous(w)
        <3>1. PICK v \in expandSchema(w.schema) :
                  f = FieldOf(w, v, kind,
                        Schemas[v].nullable \/ (side = "source" /\ MaybeNull(w)), Barred(w, side))
            BY <2>2 DEF Found
        <3>2. Barred(w, side) \in BOOLEAN
            BY DEF Barred
        <3> QED BY <3>1, <3>2
    <2> QED BY <2>1, <2>2
<1>2. /\ f.value = [kind |-> kind, place |-> w.place] /\ f.slots = w.slots
      /\ f.unavailable \in BOOLEAN
      /\ {"value", "slots", "unavailable", "types", "format", "enum", "nullable",
       "required"} \subseteq DOMAIN f
      /\ SaysAs(f, v)
    BY <1>1 DEF FieldOf, SaysAs
<1>3. w.place \in Seq(Tokens) /\ w.slots = Stars(w.place)
    BY DEF Walk, Walker
<1>4. Len(w.place) \in Nat /\ w.place = [i \in 1 .. Len(w.place) |-> w.place[i]]
    BY <1>3
<1> QED BY <1>1, <1>2, <1>3, <1>4 DEF OfBody, IsField, Stars

(* A schema with a scalar type is found itself.                            *)
LEMMA OwnIsFound ==
    ASSUME NEW w \in Walk, NEW side, NEW kind, Schemas[w.schema].types \cap ScalarTypes # {}
    PROVE  \E f \in Found(w, side, kind) : SaysAs(f, w.schema)
<1>1. w.schema \in expandSchema(w.schema)
    BY ExpansionsAre DEF Walk, Walker
<1>2. CASE Ambiguous(w)
    <2> DEFINE f == FieldOf(w, w.schema, kind, Schemas[w.schema].nullable, TRUE)
    <2>1. f \in Found(w, side, kind)
        BY <1>2 DEF Found
    <2>2. SaysAs(f, w.schema)
        BY DEF FieldOf, SaysAs
    <2> QED BY <2>1, <2>2
<1>3. CASE ~Ambiguous(w)
    <2> DEFINE f == FieldOf(w, w.schema, kind, Schemas[w.schema].nullable
                                \/ (side = "source" /\ MaybeNull(w)), Barred(w, side))
    <2>1. f \in Found(w, side, kind)
        BY <1>1, <1>3 DEF Found
    <2>2. SaysAs(f, w.schema)
        BY DEF FieldOf, SaysAs
    <2> QED BY <2>1, <2>2
<1> QED BY <1>2, <1>3

(* What finitely many give is finite if each gives so much.                *)
LEMMA UnionIsFinite ==
    ASSUME NEW S, IsFiniteSet(S), NEW f, \A x \in S : IsFiniteSet(f[x])
    PROVE  IsFiniteSet(UNION {f[x] : x \in S})
<1>1. IsFiniteSet({f[x] : x \in S})
    BY ImageIsFinite
<1> DEFINE T == {f[x] : x \in S}
<1>2. \A t \in T : IsFiniteSet(t)
    OBVIOUS
<1> HIDE DEF T
<1>3. IsFiniteSet(UNION T)
    BY <1>1, <1>2, FS_UNION DEF T
<1> QED BY <1>3 DEF T

(* There are finitely many of them.                                        *)
LEMMA ExpansionsAreFinite ==
    ASSUME NEW s \in DOMAIN Schemas
    PROVE  IsFiniteSet(expandSchema(s))
BY ExpansionsAre, SchemasAssumption, FS_Subset

(* From a walk it goes on in finitely many ways.                           *)
LEMMA OnwardIsFinite ==
    ASSUME NEW w \in Walk, NEW side
    PROVE  IsFiniteSet(Onward(w, side))
<1> DEFINE item(v) == [s \in {Schemas[v].items} \ {Absent} |->
                          [Down(w, side, s, "*") EXCEPT !.slots = @ \cup {Len(w.place) + 1}]]
           name(v) == [n \in DOMAIN Schemas[v].properties |->
                          [Down(w, side, Schemas[v].properties[n], n)
                             EXCEPT !.required = @ /\ n \in Schemas[v].required]]
           items(v) == {item(v)[s] : s \in {Schemas[v].items} \ {Absent}}
           named(v) == {name(v)[n] : n \in DOMAIN Schemas[v].properties}
           next == [v \in expandSchema(w.schema) |-> items(v) \cup named(v)]
<1>1. w.schema \in DOMAIN Schemas
    BY DEF Walk, Walker
<1>2. IsFiniteSet(expandSchema(w.schema))
    BY <1>1, ExpansionsAreFinite
<1>3. ASSUME NEW v \in expandSchema(w.schema) PROVE IsFiniteSet(next[v])
    <2>1. IsFiniteSet(DOMAIN Schemas[v].properties)
        BY <1>1, ExpansionsAre, SchemasAssumption
    <2>2. IsFiniteSet({Schemas[v].items} \ {Absent})
        <3>1. ({Schemas[v].items} \ {Absent}) \in SUBSET {Schemas[v].items}
            OBVIOUS
        <3>2. IsFiniteSet({Schemas[v].items})
            BY FS_Singleton
        <3> QED BY <3>1, <3>2, FS_Subset
    <2> HIDE DEF item, name
    <2>3. IsFiniteSet(items(v)) /\ IsFiniteSet(named(v))
        BY <2>1, <2>2, ImageIsFinite
    <2>4. next[v] = items(v) \cup named(v)
        OBVIOUS
    <2> HIDE DEF items, named, next
    <2> QED BY <2>3, <2>4, FS_Union
<1> DEFINE all == UNION {next[v] : v \in expandSchema(w.schema)}
<1>4. IsFiniteSet(all)
    <2> HIDE DEF next
    <2> QED BY <1>2, <1>3, UnionIsFinite
<1>5. Onward(w, side) \in SUBSET all
    BY DEF Onward
<1> HIDE DEF all
<1> QED BY <1>4, <1>5, FS_Subset

(* It finds finitely many fields where it is.                              *)
LEMMA FoundIsFinite ==
    ASSUME NEW w \in Walk, NEW side, NEW kind
    PROVE  IsFiniteSet(Found(w, side, kind))
<1> DEFINE here == [v \in expandSchema(w.schema) |->
                       FieldOf(w, v, kind, Schemas[v].nullable
                                \/ (side = "source" /\ MaybeNull(w)), Barred(w, side))]
           all == {here[v] : v \in expandSchema(w.schema)}
<1>1. IsFiniteSet(expandSchema(w.schema))
    BY ExpansionsAreFinite DEF Walk, Walker
<1>2. IsFiniteSet(all)
    <2> HIDE DEF here
    <2> QED BY <1>1, ImageIsFinite
<1>3. CASE Ambiguous(w)
    <2>1. Found(w, side, kind) = {FieldOf(w, w.schema, kind, Schemas[w.schema].nullable, TRUE)}
        BY <1>3 DEF Found
    <2> QED BY <2>1, FS_Singleton
<1>4. CASE ~Ambiguous(w)
    <2>1. Found(w, side, kind) \in SUBSET all
        BY <1>4 DEF Found
    <2> HIDE DEF all
    <2> QED BY <1>2, <2>1, FS_Subset
<1> QED BY <1>3, <1>4

(* The walks of each length, one after the other.                          *)
Further(walks, side) == UNION {Onward(w, side) : w \in walks}

GoesFurther(far, s, side, required) ==
    /\ far \in [0 .. MaxTokens -> SUBSET Walk]
    /\ far[0] = {Begin(s, required)}
    /\ \A n \in 1 .. MaxTokens : far[n] = Further(far[n - 1], side)

(* The fields are those that the walks find, a token further each.         *)
LEMMA FieldsAreOfWalks ==
    ASSUME NEW s \in DOMAIN Schemas, NEW side, NEW kind, NEW required \in BOOLEAN
    PROVE  \E far : /\ GoesFurther(far, s, side, required)
                    /\ Fields(s, side, kind, required) =
                         UNION {UNION {Found(w, side, kind) : w \in far[n]} : n \in 0 .. MaxTokens}
<1> DEFINE k == MaxTokens
           V == SUBSET Walk
           base == {Begin(s, required)}
           step == [p \in Int \X V |-> Further(p[2], side)]
           Is(g) == g = [n \in 0 .. k |-> IF n = 0 THEN base ELSE Further(g[n - 1], side)]
           all == CHOOSE g : Is(g)
<1>1. k \in Nat
    BY TokensAssumption
<1>2. base \in V
    BY BeginIs
<1>3. \A T \in V : Further(T, side) \in V
    BY OnwardIs DEF Further
<1>4. step \in [Int \X V -> V]
    <2> HIDE DEF V
    <2> QED BY <1>3
<1> HIDE DEF k
<1>5. PICK g \in [0 .. k -> V] : IsRecursion(g, k, base, step)
    <2> HIDE DEF step, V, base
    <2> QED BY <1>1, <1>2, <1>4, RecursionExists
<1>6. ASSUME NEW n \in 1 .. k PROVE g[n] = Further(g[n - 1], side)
    <2> HIDE DEF V, base
    <2>1. n - 1 \in 0 .. k /\ n \in Int
        BY <1>1
    <2>2. g[n] = step[<<n, g[n - 1]>>] /\ g[n - 1] \in V
        BY <1>5, <2>1 DEF IsRecursion
    <2> QED BY <2>1, <2>2
<1>7. g[0] = base
    BY <1>5 DEF IsRecursion
<1>8. Is(g)
    <2> HIDE DEF V, base
    <2>1. \A n \in 0 .. k : n # 0 => n \in 1 .. k
        BY <1>1
    <2> QED BY <1>5, <1>6, <1>7, <2>1
<1>9. Is(all)
    <2> HIDE DEF Is
    <2> QED BY <1>8
<1>10. Fields(s, side, kind, required) =
          UNION {UNION {Found(w, side, kind) : w \in all[n]} : n \in 0 .. k}
    BY DEF Fields, Further, k
<1> HIDE DEF all
<1>11. all[0] = base /\ \A n \in 1 .. k : all[n] = Further(all[n - 1], side)
    <2> HIDE DEF base
    <2>1. 0 \in 0 .. k /\ \A n \in 1 .. k : n \in 0 .. k /\ n # 0
        BY <1>1
    <2> QED BY <1>9, <2>1
<1> DEFINE P == {n \in 0 .. k : all[n] \in V}
<1>12. \A n \in 0 .. k : n \in P
    <2> HIDE DEF base, V
    <2>1. 0 \in P
        BY <1>1, <1>2, <1>11
    <2>2. ASSUME NEW n \in 1 .. k, n - 1 \in P PROVE n \in P
        BY <1>1, <1>3, <1>11, <2>2
    <2> HIDE DEF P
    <2> QED BY <1>1, <2>1, <2>2, UpToInduction
<1>13. all \in [0 .. k -> V]
    <2> HIDE DEF V, base
    <2>1. all = [n \in 0 .. k |-> IF n = 0 THEN base ELSE Further(all[n - 1], side)]
        BY <1>9
    <2>2. \A n \in 0 .. k : all[n] \in V
        BY <1>12
    <2> HIDE DEF Is
    <2>3. DOMAIN all = 0 .. k /\ all = [n \in 0 .. k |-> all[n]]
        BY <2>1
    <2> QED BY <2>2, <2>3
<1> QED BY <1>10, <1>11, <1>13 DEF GoesFurther, k

(* All that is found in a schema is of the body.                           *)
LEMMA FieldsAre ==
    ASSUME NEW s \in DOMAIN Schemas, NEW side, NEW kind, NEW required \in BOOLEAN,
           NEW f \in Fields(s, side, kind, required)
    PROVE  OfBody(f, kind)
<1>1. PICK far : /\ GoesFurther(far, s, side, required)
                 /\ Fields(s, side, kind, required) =
                      UNION {UNION {Found(w, side, kind) : w \in far[n]} : n \in 0 .. MaxTokens}
    BY FieldsAreOfWalks
<1>2. PICK n \in 0 .. MaxTokens : \E w \in far[n] : f \in Found(w, side, kind)
    BY <1>1
<1>3. PICK w \in far[n] : f \in Found(w, side, kind)
    BY <1>2
<1>4. w \in Walk
    BY <1>1, <1>3 DEF GoesFurther
<1> QED BY <1>3, <1>4, FoundAre

(* It is finite, and a scalar schema is found itself.                      *)
LEMMA FieldsAreFinite ==
    ASSUME NEW s \in DOMAIN Schemas, NEW side, NEW kind, NEW required \in BOOLEAN
    PROVE  /\ IsFiniteSet(Fields(s, side, kind, required))
           /\ Schemas[s].types \cap ScalarTypes # {} =>
                 \E f \in Fields(s, side, kind, required) : f.value.place = <<>> /\ SaysAs(f, s)
<1>1. PICK far : /\ GoesFurther(far, s, side, required)
                 /\ Fields(s, side, kind, required) =
                      UNION {UNION {Found(w, side, kind) : w \in far[n]} : n \in 0 .. MaxTokens}
    BY FieldsAreOfWalks
<1>2. MaxTokens \in Nat
    BY TokensAssumption
<1> DEFINE P == {n \in 0 .. MaxTokens : IsFiniteSet(far[n])}
<1>3. \A n \in 0 .. MaxTokens : n \in P
    <2>1. 0 \in P
        <3>1. far[0] = {Begin(s, required)} /\ 0 \in 0 .. MaxTokens
            BY <1>1, <1>2 DEF GoesFurther
        <3>2. IsFiniteSet({Begin(s, required)})
            BY FS_Singleton
        <3> QED BY <3>1, <3>2
    <2>2. ASSUME NEW n \in 1 .. MaxTokens, n - 1 \in P PROVE n \in P
        <3> DEFINE more == [w \in far[n - 1] |-> Onward(w, side)]
        <3>1. IsFiniteSet(far[n - 1]) /\ n - 1 \in 0 .. MaxTokens /\ n \in 0 .. MaxTokens
            BY <1>2, <2>2
        <3>2. \A w \in far[n - 1] : IsFiniteSet(more[w])
            BY <1>1, <3>1, OnwardIsFinite DEF GoesFurther
        <3>3. far[n] = UNION {more[w] : w \in far[n - 1]}
            <4>1. far[n] = Further(far[n - 1], side)
                BY <1>1 DEF GoesFurther
            <4>2. Further(far[n - 1], side) = UNION {more[w] : w \in far[n - 1]}
                BY DEF Further
            <4> QED BY <4>1, <4>2
        <3> HIDE DEF more
        <3>4. IsFiniteSet(far[n])
            BY <3>1, <3>2, <3>3, UnionIsFinite
        <3> QED BY <3>1, <3>4
    <2> HIDE DEF P
    <2> QED BY <1>2, <2>1, <2>2, UpToInduction
<1> DEFINE here == [n \in 0 .. MaxTokens |-> UNION {Found(w, side, kind) : w \in far[n]}]
<1>4. ASSUME NEW n \in 0 .. MaxTokens PROVE IsFiniteSet(here[n])
    <2> DEFINE one == [w \in far[n] |-> Found(w, side, kind)]
    <2>1. \A w \in far[n] : IsFiniteSet(one[w])
        BY <1>1, FoundIsFinite DEF GoesFurther
    <2>2. here[n] = UNION {one[w] : w \in far[n]} /\ IsFiniteSet(far[n])
        BY <1>3
    <2> HIDE DEF one, here
    <2> QED BY <2>1, <2>2, UnionIsFinite
<1>5. IsFiniteSet(Fields(s, side, kind, required))
    <2>1. IsFiniteSet(0 .. MaxTokens)
        BY <1>2, FS_Interval
    <2>2. Fields(s, side, kind, required) = UNION {here[n] : n \in 0 .. MaxTokens}
        BY <1>1
    <2> HIDE DEF here
    <2>3. IsFiniteSet(UNION {here[n] : n \in 0 .. MaxTokens})
        BY <1>4, <2>1, UnionIsFinite
    <2> QED BY <2>2, <2>3
<1>6. ASSUME Schemas[s].types \cap ScalarTypes # {}
      PROVE  \E f \in Fields(s, side, kind, required) : f.value.place = <<>> /\ SaysAs(f, s)
    <2> DEFINE w == Begin(s, required)
    <2>1. w \in Walk /\ w.schema = s /\ w.place = <<>>
        BY BeginIs DEF Begin
    <2>2. w \in far[0] /\ 0 \in 0 .. MaxTokens
        BY <1>1, <1>2 DEF GoesFurther
    <2> HIDE DEF w
    <2>3. PICK f \in Found(w, side, kind) : SaysAs(f, s)
        BY <1>6, <2>1, OwnIsFound
    <2>4. f.value.place = <<>>
        BY <2>1, <2>3, FoundAre
    <2>5. f \in Fields(s, side, kind, required)
        BY <1>1, <2>2, <2>3
    <2> QED BY <2>3, <2>4, <2>5
<1> QED BY <1>5, <1>6

-----------------------------------------------------------------------------
(* The fields of the dialog: each is of the body or of a parameter, and no *)
(* two have one value.                                                     *)
Listed(fields, kind) ==
    /\ \A f \in fields : OfBody(f, kind) \/ OfParameter(f)
    /\ \A f \in fields, g \in fields : f.value = g.value => f = g

(* Each field that is kept is one of those found.                          *)
LEMMA UniqueIs ==
    ASSUME NEW found, NEW kind, \A f \in found : OfBody(f, kind) \/ OfParameter(f)
    PROVE  Listed(unique(found), kind)
<1> DEFINE Same(value) == {f \in found : f.value = value}
           first(value) == CHOOSE g \in Same(value) : TRUE
           One(value) == [first(value) EXCEPT !.unavailable = @ \/ Cardinality(Same(value)) > 1]
<1>1. unique(found) = {One(value) : value \in {f.value : f \in found}}
    BY DEF unique
<1>2. ASSUME NEW value \in {f.value : f \in found}
      PROVE  One(value).value = value /\ (OfBody(One(value), kind) \/ OfParameter(One(value)))
    <2>1. first(value) \in found /\ first(value).value = value
        <3>1. \E g \in Same(value) : TRUE
            OBVIOUS
        <3> HIDE DEF Same
        <3>2. first(value) \in Same(value)
            BY <3>1
        <3> QED BY <3>2 DEF Same
    <2> DEFINE f == first(value)
               b == f.unavailable \/ Cardinality(Same(value)) > 1
    <2>2. One(value) = [f EXCEPT !.unavailable = b] /\ b \in BOOLEAN
        OBVIOUS
    <2> HIDE DEF f, b, One
    <2>3. OfBody(f, kind) \/ OfParameter(f)
        BY <2>1 DEF f
    <2>4. {"value", "slots", "unavailable"} \subseteq DOMAIN f
        BY <2>3 DEF OfBody, OfParameter, IsField
    <2>5. /\ One(value).value = f.value /\ One(value).slots = f.slots
          /\ One(value).unavailable = b /\ DOMAIN One(value) = DOMAIN f
        BY <2>2, <2>4
    <2> QED BY <2>1, <2>2, <2>3, <2>5 DEF OfBody, OfParameter, IsField, f
<1> HIDE DEF One
<1>3. ASSUME NEW f \in unique(found), NEW g \in unique(found), f.value = g.value
      PROVE  f = g
    BY <1>1, <1>2, <1>3
<1> QED BY <1>1, <1>2, <1>3 DEF Listed

(* One that is listed comes from one found, from no other if available.    *)
Alike(f, g) ==
    /\ f.value = g.value /\ f.slots = g.slots /\ f.types = g.types /\ f.format = g.format
    /\ f.enum = g.enum /\ f.nullable = g.nullable /\ f.required = g.required

(* One that is kept and is available goes for all found of its value.      *)
LEMMA UniqueComes ==
    ASSUME NEW found, IsFiniteSet(found), \A f \in found : IsField(f),
           NEW f \in unique(found)
    PROVE  \E g \in found : /\ Alike(f, g)
                            /\ ~f.unavailable =>
                                  ~g.unavailable /\ \A h \in found : h.value = f.value => h = g
<1> DEFINE Same(value) == {h \in found : h.value = value}
           first(value) == CHOOSE h \in Same(value) : TRUE
<1>1. PICK value \in {h.value : h \in found} :
          f = [first(value) EXCEPT !.unavailable = @ \/ Cardinality(Same(value)) > 1]
    BY DEF unique
<1> DEFINE g == first(value)
           S == Same(value)
           b == g.unavailable \/ Cardinality(S) > 1
<1>2. g \in found /\ g.value = value /\ g \in S
    <2>1. \E h \in S : TRUE
        OBVIOUS
    <2> HIDE DEF Same
    <2>2. g \in S
        BY <2>1
    <2> QED BY <2>2 DEF Same
<1>3. f = [g EXCEPT !.unavailable = b]
    BY <1>1
<1>4. \A h \in found : h.value = value => h \in S
    OBVIOUS
<1>5. S \in SUBSET found
    OBVIOUS
<1> HIDE DEF g, S
<1>6. {"value", "slots", "unavailable", "types", "format", "enum", "nullable",
       "required"} \subseteq DOMAIN g
    BY <1>2 DEF IsField
<1> HIDE DEF b
<1>7. Alike(f, g) /\ f.unavailable = b
    BY <1>3, <1>6 DEF Alike
<1>8. ASSUME ~f.unavailable, NEW h \in found, h.value = f.value PROVE h = g
    <2>1. h \in S
        BY <1>2, <1>4, <1>7, <1>8 DEF Alike
    <2>2. IsFiniteSet(S) /\ ~(Cardinality(S) > 1)
        BY <1>5, <1>7, <1>8, FS_Subset DEF b
    <2> QED BY <1>2, <2>1, <2>2, AtMostOne
<1>9. ~f.unavailable => ~g.unavailable
    BY <1>7 DEF b
<1> QED BY <1>2, <1>7, <1>8, <1>9

(* What is found inside of a parameter has its name.                       *)
LEMMA ParameterFieldsAre ==
    ASSUME NEW p, p.location \in {"path", "query", "header"}, p.schema \in DOMAIN Schemas,
           p.required \in BOOLEAN, NEW f \in ParameterFields(p)
    PROVE  OfParameter(f) /\ f.value = [kind |-> p.location, place |-> <<p.name>>]
<1>1. PICK g \in Fields(p.schema, "target", p.location, p.required) :
          f = [g EXCEPT !.value.place = <<p.name>>, !.slots = {},
                        !.unavailable = @ \/ g.value.place # <<>>]
    BY DEF ParameterFields
<1>2. IsField(g) /\ g.value.kind = p.location
    BY FieldsAre DEF OfBody
<1>3. /\ f.value = [kind |-> p.location, place |-> <<p.name>>] /\ f.slots = {}
      /\ f.unavailable \in BOOLEAN /\ DOMAIN f = DOMAIN g
    BY <1>1, <1>2 DEF IsField
<1> QED BY <1>2, <1>3 DEF OfParameter, IsField

(* They are finite, and one says what a scalar schema of a parameter says. *)
LEMMA ParameterIsFound ==
    ASSUME NEW p, p.location \in {"path", "query", "header"}, p.schema \in DOMAIN Schemas,
           p.required \in BOOLEAN
    PROVE  /\ IsFiniteSet(ParameterFields(p))
           /\ Schemas[p.schema].types \cap ScalarTypes # {} =>
                 \E f \in ParameterFields(p) : SaysAs(f, p.schema)
<1> DEFINE found == Fields(p.schema, "target", p.location, p.required)
           Named(g) == [g EXCEPT !.value.place = <<p.name>>, !.slots = {},
                                 !.unavailable = @ \/ g.value.place # <<>>]
           named == [g \in found |-> Named(g)]
<1>1. ParameterFields(p) = {named[g] : g \in found}
    BY DEF ParameterFields
<1>2. IsFiniteSet(found)
    BY FieldsAreFinite
<1>3. IsFiniteSet({named[g] : g \in found})
    <2> HIDE DEF found, named
    <2> QED BY <1>2, ImageIsFinite
<1>4. ASSUME Schemas[p.schema].types \cap ScalarTypes # {}
      PROVE  \E f \in ParameterFields(p) : SaysAs(f, p.schema)
    <2>1. PICK g \in found : SaysAs(g, p.schema)
        BY <1>4, FieldsAreFinite
    <2>2. IsField(g)
        BY <2>1, FieldsAre DEF OfBody
    <2>3. Named(g) \in ParameterFields(p)
        BY <1>1, <2>1
    <2>4. SaysAs(Named(g), p.schema)
        BY <2>1, <2>2 DEF SaysAs, IsField
    <2> HIDE DEF Named
    <2> QED BY <2>3, <2>4
<1> QED BY <1>1, <1>3, <1>4

(* What the dialog lists is listed by its value.                           *)
LEMMA CatalogIs ==
    ASSUME NEW a \in Apis
    PROVE  /\ Listed(createMappingCatalog(a).sources, "response-body")
           /\ Listed(createMappingCatalog(a).targets, "request-body")
<1>1. /\ \A r \in a.responses : r.media \subseteq DOMAIN Schemas
      /\ a.body \subseteq DOMAIN Schemas /\ a.bodyRequired \in BOOLEAN
      /\ \A q \in a.parameters : q.schema \in DOMAIN Schemas /\ q.required \in BOOLEAN
    BY SchemasAssumption
<1>2. Answers(a) \subseteq DOMAIN Schemas
    BY <1>1 DEF Answers, successful
<1> DEFINE sources == UNION {Fields(s, "source", "response-body", TRUE) : s \in Answers(a)}
           taken == {q \in a.parameters : q.location \in {"path", "query", "header"}}
           parameters == UNION {ParameterFields(p) : p \in taken}
           body == UNION {Fields(s, "target", "request-body", a.bodyRequired) : s \in a.body}
<1>3. \A f \in sources : OfBody(f, "response-body")
    BY <1>2, FieldsAre
<1>4. \A f \in body : OfBody(f, "request-body")
    BY <1>1, FieldsAre
<1>5. ASSUME NEW f \in parameters PROVE OfParameter(f)
    <2>1. PICK p \in taken : f \in ParameterFields(p)
        OBVIOUS
    <2>2. p.location \in {"path", "query", "header"} /\ p.schema \in DOMAIN Schemas
          /\ p.required \in BOOLEAN
        BY <1>1
    <2>3. OfParameter(f) /\ f.value = [kind |-> p.location, place |-> <<p.name>>]
        BY <2>1, <2>2, ParameterFieldsAre
    <2> QED BY <2>3
<1>6. /\ createMappingCatalog(a).sources = unique(sources)
      /\ createMappingCatalog(a).targets = unique(parameters \cup body)
    BY DEF createMappingCatalog
<1> HIDE DEF sources, parameters, body
<1> QED BY <1>3, <1>4, <1>5, <1>6, UniqueIs

(* What the dialog says of a field is said by an answer, by the body or by *)
(* a parameter, and if it is available by no other of it another thing.    *)
CanBeTaken(a) == {q \in a.parameters : q.location \in {"path", "query", "header"}}

(* Where the fields of the dialog come from.                               *)
LEMMA CatalogComes ==
    ASSUME NEW a \in Apis
    PROVE  /\ \A f \in createMappingCatalog(a).sources :
                 /\ \E s \in Answers(a) :
                       \E g \in Fields(s, "source", "response-body", TRUE) : Alike(f, g)
                 /\ ~f.unavailable =>
                       \A s \in Answers(a) :
                          \A g \in Fields(s, "source", "response-body", TRUE) :
                             g.value = f.value => Alike(f, g) /\ ~g.unavailable
           /\ \A f \in createMappingCatalog(a).targets :
                 /\ \/ \E s \in a.body :
                          \E g \in Fields(s, "target", "request-body", a.bodyRequired) : Alike(f, g)
                    \/ OfParameter(f) /\ \E q \in CanBeTaken(a) :
                                            f.value = [kind |-> q.location, place |-> <<q.name>>]
                 /\ ~f.unavailable =>
                       /\ \A s \in a.body :
                             \A g \in Fields(s, "target", "request-body", a.bodyRequired) :
                                g.value = f.value => Alike(f, g) /\ ~g.unavailable
                       /\ \A p \in CanBeTaken(a) : \A g \in ParameterFields(p) :
                             g.value = f.value => Alike(f, g) /\ ~g.unavailable
<1>1. /\ \A r \in a.responses : r.media \subseteq DOMAIN Schemas
      /\ a.body \in SUBSET DOMAIN Schemas /\ a.bodyRequired \in BOOLEAN
      /\ \A q \in a.parameters : q.schema \in DOMAIN Schemas /\ q.required \in BOOLEAN
      /\ IsFiniteSet(a.parameters) /\ IsFiniteSet(DOMAIN Schemas)
    BY SchemasAssumption
<1>2. Answers(a) \in SUBSET DOMAIN Schemas
    BY <1>1 DEF Answers, successful
<1> DEFINE ofAnswer == [s \in Answers(a) |-> Fields(s, "source", "response-body", TRUE)]
           ofBody == [s \in a.body |-> Fields(s, "target", "request-body", a.bodyRequired)]
           taken == {q \in a.parameters : q.location \in {"path", "query", "header"}}
           ofParameter == [p \in taken |-> ParameterFields(p)]
           sources == UNION {ofAnswer[s] : s \in Answers(a)}
           body == UNION {ofBody[s] : s \in a.body}
           parameters == UNION {ofParameter[p] : p \in taken}
<1>3. /\ createMappingCatalog(a).sources = unique(sources)
      /\ createMappingCatalog(a).targets = unique(parameters \cup body)
    BY DEF createMappingCatalog
<1>4. IsFiniteSet(sources) /\ \A f \in sources : IsField(f)
    <2>1. IsFiniteSet(Answers(a))
        BY <1>1, <1>2, FS_Subset
    <2>2. \A s \in Answers(a) : IsFiniteSet(ofAnswer[s])
        BY <1>2, FieldsAreFinite
    <2>3. ASSUME NEW f \in sources PROVE IsField(f)
        <3>1. PICK s \in Answers(a) : f \in Fields(s, "source", "response-body", TRUE)
            OBVIOUS
        <3> QED BY <1>2, <3>1, FieldsAre DEF OfBody
    <2> HIDE DEF ofAnswer
    <2> QED BY <2>1, <2>2, <2>3, UnionIsFinite
<1>5. IsFiniteSet(body) /\ \A f \in body : IsField(f)
    <2>1. IsFiniteSet(a.body)
        BY <1>1, FS_Subset
    <2>2. \A s \in a.body : IsFiniteSet(ofBody[s])
        BY <1>1, FieldsAreFinite
    <2>3. ASSUME NEW f \in body PROVE IsField(f)
        <3>1. PICK s \in a.body : f \in Fields(s, "target", "request-body", a.bodyRequired)
            OBVIOUS
        <3> QED BY <1>1, <3>1, FieldsAre DEF OfBody
    <2> HIDE DEF ofBody
    <2> QED BY <2>1, <2>2, <2>3, UnionIsFinite
<1>6. IsFiniteSet(parameters) /\ \A f \in parameters : OfParameter(f)
    <2>1. IsFiniteSet(taken)
        BY <1>1, FS_Subset
    <2>2. \A p \in taken : IsFiniteSet(ofParameter[p])
        BY <1>1, ParameterIsFound
    <2>3. ASSUME NEW f \in parameters PROVE OfParameter(f)
        <3>1. PICK p \in taken : f \in ParameterFields(p)
            OBVIOUS
        <3>2. p.location \in {"path", "query", "header"} /\ p.schema \in DOMAIN Schemas
              /\ p.required \in BOOLEAN
            BY <1>1
        <3>3. OfParameter(f) /\ f.value = [kind |-> p.location, place |-> <<p.name>>]
            BY <3>1, <3>2, ParameterFieldsAre
        <3> QED BY <3>3
    <2> HIDE DEF ofParameter, taken
    <2> QED BY <2>1, <2>2, <2>3, UnionIsFinite
<1>7. ASSUME NEW f \in unique(sources)
      PROVE  /\ \E s \in Answers(a) :
                   \E g \in Fields(s, "source", "response-body", TRUE) : Alike(f, g)
             /\ ~f.unavailable =>
                   \A s \in Answers(a) :
                      \A g \in Fields(s, "source", "response-body", TRUE) :
                         g.value = f.value => Alike(f, g) /\ ~g.unavailable
    <2>1. PICK g \in sources :
              /\ Alike(f, g)
              /\ ~f.unavailable =>
                    ~g.unavailable /\ \A h \in sources : h.value = f.value => h = g
        <3> HIDE DEF sources
        <3> QED BY <1>4, UniqueComes
    <2>2. \A s \in Answers(a) : \A h \in Fields(s, "source", "response-body", TRUE) : h \in sources
        OBVIOUS
    <2>3. PICK s \in Answers(a) : g \in Fields(s, "source", "response-body", TRUE)
        OBVIOUS
    <2> HIDE DEF sources
    <2> QED BY <2>1, <2>2, <2>3
<1>8. ASSUME NEW f \in unique(parameters \cup body)
      PROVE  /\ \/ \E s \in a.body :
                      \E g \in Fields(s, "target", "request-body", a.bodyRequired) : Alike(f, g)
                \/ OfParameter(f) /\ \E q \in CanBeTaken(a) :
                                        f.value = [kind |-> q.location, place |-> <<q.name>>]
             /\ ~f.unavailable =>
                   /\ \A s \in a.body :
                         \A g \in Fields(s, "target", "request-body", a.bodyRequired) :
                            g.value = f.value => Alike(f, g) /\ ~g.unavailable
                   /\ \A p \in CanBeTaken(a) : \A g \in ParameterFields(p) :
                         g.value = f.value => Alike(f, g) /\ ~g.unavailable
    <2> DEFINE all == parameters \cup body
    <2>1. IsFiniteSet(all) /\ \A h \in all : IsField(h)
        <3> HIDE DEF parameters, body
        <3> QED BY <1>5, <1>6, FS_Union DEF OfParameter
    <2>2. PICK g \in all :
              /\ Alike(f, g)
              /\ ~f.unavailable =>
                    ~g.unavailable /\ \A h \in all : h.value = f.value => h = g
        <3> HIDE DEF all
        <3> QED BY <1>8, <2>1, UniqueComes DEF all
    <2>3. /\ \A s \in a.body :
                \A h \in Fields(s, "target", "request-body", a.bodyRequired) : h \in all
          /\ \A p \in CanBeTaken(a) : \A h \in ParameterFields(p) : h \in all
        BY DEF CanBeTaken
    <2>4. \/ \E s \in a.body : g \in Fields(s, "target", "request-body", a.bodyRequired)
          \/ \E q \in CanBeTaken(a) : g \in ParameterFields(q)
        BY DEF CanBeTaken
    <2> HIDE DEF all
    <2>5. ASSUME NEW q \in CanBeTaken(a), g \in ParameterFields(q)
          PROVE  OfParameter(f) /\ f.value = [kind |-> q.location, place |-> <<q.name>>]
        <3>1. /\ q.location \in {"path", "query", "header"} /\ q.schema \in DOMAIN Schemas
              /\ q.required \in BOOLEAN
            BY <1>1 DEF CanBeTaken
        <3>2. OfParameter(g) /\ g.value = [kind |-> q.location, place |-> <<q.name>>]
            BY <2>5, <3>1, ParameterFieldsAre
        <3>3. f.value = g.value
            BY <2>2 DEF Alike
        <3>4. OfBody(f, "request-body") \/ OfParameter(f)
            BY <1>3, <1>8, CatalogIs DEF Listed
        <3> QED BY <3>2, <3>3, <3>4 DEF OfParameter, OfBody
    <2> QED BY <2>2, <2>3, <2>4, <2>5
<1> QED BY <1>3, <1>7, <1>8

(* An available field of a parameter says what the parameter says.         *)
LEMMA ParameterSays ==
    ASSUME NEW a \in Apis, NEW f \in createMappingCatalog(a).targets, OfParameter(f),
           ~f.unavailable, NEW p \in SameParameter(a.parameters, f.value)
    PROVE  /\ p \in CanBeTaken(a) /\ f.value = [kind |-> p.location, place |-> <<p.name>>]
           /\ Schemas[p.schema].types \cap ScalarTypes # {} => SaysAs(f, p.schema)
<1>1. a.bodyRequired \in BOOLEAN /\ a.body \subseteq DOMAIN Schemas
      /\ \A q \in a.parameters : q.schema \in DOMAIN Schemas /\ q.required \in BOOLEAN
    BY SchemasAssumption
<1>2. ASSUME NEW s \in a.body, NEW g \in Fields(s, "target", "request-body", a.bodyRequired),
             Alike(f, g)
      PROVE  FALSE
    <2>1. OfBody(g, "request-body")
        BY <1>1, <1>2, FieldsAre
    <2> QED BY <1>2, <2>1 DEF Alike, OfBody, OfParameter
<1>3. PICK q \in CanBeTaken(a) : f.value = [kind |-> q.location, place |-> <<q.name>>]
    BY <1>2, CatalogComes
<1>4. p \in CanBeTaken(a) /\ p.location = q.location /\ p.name = q.name
    BY <1>3 DEF SameParameter, CanBeTaken
<1>5. f.value = [kind |-> p.location, place |-> <<p.name>>]
    BY <1>3, <1>4
<1>6. ASSUME Schemas[p.schema].types \cap ScalarTypes # {} PROVE SaysAs(f, p.schema)
    <2>1. /\ p.location \in {"path", "query", "header"} /\ p.schema \in DOMAIN Schemas
          /\ p.required \in BOOLEAN
        BY <1>1, <1>4 DEF CanBeTaken
    <2>2. PICK g \in ParameterFields(p) : SaysAs(g, p.schema)
        BY <1>6, <2>1, ParameterIsFound
    <2>3. OfParameter(g) /\ g.value = [kind |-> p.location, place |-> <<p.name>>]
        BY <2>1, <2>2, ParameterFieldsAre
    <2>4. Alike(f, g)
        BY <1>4, <1>5, <2>2, <2>3, CatalogComes
    <2> QED BY <2>2, <2>4 DEF Alike, SaysAs
<1> QED BY <1>4, <1>5, <1>6

-----------------------------------------------------------------------------
(* Indices have been asked for where the field has its stars.              *)
IsChoice(choice, f) ==
    /\ choice.value = f.value
    /\ choice = [value |-> choice.value, indices |-> choice.indices]
    /\ choice.indices = [i \in f.slots |-> choice.indices[i]]

(* The place that is chosen has the tokens of the field, but for indices.  *)
LEMMA SelectedIs ==
    ASSUME NEW f, IsField(f), NEW choice, IsChoice(choice, f)
    PROVE  LET value == selectMappingValue(choice)
           IN /\ value.kind = f.value.kind /\ Len(value.place) = Len(f.value.place)
              /\ DOMAIN value.place = 1 .. Len(f.value.place)
              /\ \A i \in 1 .. Len(f.value.place) :
                    value.place[i] = IF i \in f.slots THEN choice.indices[i]
                                     ELSE f.value.place[i]
<1> DEFINE n == Len(f.value.place)
           place == [i \in 1 .. n |-> IF i \in DOMAIN choice.indices THEN choice.indices[i]
                                      ELSE f.value.place[i]]
<1>1. /\ choice.value = [kind |-> f.value.kind, place |-> f.value.place]
      /\ n \in Nat /\ DOMAIN f.value.place = 1 .. n
      /\ DOMAIN choice.indices = f.slots /\ f.slots \subseteq 1 .. n
    BY DEF IsChoice, IsField
<1>2. selectMappingValue(choice) = [kind |-> f.value.kind, place |-> place]
    <2> HIDE DEF n
    <2>1. choice.value.place = f.value.place
        BY <1>1
    <2> QED BY <1>1, <2>1 DEF selectMappingValue
<1> HIDE DEF n
<1>3. Len(place) = n /\ DOMAIN place = 1 .. n
    BY <1>1
<1>4. selectMappingValue(choice).kind = f.value.kind /\ selectMappingValue(choice).place = place
    BY <1>2
<1>5. \A i \in 1 .. n : place[i] = IF i \in f.slots THEN choice.indices[i] ELSE f.value.place[i]
    BY <1>1
<1> HIDE DEF place
<1> QED BY <1>3, <1>4, <1>5 DEF n

(* The tokens of a value are counted from one.                             *)
WellPlaced(value) ==
    Len(value.place) \in Nat /\ DOMAIN value.place = 1 .. Len(value.place)

(* No two that fit one value are told apart.                               *)
LEMMA OneValueFits ==
    ASSUME NEW kind \in {"response-body", "request-body"},
           NEW f, OfBody(f, kind) \/ OfParameter(f), NEW g, OfBody(g, kind) \/ OfParameter(g),
           NEW value, WellPlaced(value), Fits(f, value), Fits(g, value)
    PROVE  f.value = g.value
<1> DEFINE n == Len(value.place)
<1>1. IsField(f) /\ IsField(g) /\ f.value.kind = value.kind /\ g.value.kind = value.kind
    BY DEF OfBody, OfParameter, Fits
<1>2. /\ Len(f.value.place) = n /\ Len(g.value.place) = n
      /\ \A i \in 1 .. n : /\ IF i \in f.slots THEN value.place[i] \in Numerals
                              ELSE value.place[i] = f.value.place[i]
                           /\ IF i \in g.slots THEN value.place[i] \in Numerals
                              ELSE value.place[i] = g.value.place[i]
    BY DEF Fits, WellPlaced
<1> HIDE DEF n
<1>3. ASSUME NEW i \in 1 .. n PROVE f.value.place[i] = g.value.place[i]
    <2>1. CASE OfBody(f, kind)
        <3>1. OfBody(g, kind)
            BY <1>1, <2>1 DEF OfBody, OfParameter
        <3>2. f.value.place[i] \in Tokens /\ g.value.place[i] \in Tokens
            BY <1>2, <2>1, <3>1 DEF OfBody
        <3>3. /\ i \in f.slots <=> f.value.place[i] = "*"
              /\ i \in g.slots <=> g.value.place[i] = "*"
            BY <1>2, <2>1, <3>1 DEF OfBody, Stars
        <3>4. f.value.place[i] \notin Numerals /\ g.value.place[i] \notin Numerals
            BY <3>2, TokensAreNoNumbers
        <3> QED BY <1>2, <3>3, <3>4
    <2>2. CASE OfParameter(f)
        <3>1. OfParameter(g)
            BY <1>1, <2>2 DEF OfBody, OfParameter
        <3> QED BY <1>2, <2>2, <3>1 DEF OfParameter
    <2> QED BY <2>1, <2>2
<1>4. f.value.place = g.value.place
    BY <1>1, <1>2, <1>3 DEF IsField
<1> QED BY <1>1, <1>4 DEF IsField

(* Of the fields listed, just the one chosen fits what is given out.       *)
LEMMA OneFits ==
    ASSUME NEW fields, NEW kind \in {"response-body", "request-body"}, Listed(fields, kind),
           NEW f \in fields, NEW choice, IsChoice(choice, f), Complete(choice),
           NEW g \in fields
    PROVE  Fits(g, selectMappingValue(choice)) <=> g = f
<1> DEFINE value == selectMappingValue(choice)
           n == Len(f.value.place)
<1>1. IsField(f) /\ (OfBody(f, kind) \/ OfParameter(f)) /\ (OfBody(g, kind) \/ OfParameter(g))
    BY DEF Listed, OfBody, OfParameter
<1>2. /\ value.kind = f.value.kind /\ Len(value.place) = n
      /\ DOMAIN value.place = 1 .. n
      /\ \A i \in 1 .. n : value.place[i] = IF i \in f.slots THEN choice.indices[i]
                                            ELSE f.value.place[i]
    BY <1>1, SelectedIs
<1>3. \A i \in f.slots : choice.indices[i] \in Numerals
    BY TokensAssumption DEF Complete, IsChoice
<1>4. n \in Nat
    BY <1>1 DEF IsField
<1> HIDE DEF value, n
<1>5. Fits(f, value) /\ WellPlaced(value)
    BY <1>2, <1>3, <1>4 DEF Fits, WellPlaced, n
<1>6. ASSUME Fits(g, value) PROVE g = f
    <2>1. f.value = g.value
        BY <1>1, <1>5, <1>6, OneValueFits
    <2> QED BY <2>1 DEF Listed
<1> QED BY <1>5, <1>6 DEF value

(* What was given out is chosen again as it was.                           *)
LEMMA ChosenAgain ==
    ASSUME NEW fields, NEW kind \in {"response-body", "request-body"}, Listed(fields, kind),
           NEW f \in fields, NEW choice, IsChoice(choice, f), Complete(choice)
    PROVE  initialFieldSelection(fields, selectMappingValue(choice)) = choice
<1> DEFINE value == selectMappingValue(choice)
<1>1. \A g \in fields : Fits(g, value) <=> g = f
    BY OneFits
<1>2. \A i \in f.slots : value.place[i] = choice.indices[i]
    <2>1. IsField(f)
        BY DEF Listed, OfBody, OfParameter
    <2> QED BY <2>1, SelectedIs DEF IsField
<1> HIDE DEF value
<1>3. (CHOOSE g \in fields : Fits(g, value)) = f
    BY <1>1
<1>4. initialFieldSelection(fields, value) =
        [value |-> f.value, indices |-> [i \in f.slots |-> value.place[i]]]
    BY <1>1, <1>3 DEF initialFieldSelection
<1>5. choice = [value |-> f.value, indices |-> [i \in f.slots |-> choice.indices[i]]]
    BY DEF IsChoice
<1> QED BY <1>2, <1>4, <1>5 DEF value

-----------------------------------------------------------------------------
(* The walk of the panel.                                                  *)
Passer == [schema : DOMAIN Schemas, at : Nat, depth : Nat, required : BOOLEAN]

PassedOn(passers, place) ==
    UNION {UNION {Passed(p, v, place) : v \in expandSchema(p.schema)} : p \in passers}

(* Those that come from some are such ones again.                          *)
LEMMA PassedOnIs ==
    ASSUME NEW passers \in SUBSET Passer, NEW place
    PROVE  PassedOn(passers, place) \in SUBSET Passer
<1>1. SUFFICES ASSUME NEW p \in passers, NEW v \in expandSchema(p.schema),
                      NEW next \in Passed(p, v, place)
               PROVE  next \in Passer
    BY DEF PassedOn
<1>2. p \in Passer /\ v \in DOMAIN Schemas
    BY ExpansionsAre DEF Passer
<1>3. \/ \E t \in {Schemas[v].items} \ {Absent} :
            next = [p EXCEPT !.schema = t, !.depth = @ + 1,
                             !.at = IF place[@ + 1] \in Numerals THEN @ + 1 ELSE @]
      \/ \E n \in DOMAIN Schemas[v].properties :
            next = [p EXCEPT !.schema = Schemas[v].properties[n], !.at = @ + 1,
                             !.required = n \in Schemas[v].required]
    BY DEF Passed
<1>4. /\ \A t \in {Schemas[v].items} \ {Absent} : t \in DOMAIN Schemas
      /\ \A n \in DOMAIN Schemas[v].properties : Schemas[v].properties[n] \in DOMAIN Schemas
    BY <1>2, SchemasAssumption
<1>5. ASSUME NEW t \in {Schemas[v].items} \ {Absent},
             next = [p EXCEPT !.schema = t, !.depth = @ + 1,
                              !.at = IF place[@ + 1] \in Numerals THEN @ + 1 ELSE @]
      PROVE  next \in Passer
    <2>1. PICK at \in Nat : next = [schema |-> t, at |-> at, depth |-> p.depth + 1,
                                    required |-> p.required]
        <3>1. next = [schema |-> t, depth |-> p.depth + 1, required |-> p.required,
                      at |-> IF place[p.at + 1] \in Numerals THEN p.at + 1 ELSE p.at]
            BY <1>2, <1>5 DEF Passer
        <3>2. p.at \in Nat /\ p.at + 1 \in Nat
            BY <1>2 DEF Passer
        <3> QED BY <3>1, <3>2
    <2>2. p.depth + 1 \in Nat /\ p.required \in BOOLEAN /\ t \in DOMAIN Schemas
        BY <1>2, <1>4, <1>5 DEF Passer
    <2> QED BY <2>1, <2>2 DEF Passer
<1>6. ASSUME NEW n \in DOMAIN Schemas[v].properties,
             next = [p EXCEPT !.schema = Schemas[v].properties[n], !.at = @ + 1,
                              !.required = n \in Schemas[v].required]
      PROVE  next \in Passer
    <2>1. next = [schema |-> Schemas[v].properties[n], at |-> p.at + 1, depth |-> p.depth,
                  required |-> n \in Schemas[v].required]
        BY <1>2, <1>6 DEF Passer
    <2>2. p.at + 1 \in Nat /\ p.depth \in Nat /\ Schemas[v].properties[n] \in DOMAIN Schemas
        BY <1>2, <1>4, <1>6 DEF Passer
    <2> QED BY <2>1, <2>2 DEF Passer
<1> QED BY <1>3, <1>5, <1>6

(* What the panel comes to with a list or name less after the other.       *)
PassesOn(far, root, place) ==
    /\ far \in [0 .. Len(place) + MaxTokens -> SUBSET Passer]
    /\ far[0] = {[schema |-> root, at |-> 0, depth |-> 0, required |-> FALSE]}
    /\ \A n \in 1 .. Len(place) + MaxTokens : far[n] = PassedOn(far[n - 1], place)

(* The panel finds all schemas of those that have used the pointer up.     *)
LEMMA PanelIs ==
    ASSUME NEW root \in DOMAIN Schemas, NEW place, Len(place) \in Nat
    PROVE  \E far :
              /\ PassesOn(far, root, place)
              /\ \A n \in 0 .. Len(place) + MaxTokens : \A p \in far[n] :
                    p.at = Len(place) =>
                        \A v \in expandSchema(p.schema) :
                            [p EXCEPT !.schema = v] \in resolveSchemaPointer(root, place)
<1> DEFINE k == Len(place) + MaxTokens
           V == SUBSET Passer
           base == {[schema |-> root, at |-> 0, depth |-> 0, required |-> FALSE]}
           step == [p \in Int \X V |-> PassedOn(p[2], place)]
           Is(g) == g = [n \in 0 .. k |-> IF n = 0 THEN base ELSE PassedOn(g[n - 1], place)]
           all == CHOOSE g : Is(g)
<1>1. k \in Nat
    <2>1. \A a \in Nat, b \in Nat : a + b \in Nat
        OBVIOUS
    <2> QED BY <2>1, TokensAssumption
<1>2. base \in V
    BY DEF Passer
<1>3. \A T \in V : PassedOn(T, place) \in V
    BY PassedOnIs
<1>4. step \in [Int \X V -> V]
    <2> HIDE DEF V
    <2> QED BY <1>3
<1> HIDE DEF k
<1>5. PICK g \in [0 .. k -> V] : IsRecursion(g, k, base, step)
    <2> HIDE DEF step, V, base
    <2> QED BY <1>1, <1>2, <1>4, RecursionExists
<1>6. ASSUME NEW n \in 1 .. k PROVE g[n] = PassedOn(g[n - 1], place)
    <2> HIDE DEF V, base
    <2>1. n - 1 \in 0 .. k /\ n \in Int
        BY <1>1
    <2>2. g[n] = step[<<n, g[n - 1]>>] /\ g[n - 1] \in V
        BY <1>5, <2>1 DEF IsRecursion
    <2> QED BY <2>1, <2>2
<1>7. g[0] = base
    BY <1>5 DEF IsRecursion
<1>8. Is(g)
    <2> HIDE DEF V, base
    <2>1. \A n \in 0 .. k : n # 0 => n \in 1 .. k
        BY <1>1
    <2> QED BY <1>5, <1>6, <1>7, <2>1
<1>9. Is(all)
    <2> HIDE DEF Is
    <2> QED BY <1>8
<1>10. resolveSchemaPointer(root, place) =
          UNION {{[p EXCEPT !.schema = v] : v \in expandSchema(p.schema)} :
                    p \in {q \in UNION {all[n] : n \in DOMAIN all} : q.at = Len(place)}}
    BY DEF resolveSchemaPointer, PassedOn, k
<1> HIDE DEF all
<1>11. all[0] = base /\ \A n \in 1 .. k : all[n] = PassedOn(all[n - 1], place)
    <2> HIDE DEF base
    <2>1. 0 \in 0 .. k /\ \A n \in 1 .. k : n \in 0 .. k /\ n # 0
        BY <1>1
    <2> QED BY <1>9, <2>1
<1> DEFINE P == {n \in 0 .. k : all[n] \in V}
<1>12. \A n \in 0 .. k : n \in P
    <2> HIDE DEF base, V
    <2>1. 0 \in P
        BY <1>1, <1>2, <1>11
    <2>2. ASSUME NEW n \in 1 .. k, n - 1 \in P PROVE n \in P
        BY <1>1, <1>3, <1>11, <2>2
    <2> HIDE DEF P
    <2> QED BY <1>1, <2>1, <2>2, UpToInduction
<1>13. all \in [0 .. k -> V]
    <2> HIDE DEF V, base
    <2>1. all = [n \in 0 .. k |-> IF n = 0 THEN base ELSE PassedOn(all[n - 1], place)]
        BY <1>9
    <2>2. \A n \in 0 .. k : all[n] \in V
        BY <1>12
    <2> HIDE DEF Is
    <2>3. DOMAIN all = 0 .. k /\ all = [n \in 0 .. k |-> all[n]]
        BY <2>1
    <2> QED BY <2>2, <2>3
<1>14. PassesOn(all, root, place)
    BY <1>11, <1>13 DEF PassesOn, k
<1>15. ASSUME NEW n \in 0 .. k, NEW p \in all[n], p.at = Len(place),
              NEW v \in expandSchema(p.schema)
       PROVE  [p EXCEPT !.schema = v] \in resolveSchemaPointer(root, place)
    <2> HIDE DEF V
    <2>1. n \in DOMAIN all
        BY <1>13
    <2>2. p \in {q \in UNION {all[m] : m \in DOMAIN all} : q.at = Len(place)}
        BY <1>15, <2>1
    <2>3. [p EXCEPT !.schema = v] \in {[p EXCEPT !.schema = u] : u \in expandSchema(p.schema)}
        BY <1>15
    <2> DEFINE S == {q \in UNION {all[m] : m \in DOMAIN all} : q.at = Len(place)}
               more(q) == {[q EXCEPT !.schema = u] : u \in expandSchema(q.schema)}
    <2>4. resolveSchemaPointer(root, place) = UNION {more(q) : q \in S}
        BY <1>10
    <2>5. p \in S /\ [p EXCEPT !.schema = v] \in more(p)
        BY <2>2, <2>3
    <2> HIDE DEF S, more
    <2> QED BY <2>4, <2>5
<1> QED BY <1>14, <1>15 DEF k

(* A pointer goes along with one of the dialog: an index for each star.    *)
Along(place, w) ==
    /\ Len(w.place) <= Len(place)
    /\ \A i \in 1 .. Len(w.place) :
          IF i \in w.slots THEN place[i] \in Numerals ELSE place[i] = w.place[i]

(* Wherever the dialog goes along a pointer the panel comes, too, and has  *)
(* passed as many lists.                                                   *)
LEMMA PanelFollows ==
    ASSUME NEW s \in DOMAIN Schemas, NEW side, NEW required, NEW far,
           GoesFurther(far, s, side, required),
           NEW place, Len(place) \in Nat, NEW panel, PassesOn(panel, s, place)
    PROVE  \A n \in 0 .. MaxTokens : \A w \in far[n] :
              /\ Len(w.place) = n
              /\ Along(place, w) =>
                    \E p \in panel[n] : /\ p.schema = w.schema /\ p.at = n
                                        /\ p.depth = Cardinality(w.slots)
<1> DEFINE Comes(n, w) == \E p \in panel[n] : /\ p.schema = w.schema /\ p.at = n
                                              /\ p.depth = Cardinality(w.slots)
           P == {n \in 0 .. MaxTokens : \A w \in far[n] :
                    Len(w.place) = n /\ (Along(place, w) => Comes(n, w))}
<1>1. MaxTokens \in Nat
    BY TokensAssumption
<1>2. 0 \in P
    <2>1. SUFFICES ASSUME NEW w \in far[0] PROVE Len(w.place) = 0 /\ Comes(0, w)
        BY <1>1
    <2>2. w = Begin(s, required)
        BY <2>1 DEF GoesFurther
    <2>3. w.place = <<>> /\ w.slots = {} /\ w.schema = s
        BY <2>2 DEF Begin
    <2>4. Cardinality({}) = 0
        BY FS_EmptySet
    <2>5. panel[0] = {[schema |-> s, at |-> 0, depth |-> 0, required |-> FALSE]}
        BY DEF PassesOn
    <2> QED BY <2>3, <2>4, <2>5
<1>3. ASSUME NEW n \in 1 .. MaxTokens, n - 1 \in P PROVE n \in P
    <2>1. SUFFICES ASSUME NEW next \in far[n]
                   PROVE  Len(next.place) = n /\ (Along(place, next) => Comes(n, next))
        BY <1>1
    <2>2. PICK w \in far[n - 1] : next \in Onward(w, side)
        <3>1. far[n] = Further(far[n - 1], side)
            BY DEF GoesFurther
        <3> QED BY <2>1, <3>1 DEF Further
    <2>3. w \in Walk /\ n - 1 \in Nat
        BY <1>1, <2>2 DEF GoesFurther
    <2>4. PICK v \in expandSchema(w.schema) : ByIndex(w, next, v) \/ ByName(w, next, v)
        BY <2>2, <2>3, OnwardIs
    <2>5. /\ Len(w.place) = n - 1 /\ w.place \in Seq(Tokens) /\ w.slots = Stars(w.place)
          /\ Along(place, w) => Comes(n - 1, w)
        BY <1>3, <2>2, <2>3 DEF Walk, Walker
    <2>6. w.slots \in SUBSET (1 .. n - 1) /\ n \notin w.slots
        BY <2>3, <2>5 DEF Stars
    <2>7. PICK token : /\ next.place = Append(w.place, token)
                       /\ \/ ByIndex(w, next, v)
                          \/ /\ token \in DOMAIN Schemas[v].properties /\ next.slots = w.slots
                             /\ next.schema = Schemas[v].properties[token]
        BY <2>4 DEF ByIndex, ByName
    <2>8. /\ Len(next.place) = n /\ next.place[n] = token
          /\ \A i \in 1 .. n - 1 : next.place[i] = w.place[i]
        BY <2>3, <2>5, <2>7
    <2>9. ASSUME Along(place, next) PROVE Comes(n, next)
        <3>1. /\ n <= Len(place)
              /\ \A i \in 1 .. n : IF i \in next.slots THEN place[i] \in Numerals
                                   ELSE place[i] = next.place[i]
            BY <2>8, <2>9 DEF Along
        <3>2. \A i \in 1 .. n - 1 : i \in next.slots <=> i \in w.slots
            BY <2>3, <2>5, <2>7 DEF ByIndex
        <3>3. Along(place, w)
            BY <2>3, <2>5, <2>8, <3>1, <3>2 DEF Along
        <3>4. PICK p \in panel[n - 1] : /\ p.schema = w.schema /\ p.at = n - 1
                                        /\ p.depth = Cardinality(w.slots)
            BY <2>5, <3>3
        <3>5. p \in Passer /\ v \in expandSchema(p.schema) /\ p.at < Len(place) /\ p.at + 1 = n
            <4>1. n - 1 \in 0 .. Len(place) + MaxTokens
                BY <1>1, <2>3
            <4> QED BY <2>3, <2>4, <3>1, <3>4, <4>1 DEF PassesOn
        <3>6. \A q \in Passed(p, v, place) : q \in panel[n]
            <4>1. n \in 1 .. Len(place) + MaxTokens
                BY <1>1, <2>3
            <4>2. panel[n] = PassedOn(panel[n - 1], place)
                BY <4>1 DEF PassesOn
            <4> QED BY <3>4, <3>5, <4>2 DEF PassedOn
        <3>7. CASE ByIndex(w, next, v)
            <4> DEFINE q == [p EXCEPT !.schema = Schemas[v].items, !.depth = p.depth + 1, !.at = n]
            <4>1. place[n] \in Numerals /\ next.slots = w.slots \cup {n}
                BY <2>3, <2>5, <3>1, <3>7 DEF ByIndex
            <4>2. q \in Passed(p, v, place)
                BY <3>5, <3>7, <4>1 DEF Passed, ByIndex
            <4>3. Cardinality(next.slots) = Cardinality(w.slots) + 1
                <5>1. IsFiniteSet(w.slots)
                    <6>1. IsFiniteSet(1 .. n - 1)
                        BY <2>3, FS_Interval
                    <6> QED BY <2>6, <6>1, FS_Subset
                <5>2. Cardinality(w.slots \cup {n}) = Cardinality(w.slots) + 1
                    BY <2>6, <5>1, FS_AddElement
                <5> QED BY <4>1, <5>2
            <4>4. q.schema = next.schema /\ q.at = n /\ q.depth = Cardinality(next.slots)
                BY <3>4, <3>5, <3>7, <4>3 DEF Passer, ByIndex
            <4> HIDE DEF q
            <4> QED BY <3>6, <4>2, <4>4
        <3>8. CASE token \in DOMAIN Schemas[v].properties /\ next.slots = w.slots
                   /\ next.schema = Schemas[v].properties[token]
            <4> DEFINE q == [p EXCEPT !.schema = Schemas[v].properties[token], !.at = n,
                                      !.required = token \in Schemas[v].required]
            <4>1. place[n] = token
                BY <2>3, <2>6, <2>8, <3>1, <3>8
            <4>2. q \in Passed(p, v, place)
                BY <3>5, <3>8, <4>1 DEF Passed
            <4>3. q.schema = next.schema /\ q.at = n /\ q.depth = Cardinality(next.slots)
                BY <3>4, <3>5, <3>8 DEF Passer
            <4> HIDE DEF q
            <4> QED BY <3>6, <4>2, <4>3
        <3> QED BY <2>7, <3>7, <3>8
    <2> QED BY <2>8, <2>9
<1> HIDE DEF P
<1>4. \A n \in 0 .. MaxTokens : n \in P
    BY <1>1, <1>2, <1>3, UpToInduction
<1> QED BY <1>4 DEF P

(* What the panel would say of a field.                                    *)
Shown(f) == [types |-> NonNull(f.types), format |-> f.format, depth |-> Cardinality(f.slots)]

(* Of a field that fits a pointer it is among what the panel finds there.  *)
LEMMA PanelShows ==
    ASSUME NEW s \in DOMAIN Schemas, NEW side, NEW kind, NEW required \in BOOLEAN,
           NEW f \in Fields(s, side, kind, required),
           NEW value, WellPlaced(value), Fits(f, value)
    PROVE  Shown(f) \in collapseSchemaMatches(resolveSchemaPointer(s, value.place))
<1> DEFINE place == value.place
<1>1. PICK far : /\ GoesFurther(far, s, side, required)
                 /\ Fields(s, side, kind, required) =
                      UNION {UNION {Found(w, side, kind) : w \in far[n]} : n \in 0 .. MaxTokens}
    BY FieldsAreOfWalks
<1>2. PICK n \in 0 .. MaxTokens : \E w \in far[n] : f \in Found(w, side, kind)
    BY <1>1
<1>3. PICK w \in far[n] : f \in Found(w, side, kind)
    BY <1>2
<1>4. w \in Walk
    BY <1>1, <1>3 DEF GoesFurther
<1>5. /\ OfBody(f, kind) /\ f.value.place = w.place /\ f.slots = w.slots
      /\ \E v \in expandSchema(w.schema) : SaysAs(f, v)
    BY <1>3, <1>4, FoundAre
<1>6. Len(place) \in Nat /\ Len(place) = Len(w.place)
    BY <1>5 DEF Fits, OfBody, IsField
<1>7. Along(place, w)
    BY <1>5, <1>6 DEF Fits, Along, WellPlaced
<1> HIDE DEF place
<1>8. PICK panel :
          /\ PassesOn(panel, s, place)
          /\ \A m \in 0 .. Len(place) + MaxTokens : \A p \in panel[m] :
                p.at = Len(place) =>
                    \A v \in expandSchema(p.schema) :
                        [p EXCEPT !.schema = v] \in resolveSchemaPointer(s, place)
    BY <1>6, PanelIs
<1>9. /\ Len(w.place) = n
      /\ \E p \in panel[n] : p.schema = w.schema /\ p.at = n /\ p.depth = Cardinality(w.slots)
    BY <1>1, <1>3, <1>6, <1>7, <1>8, PanelFollows
<1>10. PICK p \in panel[n] : p.schema = w.schema /\ p.at = n /\ p.depth = Cardinality(w.slots)
    BY <1>9
<1>11. PICK v \in expandSchema(w.schema) : SaysAs(f, v)
    BY <1>5
<1>12. n \in 0 .. Len(place) + MaxTokens
    <2>1. \A a \in Nat, b \in Nat : a \in 0 .. a + b
        OBVIOUS
    <2> QED BY <1>6, <1>9, <2>1, TokensAssumption
<1> DEFINE q == [p EXCEPT !.schema = v]
<1>13. q \in resolveSchemaPointer(s, place)
    BY <1>6, <1>8, <1>9, <1>10, <1>11, <1>12
<1>14. q.schema = v /\ q.depth = Cardinality(f.slots)
    BY <1>5, <1>8, <1>10, <1>12 DEF PassesOn, Passer
<1> HIDE DEF q
<1> QED BY <1>11, <1>13, <1>14 DEF collapseSchemaMatches, Shown, SaysAs, place

-----------------------------------------------------------------------------
(* What a pointer comes to, one token after the other.                     *)
Reached(S, token) ==
    UNION {expandSchema(t) : t \in
        {Schemas[s].properties[token] : s \in {x \in S : token \in DOMAIN Schemas[x].properties}}
        \cup {Schemas[s].items :
            s \in {x \in S : token \in Numerals /\ Schemas[x].items # Absent}}}

(* They are schemas of the document.                                       *)
LEMMA ReachedAre ==
    ASSUME NEW S \in SUBSET DOMAIN Schemas, NEW token
    PROVE  Reached(S, token) \in SUBSET DOMAIN Schemas
<1>1. \A s \in S : Schemas[s].items # Absent => Schemas[s].items \in DOMAIN Schemas
    BY SchemasAssumption
<1>2. \A s \in S : token \in DOMAIN Schemas[s].properties =>
          Schemas[s].properties[token] \in DOMAIN Schemas
    BY SchemasAssumption
<1> QED BY <1>1, <1>2, ExpansionsAre DEF Reached

(* One schema leads on, if any, and it leads to what is reached.           *)
LEMMA OneLeadsOn ==
    ASSUME NEW S \in SUBSET DOMAIN Schemas, NEW token,
           \A s, t \in S : Leads(s, token) /\ Leads(t, token) => s = t,
           Reached(S, token) # {}
    PROVE  \E s \in S :
              /\ Leads(s, token)
              /\ Reached(S, token) = expandSchema(IF token \in Numerals THEN Schemas[s].items
                                                  ELSE Schemas[s].properties[token])
<1>1. CASE token \in Numerals
    <2>1. \A s \in S : token \notin DOMAIN Schemas[s].properties
        BY <1>1, TokensAssumption
    <2> DEFINE T == {Schemas[s].items : s \in {x \in S : Schemas[x].items # Absent}}
    <2>2. Reached(S, token) = UNION {expandSchema(t) : t \in T}
        BY <1>1, <2>1 DEF Reached
    <2>3. PICK s \in S : Schemas[s].items # Absent
        BY <2>2
    <2>4. T = {Schemas[s].items}
        BY <1>1, <2>3 DEF Leads
    <2> HIDE DEF T
    <2>5. Reached(S, token) = expandSchema(Schemas[s].items)
        BY <2>2, <2>4
    <2> QED BY <1>1, <2>3, <2>5 DEF Leads
<1>2. CASE token \notin Numerals
    <2> DEFINE T == {Schemas[s].properties[token] :
                        s \in {x \in S : token \in DOMAIN Schemas[x].properties}}
    <2>1. Reached(S, token) = UNION {expandSchema(t) : t \in T}
        BY <1>2 DEF Reached
    <2>2. PICK s \in S : token \in DOMAIN Schemas[s].properties
        BY <2>1
    <2>3. T = {Schemas[s].properties[token]}
        BY <1>2, <2>2 DEF Leads
    <2> HIDE DEF T
    <2>4. Reached(S, token) = expandSchema(Schemas[s].properties[token])
        BY <2>1, <2>3
    <2> QED BY <1>2, <2>2, <2>4 DEF Leads
<1> QED BY <1>1, <1>2

GoesOn(at, root, place) ==
    /\ at \in [0 .. Len(place) -> SUBSET DOMAIN Schemas]
    /\ at[0] = expandSchema(root)
    /\ \A n \in 1 .. Len(place) : at[n] = Reached(at[n - 1], place[n])

(* The schemas on the way, one token after the other.                      *)
LEMMA OnTheWayIs ==
    ASSUME NEW root \in DOMAIN Schemas, NEW place, Len(place) \in Nat
    PROVE  GoesOn(OnTheWay(root, place), root, place)
<1> DEFINE k == Len(place)
           V == SUBSET DOMAIN Schemas
           base == expandSchema(root)
           step == [p \in Int \X V |-> Reached(p[2], place[p[1]])]
           Is(g) == g = [n \in 0 .. k |-> IF n = 0 THEN base ELSE Reached(g[n - 1], place[n])]
           all == CHOOSE g : Is(g)
<1>1. k \in Nat
    OBVIOUS
<1>2. base \in V
    BY ExpansionsAre
<1>3. \A T \in V : \A token : Reached(T, token) \in V
    BY ReachedAre
<1>4. step \in [Int \X V -> V]
    <2> HIDE DEF V
    <2> QED BY <1>3
<1> HIDE DEF k
<1>5. PICK g \in [0 .. k -> V] : IsRecursion(g, k, base, step)
    <2> HIDE DEF step, V, base
    <2> QED BY <1>1, <1>2, <1>4, RecursionExists
<1>6. ASSUME NEW n \in 1 .. k PROVE g[n] = Reached(g[n - 1], place[n])
    <2> HIDE DEF V, base
    <2>1. n - 1 \in 0 .. k /\ n \in Int
        BY <1>1
    <2>2. g[n] = step[<<n, g[n - 1]>>] /\ g[n - 1] \in V
        BY <1>5, <2>1 DEF IsRecursion
    <2> QED BY <2>1, <2>2
<1>7. g[0] = base
    BY <1>5 DEF IsRecursion
<1>8. Is(g)
    <2> HIDE DEF V, base
    <2>1. \A n \in 0 .. k : n # 0 => n \in 1 .. k
        BY <1>1
    <2> QED BY <1>5, <1>6, <1>7, <2>1
<1>9. Is(all)
    <2> HIDE DEF Is
    <2> QED BY <1>8
<1>10. OnTheWay(root, place) = all
    BY DEF OnTheWay, Reached, k
<1> HIDE DEF all
<1>11. all[0] = base /\ \A n \in 1 .. k : all[n] = Reached(all[n - 1], place[n])
    <2> HIDE DEF base
    <2>1. 0 \in 0 .. k /\ \A n \in 1 .. k : n \in 0 .. k /\ n # 0
        BY <1>1
    <2> QED BY <1>9, <2>1
<1> DEFINE P == {n \in 0 .. k : all[n] \in V}
<1>12. \A n \in 0 .. k : n \in P
    <2> HIDE DEF base, V
    <2>1. 0 \in P
        BY <1>1, <1>2, <1>11
    <2>2. ASSUME NEW n \in 1 .. k, n - 1 \in P PROVE n \in P
        BY <1>1, <1>3, <1>11, <2>2
    <2> HIDE DEF P
    <2> QED BY <1>1, <2>1, <2>2, UpToInduction
<1>13. all \in [0 .. k -> V]
    <2> HIDE DEF V, base
    <2>1. all = [n \in 0 .. k |-> IF n = 0 THEN base ELSE Reached(all[n - 1], place[n])]
        BY <1>9
    <2>2. \A n \in 0 .. k : all[n] \in V
        BY <1>12
    <2> HIDE DEF Is
    <2>3. DOMAIN all = 0 .. k /\ all = [n \in 0 .. k |-> all[n]]
        BY <2>1
    <2> QED BY <2>2, <2>3
<1> QED BY <1>10, <1>11, <1>13 DEF GoesOn, k

(* What comes to something has something all along.                        *)
LEMMA SomethingAllAlong ==
    ASSUME NEW at, NEW root, NEW place, Len(place) \in Nat, GoesOn(at, root, place),
           at[Len(place)] # {}
    PROVE  \A n \in 0 .. Len(place) : at[n] # {}
<1> DEFINE k == Len(place)
           P == {n \in 0 .. k : at[k - n] # {}}
<1> HIDE DEF k
<1>1. k \in Nat /\ at[k] # {}
    BY DEF k
<1>2. 0 \in P
    BY <1>1
<1>3. ASSUME NEW n \in 1 .. k, n - 1 \in P PROVE n \in P
    <2> DEFINE m == k - n + 1
    <2>1. m \in 1 .. k /\ k - (n - 1) = m /\ m - 1 = k - n /\ n \in 0 .. k
        BY <1>1
    <2>2. at[m] # {}
        BY <1>3, <2>1
    <2> HIDE DEF m
    <2>3. at[m] = Reached(at[m - 1], place[m])
        BY <2>1 DEF GoesOn, k
    <2>4. at[m - 1] # {}
        BY <2>2, <2>3 DEF Reached
    <2> QED BY <2>1, <2>4
<1> HIDE DEF P
<1>4. \A n \in 0 .. k : n \in P
    BY <1>1, <1>2, <1>3, UpToInduction
<1>5. ASSUME NEW n \in 0 .. k PROVE at[n] # {}
    <2>1. k - n \in 0 .. k /\ k - (k - n) = n
        BY <1>1
    <2>2. k - n \in P
        BY <1>4, <2>1
    <2> QED BY <2>1, <2>2 DEF P
<1> QED BY <1>5 DEF k

(* What a walk knows of the schemas it has passed.                         *)
Marked(v, side) == IF side = "source" THEN Schemas[v].writeOnly ELSE Schemas[v].readOnly

AskedUpTo(at, place, n) ==
    \A i \in 1 .. n :
        place[i] \in Numerals \/ \E x \in at[i - 1] : place[i] \in Schemas[x].required

Knows(w, at, n, side, required, place) ==
    /\ Len(w.place) = n /\ Along(place, w)
    /\ at[n] = expandSchema(w.schema)
    /\ w.required <=> required /\ AskedUpTo(at, place, n)
    /\ w.barred <=> \E i \in 0 .. n - 1 : \E x \in at[i] : Marked(x, side)
    /\ w.nullable <=> \E i \in 0 .. n - 1 : \E x \in at[i] : Nullable(x)
    /\ \A x \in w.above : \E i \in 0 .. n : at[i] = expandSchema(x)

(* Going down it knows what it has seen where it was.                      *)
LEMMA DownKnows ==
    ASSUME NEW w \in Walk, NEW side, NEW s \in DOMAIN Schemas, NEW token \in Tokens
    PROVE  LET d == Down(w, side, s, token)
           IN /\ d.required = w.required /\ d.above = w.above \cup {s}
              /\ d.barred <=> w.barred \/ \E v \in expandSchema(w.schema) : Marked(v, side)
              /\ d.nullable <=> w.nullable \/ \E v \in expandSchema(w.schema) : Nullable(v)
<1> DEFINE barred == Barred(w, side)
           nullable == MaybeNull(w)
<1>1. Down(w, side, s, token) =
          [w EXCEPT !.schema = s, !.place = Append(w.place, token), !.above = w.above \cup {s},
                    !.barred = barred, !.nullable = nullable]
    BY DEF Down
<1>2. /\ barred <=> w.barred \/ \E v \in expandSchema(w.schema) : Marked(v, side)
      /\ nullable <=> w.nullable \/ \E v \in expandSchema(w.schema) : Nullable(v)
    BY DEF Barred, Marked, MaybeNull
<1> HIDE DEF barred, nullable
<1>3. w \in Walker
    BY DEF Walk
<1>4. /\ Down(w, side, s, token).required = w.required
      /\ Down(w, side, s, token).above = w.above \cup {s}
      /\ Down(w, side, s, token).barred = barred /\ Down(w, side, s, token).nullable = nullable
    BY <1>1, <1>3 DEF Walker
<1> QED BY <1>2, <1>4

(* The walk goes on along the pointer to what is reached there.            *)
LEMMA WalkGoesOn ==
    ASSUME NEW root \in DOMAIN Schemas, NEW side, NEW required \in BOOLEAN, NEW place,
           Len(place) \in Nat, DOMAIN place = 1 .. Len(place), Len(place) <= MaxTokens,
           NEW at, GoesOn(at, root, place), SaidAtOnce(at, place), WalkedThrough(at),
           NEW n \in 1 .. Len(place), at[n] # {},
           NEW w \in Walk, Knows(w, at, n - 1, side, required, place)
    PROVE  \E next \in Onward(w, side) : Knows(next, at, n, side, required, place)
<1> DEFINE token == place[n]
           S == at[n - 1]
           counted == token \in Numerals
<1>1. /\ n - 1 \in 0 .. Len(place) /\ n \in 0 .. Len(place) /\ n \in DOMAIN place
      /\ n - 1 \in Nat /\ S \in SUBSET DOMAIN Schemas /\ at[n] = Reached(S, token)
      /\ DOMAIN at = 0 .. Len(place)
    BY DEF GoesOn
<1>2. /\ \A x, y \in S : Leads(x, token) /\ Leads(y, token) => x = y
      /\ \A x \in S : token \in Schemas[x].required => token \in DOMAIN Schemas[x].properties
    BY <1>1 DEF SaidAtOnce
<1> HIDE DEF token, S
<1>3. PICK v \in S :
          /\ Leads(v, token)
          /\ at[n] = expandSchema(IF counted THEN Schemas[v].items
                                  ELSE Schemas[v].properties[token])
    BY <1>1, <1>2, OneLeadsOn
<1> DEFINE t == IF counted THEN Schemas[v].items ELSE Schemas[v].properties[token]
           sign == IF counted THEN "*" ELSE token
           d == Down(w, side, t, sign)
           next == IF counted THEN [d EXCEPT !.slots = @ \cup {Len(w.place) + 1}]
                   ELSE [d EXCEPT !.required = @ /\ token \in Schemas[v].required]
<1>4. v \in DOMAIN Schemas /\ v \in expandSchema(w.schema) /\ S = expandSchema(w.schema)
    BY <1>1 DEF Knows, S
<1>5. t \in DOMAIN Schemas /\ sign \in Tokens /\ at[n] = expandSchema(t)
    <2>1. CASE counted
        BY <1>3, <1>4, <2>1, SchemasAssumption, TokensAreNoNumbers DEF Leads
    <2>2. CASE ~counted
        BY <1>3, <1>4, <2>2, SchemasAssumption DEF Leads, Tokens
    <2> QED BY <2>1, <2>2
<1> HIDE DEF t, sign
<1>6. /\ d \in Walker /\ d.place = Append(w.place, sign) /\ d.slots = w.slots /\ d.schema = t
      /\ d.required = w.required /\ d.above = w.above \cup {t}
      /\ d.barred <=> w.barred \/ \E x \in S : Marked(x, side)
      /\ d.nullable <=> w.nullable \/ \E x \in S : Nullable(x)
    <2>1. /\ d \in Walker /\ d.place = Append(w.place, sign) /\ d.slots = w.slots
          /\ d.schema = t
        BY <1>5, DownIs
    <2>2. /\ d.required = w.required /\ d.above = w.above \cup {t}
          /\ d.barred <=> w.barred \/ \E x \in expandSchema(w.schema) : Marked(x, side)
          /\ d.nullable <=> w.nullable \/ \E x \in expandSchema(w.schema) : Nullable(x)
        BY <1>5, DownKnows
    <2> HIDE DEF d
    <2> QED BY <1>4, <2>1, <2>2
<1>7. /\ Len(w.place) = n - 1 /\ w.place \in Seq(Tokens) /\ w.slots = Stars(w.place)
      /\ Along(place, w) /\ w.required \in BOOLEAN
    BY DEF Walk, Walker, Knows
<1>8. w.slots \in SUBSET (1 .. n - 1) /\ n \notin w.slots
    BY <1>1, <1>7 DEF Stars
<1>9. \/ next \in {[Down(w, side, u, "*") EXCEPT !.slots = @ \cup {Len(w.place) + 1}] :
                      u \in {Schemas[v].items} \ {Absent}}
      \/ next \in {[Down(w, side, Schemas[v].properties[m], m)
                      EXCEPT !.required = @ /\ m \in Schemas[v].required] :
                      m \in DOMAIN Schemas[v].properties}
    <2>1. CASE counted
        <3>1. t \in {Schemas[v].items} \ {Absent} /\ sign = "*"
            BY <1>3, <2>1 DEF Leads, t, sign
        <3> QED BY <2>1, <3>1
    <2>2. CASE ~counted
        <3>1. /\ token \in DOMAIN Schemas[v].properties /\ sign = token
              /\ t = Schemas[v].properties[token]
            BY <1>3, <2>2 DEF Leads, t, sign
        <3> QED BY <2>2, <3>1
    <2> QED BY <2>1, <2>2
<1>10. /\ next.schema = t /\ next.place = Append(w.place, sign) /\ next.above = w.above \cup {t}
       /\ next.barred = d.barred /\ next.nullable = d.nullable
       /\ next.slots = w.slots \cup (IF counted THEN {n} ELSE {})
       /\ next.required <=> w.required /\ (counted \/ token \in Schemas[v].required)
    <2> HIDE DEF d
    <2>1. CASE counted
        BY <1>1, <1>6, <1>7, <2>1 DEF Walker
    <2>2. CASE ~counted
        BY <1>1, <1>6, <1>7, <2>2 DEF Walker
    <2> QED BY <2>1, <2>2
<1>11. /\ Len(next.place) = n /\ next.place[n] = sign
       /\ \A i \in 1 .. n - 1 : next.place[i] = w.place[i]
    BY <1>1, <1>5, <1>7, <1>10
<1>12. ~Ambiguous(w)
    BY <1>1, <1>4 DEF Ambiguous, WalkedThrough, S
<1>13. t \notin w.above
    <2>1. ASSUME t \in w.above PROVE FALSE
        <3>1. PICK i \in 0 .. n - 1 : at[i] = expandSchema(t)
            BY <2>1 DEF Knows
        <3>2. i = n
            BY <1>1, <1>5, <3>1 DEF WalkedThrough
        <3> QED BY <3>1, <3>2
    <2> QED BY <2>1
<1> HIDE DEF next, d
<1>14. next \in Onward(w, side)
    <2>1. n <= MaxTokens
        <3>1. \A a, b \in Nat : \A m \in 1 .. a : a <= b => m <= b
            OBVIOUS
        <3> QED BY <3>1, TokensAssumption
    <2>2. ~Ambiguous(w) /\ next.schema \notin w.above /\ Len(next.place) <= MaxTokens
        BY <1>10, <1>11, <1>12, <1>13, <2>1
    <2> DEFINE items(x) == {[Down(w, side, u, "*") EXCEPT !.slots = @ \cup {Len(w.place) + 1}] :
                               u \in {Schemas[x].items} \ {Absent}}
               named(x) == {[Down(w, side, Schemas[x].properties[m], m)
                               EXCEPT !.required = @ /\ m \in Schemas[x].required] :
                               m \in DOMAIN Schemas[x].properties}
               all == UNION {items(x) \cup named(x) : x \in expandSchema(w.schema)}
    <2>3. next \in items(v) \cup named(v)
        BY <1>9
    <2>4. Onward(w, side) = {m \in all : /\ ~Ambiguous(w) /\ m.schema \notin w.above
                                         /\ Len(m.place) <= MaxTokens}
        BY DEF Onward
    <2> HIDE DEF items, named
    <2>5. next \in all
        BY <1>4, <2>3
    <2> HIDE DEF all
    <2> QED BY <2>2, <2>4, <2>5
<1>15. Along(place, next)
    <2>1. ASSUME NEW i \in 1 .. n
          PROVE  IF i \in next.slots THEN place[i] \in Numerals ELSE place[i] = next.place[i]
        <3>1. CASE i = n
            BY <1>8, <1>10, <1>11, <3>1 DEF sign, token
        <3>2. CASE i # n
            <4>1. i \in 1 .. n - 1 /\ (i \in next.slots <=> i \in w.slots)
                BY <1>1, <1>10, <3>2
            <4> QED BY <1>7, <1>11, <4>1 DEF Along
        <3> QED BY <3>1, <3>2
    <2> QED BY <1>11, <2>1 DEF Along
<1>16. next.required <=> required /\ AskedUpTo(at, place, n)
    <2>1. w.required <=> required /\ AskedUpTo(at, place, n - 1)
        BY DEF Knows
    <2>2. counted \/ token \in Schemas[v].required <=>
              counted \/ \E x \in S : token \in Schemas[x].required
        BY <1>2, <1>3 DEF Leads
    <2>3. AskedUpTo(at, place, n) <=>
              /\ AskedUpTo(at, place, n - 1)
              /\ counted \/ \E x \in S : token \in Schemas[x].required
        <3>1. \A i \in 1 .. n : i = n \/ i \in 1 .. n - 1
            BY <1>1
        <3>2. (1 .. n - 1) \subseteq 1 .. n /\ n \in 1 .. n
            BY <1>1
        <3> QED BY <3>1, <3>2 DEF AskedUpTo, token, S
    <2> QED BY <1>10, <2>1, <2>2, <2>3
<1>17. \A i \in 0 .. n - 1 : i = n - 1 \/ i \in 0 .. n - 2
    BY <1>1
<1>18. n - 1 \in 0 .. n - 1 /\ (0 .. n - 2) \subseteq 0 .. n - 1
       /\ (n - 1) - 1 = n - 2
    BY <1>1
<1>19. next.barred <=> \E i \in 0 .. n - 1 : \E x \in at[i] : Marked(x, side)
    <2>1. w.barred <=> \E i \in 0 .. n - 2 : \E x \in at[i] : Marked(x, side)
        BY <1>18 DEF Knows
    <2> QED BY <1>6, <1>10, <1>17, <1>18, <2>1 DEF S
<1>20. next.nullable <=> \E i \in 0 .. n - 1 : \E x \in at[i] : Nullable(x)
    <2>1. w.nullable <=> \E i \in 0 .. n - 2 : \E x \in at[i] : Nullable(x)
        BY <1>18 DEF Knows
    <2> QED BY <1>6, <1>10, <1>17, <1>18, <2>1 DEF S
<1>21. \A x \in next.above : \E i \in 0 .. n : at[i] = expandSchema(x)
    <2>1. n \in 0 .. n /\ (0 .. n - 1) \subseteq 0 .. n
        BY <1>1
    <2> QED BY <1>5, <1>10, <2>1 DEF Knows
<1> QED BY <1>5, <1>10, <1>11, <1>14, <1>15, <1>16, <1>19, <1>20, <1>21 DEF Knows

(* So there is a walk to the end of the pointer that knows all of the way. *)
LEMMA WalkIsThere ==
    ASSUME NEW root \in DOMAIN Schemas, NEW side, NEW required \in BOOLEAN, NEW place,
           Len(place) \in Nat, DOMAIN place = 1 .. Len(place), Len(place) <= MaxTokens,
           NEW at, GoesOn(at, root, place), SaidAtOnce(at, place), WalkedThrough(at),
           at[Len(place)] # {}, NEW far, GoesFurther(far, root, side, required)
    PROVE  \E w \in far[Len(place)] : Knows(w, at, Len(place), side, required, place)
<1> DEFINE k == Len(place)
           P == {n \in 0 .. k : \E w \in far[n] : Knows(w, at, n, side, required, place)}
<1>1. k \in Nat /\ k <= MaxTokens /\ MaxTokens \in Nat
    BY TokensAssumption
<1>2. \A n \in 0 .. k : at[n] # {}
    BY SomethingAllAlong
<1>3. 0 \in P
    <2> DEFINE w == Begin(root, required)
    <2>1. /\ w.schema = root /\ w.place = <<>> /\ w.required = required /\ w.above = {root}
          /\ w.barred = FALSE /\ w.nullable = FALSE
        BY DEF Begin
    <2>2. w \in far[0]
        BY DEF GoesFurther
    <2> HIDE DEF w
    <2>3. at[0] = expandSchema(root) /\ 0 \in 0 .. 0 /\ 0 .. 0 - 1 = {} /\ 1 .. 0 = {}
        BY DEF GoesOn
    <2>4. Len(w.place) = 0 /\ Along(place, w)
        BY <1>1, <2>1 DEF Along
    <2>5. AskedUpTo(at, place, 0)
        BY <2>3 DEF AskedUpTo
    <2>6. Knows(w, at, 0, side, required, place)
        BY <2>1, <2>3, <2>4, <2>5 DEF Knows
    <2> QED BY <1>1, <2>2, <2>6
<1>4. ASSUME NEW n \in 1 .. k, n - 1 \in P PROVE n \in P
    <2>1. PICK w \in far[n - 1] : Knows(w, at, n - 1, side, required, place)
        BY <1>4
    <2>2. /\ n - 1 \in 0 .. MaxTokens /\ n \in 1 .. MaxTokens /\ n \in 0 .. k
        BY <1>1
    <2>3. w \in Walk /\ at[n] # {}
        BY <1>2, <2>1, <2>2 DEF GoesFurther
    <2>4. PICK next \in Onward(w, side) : Knows(next, at, n, side, required, place)
        BY <2>1, <2>3, WalkGoesOn
    <2>5. next \in far[n]
        BY <2>1, <2>2, <2>4 DEF GoesFurther, Further
    <2> QED BY <2>2, <2>4, <2>5
<1> HIDE DEF P
<1>5. \A n \in 0 .. k : n \in P
    BY <1>1, <1>3, <1>4, UpToInduction
<1>6. k \in P
    BY <1>1, <1>5
<1> QED BY <1>6 DEF P

(* What a field has to say of the schemas on the way to a value.           *)
TellsAll(f, v, side, e) ==
    /\ f.types = Schemas[v].types /\ f.format = Schemas[v].format /\ f.enum = Schemas[v].enum
    /\ f.nullable <=> \/ Schemas[v].nullable
                      \/ side = "source" /\ \E i \in 0 .. e.last : \E x \in e.at[i] : Nullable(x)
    /\ f.required <=> e.there
    /\ f.unavailable <=> \E i \in 0 .. e.last : \E x \in e.at[i] : Marked(x, side)

(* The dialog finds a field that tells what a schema at the end says.      *)
LEMMA FieldTells ==
    ASSUME NEW root \in DOMAIN Schemas, NEW side, NEW required \in BOOLEAN, NEW value,
           WellPlaced(value), Len(value.place) <= MaxTokens,
           NEW e, e.at = OnTheWay(root, value.place), e.last = Len(value.place),
           e.there <=> required /\ AskedFor(e.at, value.place),
           SaidAtOnce(e.at, value.place), WalkedThrough(e.at),
           NEW v \in e.at[e.last], Schemas[v].types \cap ScalarTypes # {}
    PROVE  \E f \in Fields(root, side, value.kind, required) :
              Fits(f, value) /\ TellsAll(f, v, side, e)
<1> DEFINE place == value.place
           k == Len(place)
           at == OnTheWay(root, place)
<1>1. k \in Nat /\ DOMAIN place = 1 .. k
    BY DEF WellPlaced
<1>2. GoesOn(at, root, place)
    BY <1>1, OnTheWayIs
<1>3. PICK far : /\ GoesFurther(far, root, side, required)
                 /\ Fields(root, side, value.kind, required) =
                      UNION {UNION {Found(w, side, value.kind) : w \in far[n]} :
                               n \in 0 .. MaxTokens}
    BY FieldsAreOfWalks
<1>4. PICK w \in far[k] : Knows(w, at, k, side, required, place)
    BY <1>1, <1>2, <1>3, WalkIsThere
<1> DEFINE nullable == Schemas[v].nullable \/ (side = "source" /\ MaybeNull(w))
           barred == Barred(w, side)
           f == FieldOf(w, v, value.kind, nullable, barred)
<1> HIDE DEF at
<1>5. at[k] = expandSchema(w.schema) /\ v \in expandSchema(w.schema) /\ e.at = at /\ e.last = k
    BY <1>4 DEF Knows, at
<1>6. k \in 0 .. MaxTokens /\ DOMAIN at = 0 .. k
    <2>1. DOMAIN at = 0 .. k
        BY <1>2 DEF GoesOn
    <2>2. MaxTokens \in Nat /\ k <= MaxTokens
        BY TokensAssumption
    <2> HIDE DEF k
    <2> QED BY <1>1, <2>1, <2>2
<1>7. ~Ambiguous(w)
    <2>1. k \in DOMAIN at
        BY <1>1, <1>6
    <2> QED BY <1>5, <2>1 DEF Ambiguous, WalkedThrough
<1>8. f \in Found(w, side, value.kind)
    BY <1>5, <1>7 DEF Found
<1>9. f \in Fields(root, side, value.kind, required)
    BY <1>3, <1>6, <1>8
<1>10. w \in Walk
    BY <1>3, <1>6 DEF GoesFurther
<1>11. f.value = [kind |-> value.kind, place |-> w.place] /\ f.slots = w.slots
       /\ f.types = Schemas[v].types /\ f.format = Schemas[v].format /\ f.enum = Schemas[v].enum
       /\ f.nullable = nullable /\ f.required = w.required /\ f.unavailable = barred
    BY DEF FieldOf
<1>12. Fits(f, value)
    BY <1>1, <1>4, <1>11 DEF Fits, Knows, Along
<1>13. \A i \in 0 .. k : i = k \/ i \in 0 .. k - 1
    BY <1>1
<1>14. k \in 0 .. k /\ (0 .. k - 1) \subseteq 0 .. k
    BY <1>1
<1>15. barred <=> \E i \in 0 .. k : \E x \in at[i] : Marked(x, side)
    <2>1. w.barred <=> \E i \in 0 .. k - 1 : \E x \in at[i] : Marked(x, side)
        BY <1>4 DEF Knows, at
    <2>2. barred <=> w.barred \/ \E x \in at[k] : Marked(x, side)
        BY <1>5 DEF Barred, Marked
    <2> HIDE DEF barred
    <2> QED BY <1>13, <1>14, <2>1, <2>2
<1>16. MaybeNull(w) <=> \E i \in 0 .. k : \E x \in at[i] : Nullable(x)
    <2>1. w.nullable <=> \E i \in 0 .. k - 1 : \E x \in at[i] : Nullable(x)
        BY <1>4 DEF Knows, at
    <2>2. MaybeNull(w) <=> w.nullable \/ \E x \in at[k] : Nullable(x)
        BY <1>5 DEF MaybeNull
    <2> QED BY <1>13, <1>14, <2>1, <2>2
<1>17. w.required <=> e.there
    <2>1. w.required <=> required /\ AskedUpTo(at, place, k)
        BY <1>4 DEF Knows, at
    <2>2. AskedUpTo(at, place, k) <=> AskedFor(at, place)
        BY <1>1 DEF AskedUpTo, AskedFor
    <2> QED BY <1>5, <2>1, <2>2
<1> HIDE DEF f, nullable, barred
<1>18. TellsAll(f, v, side, e)
    BY <1>5, <1>11, <1>15, <1>16, <1>17 DEF TellsAll, nullable
<1> QED BY <1>9, <1>12, <1>18

-----------------------------------------------------------------------------
(* What is chosen on a side of the dialog is of a field listed there.      *)
Chosen(choice, fields) == choice = NoChoice \/ \E f \in fields : IsChoice(choice, f)

(* Available fields that go together fit what is given out.                *)
Permitted(m) ==
    \E s \in catalog.sources, t \in catalog.targets :
        /\ Fits(s, m.source) /\ Fits(t, m.target)
        /\ ~s.unavailable /\ ~t.unavailable
        /\ Compatible(s, t, m.template)

(* The dialog is over the fields of the operations, and a mapping that was *)
(* made in it keeps secrets.                                               *)
DialogInv ==
    /\ api \in Apis /\ catalog = createMappingCatalog(api)
    /\ DOMAIN mapping = {"source", "target", "template"}
    /\ \/ mapping = api.inferred
       \/ /\ WellPlaced(mapping.source) /\ WellPlaced(mapping.target)
          /\ KeepsSecret(mapping.source, mapping.target)
          /\ \A f \in catalog.targets : Fits(f, mapping.target) => ~f.unavailable
          /\ Permitted(mapping)
    /\ dialog = [source |-> dialog.source, target |-> dialog.target,
                 template |-> dialog.template]
    /\ Chosen(dialog.source, catalog.sources) /\ Chosen(dialog.target, catalog.targets)

(* A field that was just selected is chosen.                               *)
LEMMA ChoiceIs == ASSUME NEW f PROVE IsChoice(Choice(f), f)
BY DEF IsChoice, Choice

(* What is chosen when the dialog opens is a field of it, or nothing.      *)
LEMMA SelectionIs ==
    ASSUME NEW fields, NEW value
    PROVE  Chosen(initialFieldSelection(fields, value), fields)
<1>1. CASE \E g \in fields : Fits(g, value)
    <2> DEFINE f == CHOOSE g \in fields : Fits(g, value)
    <2>1. f \in fields
        BY <1>1
    <2>2. initialFieldSelection(fields, value) =
              [value |-> f.value, indices |-> [i \in f.slots |-> value.place[i]]]
        BY <1>1 DEF initialFieldSelection
    <2> HIDE DEF f
    <2>3. IsChoice(initialFieldSelection(fields, value), f)
        BY <2>2 DEF IsChoice
    <2> QED BY <2>1, <2>3 DEF Chosen
<1>2. CASE ~ \E g \in fields : Fits(g, value)
    BY <1>2 DEF initialFieldSelection, Chosen
<1> QED BY <1>1, <1>2

(* Typing an index leaves the field as it is.                              *)
LEMMA TypedIs ==
    ASSUME NEW choice, NEW fields, Chosen(choice, fields), NEW i \in DOMAIN choice.indices, NEW text
    PROVE  Chosen([choice EXCEPT !.indices[i] = text], fields)
<1>1. choice # NoChoice
    BY DEF NoChoice
<1>2. PICK f \in fields : IsChoice(choice, f)
    BY <1>1 DEF Chosen
<1>3. choice = [value |-> f.value, indices |-> choice.indices]
      /\ choice.indices = [j \in f.slots |-> choice.indices[j]]
    BY <1>2 DEF IsChoice
<1>4. [choice EXCEPT !.indices[i] = text] =
          [value |-> f.value, indices |-> [choice.indices EXCEPT ![i] = text]]
    BY <1>3
<1>5. IsChoice([choice EXCEPT !.indices[i] = text], f)
    BY <1>3, <1>4 DEF IsChoice
<1> QED BY <1>5 DEF Chosen

(* A choice that is let through is of the field it was validated against.  *)
LEMMA ValidIsChosen ==
    ASSUME NEW fields, NEW kind, Listed(fields, kind), kind # "none",
           NEW choice, Chosen(choice, fields), NEW f \in fields, f.value = choice.value
    PROVE  IsChoice(choice, f)
<1>1. f.value.kind # "none"
    BY DEF Listed, OfBody, OfParameter
<1>2. choice # NoChoice
    BY <1>1 DEF NoChoice
<1>3. PICK g \in fields : IsChoice(choice, g)
    BY <1>2 DEF Chosen
<1>4. g = f
    BY <1>3 DEF Listed, IsChoice
<1> QED BY <1>3, <1>4

(* A secret in what is given out is one of the field.                      *)
LEMMA SecretsStay ==
    ASSUME NEW s, IsField(s), NEW t, NEW kind, OfBody(t, kind) \/ OfParameter(t), kind # "header",
           NEW from, IsChoice(from, s), Complete(from), NEW to, IsChoice(to, t),
           KeepsSecret(s.value, t.value)
    PROVE  KeepsSecret(selectMappingValue(from), selectMappingValue(to))
<1> DEFINE source == selectMappingValue(from)
           target == selectMappingValue(to)
<1>1. IsField(t)
    BY DEF OfBody, OfParameter
<1>2. /\ DOMAIN source.place = 1 .. Len(s.value.place)
      /\ \A i \in 1 .. Len(s.value.place) :
            source.place[i] = IF i \in s.slots THEN from.indices[i] ELSE s.value.place[i]
    BY SelectedIs
<1>3. /\ target.kind = t.value.kind
      /\ \A i \in 1 .. Len(t.value.place) :
            target.place[i] = IF i \in t.slots THEN to.indices[i] ELSE t.value.place[i]
    BY <1>1, SelectedIs
<1> HIDE DEF source, target
<1>4. SUFFICES ASSUME NEW i \in DOMAIN source.place, source.place[i] \in Secrets
               PROVE  target.kind = "header" /\ target.place[1] \in Authorizations
    BY DEF KeepsSecret, source, target
<1>5. i \notin s.slots
    BY <1>2, <1>4, TokensAssumption DEF Complete, IsChoice
<1>6. s.value.place[i] \in Secrets /\ i \in DOMAIN s.value.place
    BY <1>2, <1>4, <1>5 DEF IsField
<1>7. t.value.kind = "header" /\ t.value.place[1] \in Authorizations
    BY <1>6 DEF KeepsSecret
<1>8. OfParameter(t)
    BY <1>7 DEF OfBody
<1>9. target.place[1] = t.value.place[1]
    BY <1>3, <1>8 DEF OfParameter
<1> QED BY <1>3, <1>7, <1>9

(* What is applied is chosen again as it was, and keeps secrets.           *)
LEMMA AppliedIs ==
    ASSUME DialogInv, validateMappingEdit(catalog, dialog)
    PROVE  /\ Reopened(catalog, MappingOf(dialog)) = dialog
           /\ WellPlaced(MappingOf(dialog).source) /\ WellPlaced(MappingOf(dialog).target)
           /\ KeepsSecret(MappingOf(dialog).source, MappingOf(dialog).target)
           /\ \A f \in catalog.targets : Fits(f, MappingOf(dialog).target) => ~f.unavailable
           /\ Permitted(MappingOf(dialog))
<1>1. PICK s \in catalog.sources, t \in catalog.targets :
          /\ s.value = dialog.source.value /\ t.value = dialog.target.value
          /\ ~s.unavailable /\ ~t.unavailable /\ Compatible(s, t, dialog.template)
          /\ Complete(dialog.source) /\ Complete(dialog.target) /\ KeepsSecret(s.value, t.value)
    BY DEF validateMappingEdit
<1>2. Listed(catalog.sources, "response-body") /\ Listed(catalog.targets, "request-body")
    BY CatalogIs DEF DialogInv
<1>3. IsChoice(dialog.source, s) /\ IsChoice(dialog.target, t)
    BY <1>1, <1>2, ValidIsChosen DEF DialogInv
<1>4. /\ initialFieldSelection(catalog.sources, selectMappingValue(dialog.source)) = dialog.source
      /\ initialFieldSelection(catalog.targets, selectMappingValue(dialog.target)) = dialog.target
    BY <1>1, <1>2, <1>3, ChosenAgain
<1>5. KeepsSecret(selectMappingValue(dialog.source), selectMappingValue(dialog.target))
    <2>1. IsField(s) /\ (OfBody(t, "request-body") \/ OfParameter(t))
        BY <1>2 DEF Listed, OfBody, OfParameter
    <2> QED BY <1>1, <1>3, <2>1, SecretsStay
<1>6. \A f \in catalog.targets : Fits(f, selectMappingValue(dialog.target)) => ~f.unavailable
    BY <1>1, <1>2, <1>3, OneFits
<1>7. WellPlaced(selectMappingValue(dialog.source)) /\ WellPlaced(selectMappingValue(dialog.target))
    <2>1. IsField(s) /\ IsField(t)
        BY <1>2 DEF Listed, OfBody, OfParameter
    <2> QED BY <1>3, <2>1, SelectedIs DEF WellPlaced, IsField
<1>8. Permitted(MappingOf(dialog))
    <2>1. Fits(s, selectMappingValue(dialog.source)) /\ Fits(t, selectMappingValue(dialog.target))
        BY <1>1, <1>2, <1>3, OneFits
    <2>2. /\ MappingOf(dialog).source = selectMappingValue(dialog.source)
          /\ MappingOf(dialog).target = selectMappingValue(dialog.target)
          /\ MappingOf(dialog).template = dialog.template
        BY DEF MappingOf
    <2> QED BY <1>1, <2>1, <2>2 DEF Permitted
<1> QED BY <1>4, <1>5, <1>6, <1>7, <1>8 DEF MappingOf, Reopened, DialogInv

(* It is over what the operations have at first.                           *)
LEMMA DialogStarts == DialogInit => DialogInv
<1> SUFFICES ASSUME DialogInit PROVE DialogInv
    OBVIOUS
<1>1. DOMAIN api.inferred = {"source", "target", "template"}
    BY SchemasAssumption DEF DialogInit
<1> QED BY <1>1 DEF DialogInit, DialogInv, Closed, Chosen

(* Every step of the dialog keeps it.                                      *)
LEMMA DialogKeeps == DialogInv /\ [DialogNext]_dialogVars => DialogInv'
<1> SUFFICES ASSUME DialogInv, [DialogNext]_dialogVars PROVE DialogInv'
    OBVIOUS
<1>1. CASE OpenDialog
    <2>1. dialog' = Reopened(catalog, mapping) /\ UNCHANGED <<api, catalog, mapping>>
        BY <1>1 DEF OpenDialog
    <2>2. /\ Chosen(dialog'.source, catalog.sources) /\ Chosen(dialog'.target, catalog.targets)
          /\ dialog' = [source |-> dialog'.source, target |-> dialog'.target,
                        template |-> dialog'.template]
        BY <2>1, SelectionIs DEF Reopened
    <2> QED BY <2>1, <2>2 DEF DialogInv, Permitted
<1>2. ASSUME NEW choice, Chosen(choice, catalog.sources), Change([dialog EXCEPT !.source = choice])
      PROVE  DialogInv'
    BY <1>2 DEF Change, DialogInv, Permitted
<1>3. ASSUME NEW choice, Chosen(choice, catalog.targets), Change([dialog EXCEPT !.target = choice])
      PROVE  DialogInv'
    BY <1>3 DEF Change, DialogInv, Permitted
<1>4. CASE SelectSource
    <2>1. PICK f \in catalog.sources : Change([dialog EXCEPT !.source = Choice(f)])
        BY <1>4 DEF SelectSource
    <2> QED BY <1>2, <2>1, ChoiceIs DEF Chosen
<1>5. CASE SelectTarget
    <2>1. PICK f \in catalog.targets : Change([dialog EXCEPT !.target = Choice(f)])
        BY <1>5 DEF SelectTarget
    <2> QED BY <1>3, <2>1, ChoiceIs DEF Chosen
<1>6. CASE TypeIndex
    <2>1. PICK text \in Texts :
              \/ \E i \in DOMAIN dialog.source.indices :
                    Change([dialog EXCEPT !.source.indices[i] = text])
              \/ \E i \in DOMAIN dialog.target.indices :
                    Change([dialog EXCEPT !.target.indices[i] = text])
        BY <1>6 DEF TypeIndex
    <2>2. ASSUME NEW i \in DOMAIN dialog.source.indices,
                 Change([dialog EXCEPT !.source.indices[i] = text])
          PROVE  DialogInv'
        <3> DEFINE choice == [dialog.source EXCEPT !.indices[i] = text]
        <3>1. Chosen(choice, catalog.sources)
            BY TypedIs DEF DialogInv
        <3>2. [dialog EXCEPT !.source.indices[i] = text] = [dialog EXCEPT !.source = choice]
            BY DEF DialogInv
        <3> HIDE DEF choice
        <3> QED BY <1>2, <2>2, <3>1, <3>2
    <2>3. ASSUME NEW i \in DOMAIN dialog.target.indices,
                 Change([dialog EXCEPT !.target.indices[i] = text])
          PROVE  DialogInv'
        <3> DEFINE choice == [dialog.target EXCEPT !.indices[i] = text]
        <3>1. Chosen(choice, catalog.targets)
            BY TypedIs DEF DialogInv
        <3>2. [dialog EXCEPT !.target.indices[i] = text] = [dialog EXCEPT !.target = choice]
            BY DEF DialogInv
        <3> HIDE DEF choice
        <3> QED BY <1>3, <2>3, <3>1, <3>2
    <2> QED BY <2>1, <2>2, <2>3
<1>7. CASE TypeTemplate
    BY <1>7 DEF TypeTemplate, Change, DialogInv, Permitted
<1>8. CASE Apply
    <2>1. /\ mapping' = MappingOf(dialog) /\ dialog' = Closed /\ UNCHANGED <<api, catalog>>
          /\ WellPlaced(MappingOf(dialog).source) /\ WellPlaced(MappingOf(dialog).target)
          /\ KeepsSecret(MappingOf(dialog).source, MappingOf(dialog).target)
          /\ \A f \in catalog.targets : Fits(f, MappingOf(dialog).target) => ~f.unavailable
          /\ Permitted(MappingOf(dialog))
        BY <1>8, AppliedIs DEF Apply
    <2>2. DOMAIN MappingOf(dialog) = {"source", "target", "template"}
        BY DEF MappingOf
    <2> QED BY <2>1, <2>2 DEF DialogInv, Permitted, Closed, Chosen
<1>9. CASE Cancel
    BY <1>9 DEF Cancel, DialogInv, Permitted, Closed, Chosen
<1>10. CASE UNCHANGED dialogVars
    BY <1>10 DEF dialogVars, DialogInv, Permitted
<1> QED BY <1>1, <1>4, <1>5, <1>6, <1>7, <1>8, <1>9, <1>10 DEF DialogNext

(* It gives the types of the dialog and the secrets kept.                  *)
LEMMA DialogHolds == DialogInv => DialogTyped /\ SecretsAreKept
<1> SUFFICES ASSUME DialogInv PROVE DialogTyped /\ SecretsAreKept
    OBVIOUS
<1>1. Listed(catalog.sources, "response-body") /\ Listed(catalog.targets, "request-body")
    BY CatalogIs DEF DialogInv
<1>2. \A f \in catalog.sources \cup catalog.targets : IsField(f)
    BY <1>1 DEF Listed, OfBody, OfParameter
<1>3. DOMAIN dialog = {"source", "target", "template"}
    <2> DEFINE d == [source |-> dialog.source, target |-> dialog.target,
                     template |-> dialog.template]
    <2>1. DOMAIN d = {"source", "target", "template"} /\ dialog = d
        BY DEF DialogInv
    <2> HIDE DEF d
    <2> QED BY <2>1
<1> QED BY <1>2, <1>3 DEF DialogInv, DialogTyped, SecretsAreKept, Edited, IsField

(* What the panel says of a field that a body has and the mapping fits.    *)
LEMMA BodyIsShown ==
    ASSUME NEW roots \in SUBSET DOMAIN Schemas, NEW parameters, NEW side,
           NEW kind \in {"response-body", "request-body"}, NEW required \in BOOLEAN,
           NEW s \in roots, NEW g \in Fields(s, side, kind, required), NEW f, Alike(f, g),
           NEW value, WellPlaced(value), Fits(f, value)
    PROVE  Shown(f) \in resolveSchema(roots, parameters, value)
<1>1. Fits(g, value) /\ Shown(f) = Shown(g)
    BY DEF Alike, Fits, Shown
<1>2. Shown(g) \in collapseSchemaMatches(resolveSchemaPointer(s, value.place))
    BY <1>1, PanelShows
<1>3. value.kind = kind
    <2>1. g.value.kind = kind
        BY FieldsAre DEF OfBody
    <2> QED BY <1>1, <2>1 DEF Fits
<1>4. resolveSchema(roots, parameters, value) =
          collapseSchemaMatches(UNION {resolveSchemaPointer(r, value.place) : r \in roots})
    BY <1>3 DEF resolveSchema
<1> DEFINE matches(r) == resolveSchemaPointer(r, value.place)
<1>5. Shown(g) \in collapseSchemaMatches(UNION {matches(r) : r \in roots})
    <2>1. PICK p \in matches(s) :
              Shown(g) = [types |-> NonNull(Schemas[p.schema].types),
                          format |-> Schemas[p.schema].format, depth |-> p.depth]
        BY <1>2 DEF collapseSchemaMatches
    <2> HIDE DEF matches
    <2>2. p \in UNION {matches(r) : r \in roots}
        BY <2>1
    <2> QED BY <2>1, <2>2 DEF collapseSchemaMatches
<1> QED BY <1>1, <1>4, <1>5

(* What it says of a parameter, unless the type is in what it refers to.   *)
LEMMA ParameterIsShown ==
    ASSUME NEW roots, NEW parameters, NEW f, OfParameter(f), NEW value, WellPlaced(value),
           Fits(f, value),
           \A p \in SameParameter(parameters, f.value) :
              Schemas[p.schema].types \cap ScalarTypes # {} => SaysAs(f, p.schema),
           NEW d \in resolveSchema(roots, parameters, value)
    PROVE  \/ d = Shown(f)
           \/ \E p \in SameParameter(parameters, value) :
                 Schemas[p.schema].types \cap ScalarTypes = {}
<1>1. value.kind = f.value.kind /\ value.place[1] = f.value.place[1]
    BY DEF Fits, OfParameter, WellPlaced
<1>2. SameParameter(parameters, value) = SameParameter(parameters, f.value)
    BY <1>1 DEF SameParameter
<1>3. resolveSchema(roots, parameters, value) =
          collapseSchemaMatches(
            {[schema |-> p.schema, depth |-> 0] : p \in SameParameter(parameters, value)})
    BY <1>1 DEF resolveSchema, OfParameter
<1>4. PICK p \in SameParameter(parameters, value) :
          d = [types |-> NonNull(Schemas[p.schema].types), format |-> Schemas[p.schema].format,
               depth |-> 0]
    BY <1>3 DEF collapseSchemaMatches
<1>5. CASE Schemas[p.schema].types \cap ScalarTypes # {}
    <2>1. SaysAs(f, p.schema)
        BY <1>2, <1>4, <1>5
    <2>2. Cardinality(f.slots) = 0
        BY FS_EmptySet DEF OfParameter
    <2> QED BY <1>4, <2>1, <2>2 DEF SaysAs, Shown
<1> QED BY <1>4, <1>5

(* The panel says of an edit what the dialog said.                         *)
LEMMA PanelHolds == DialogInv => PanelAgrees
<1> SUFFICES ASSUME DialogInv, Edited PROVE PanelAgrees
    BY DEF PanelAgrees
<1>1. /\ api \in Apis /\ catalog = createMappingCatalog(api)
      /\ WellPlaced(mapping.source) /\ WellPlaced(mapping.target)
      /\ \A f \in catalog.targets : Fits(f, mapping.target) => ~f.unavailable
    BY DEF DialogInv, Edited
<1>2. /\ api.body \in SUBSET DOMAIN Schemas /\ api.bodyRequired \in BOOLEAN
      /\ Answers(api) \in SUBSET DOMAIN Schemas
    BY <1>1, SchemasAssumption DEF Answers, successful
<1>3. ASSUME NEW f \in catalog.sources, Fits(f, mapping.source)
      PROVE  Shown(f) \in resolveSchema(Answers(api), api.parameters, mapping.source)
    <2>1. PICK s \in Answers(api) :
              \E g \in Fields(s, "source", "response-body", TRUE) : Alike(f, g)
        BY <1>1, <1>3, CatalogComes
    <2> QED BY <1>1, <1>2, <1>3, <2>1, BodyIsShown
<1>4. ASSUME NEW f \in catalog.targets, Fits(f, mapping.target),
             NEW d \in resolveSchema(api.body, api.parameters, mapping.target),
             resolveSchema(api.body, api.parameters, mapping.target) = {d}
      PROVE  \/ d = Shown(f)
             \/ \E p \in SameParameter(api.parameters, mapping.target) :
                   Schemas[p.schema].types \cap ScalarTypes = {}
    <2>1. CASE \E s \in api.body :
                  \E g \in Fields(s, "target", "request-body", api.bodyRequired) : Alike(f, g)
        <3>1. Shown(f) \in resolveSchema(api.body, api.parameters, mapping.target)
            BY <1>1, <1>2, <1>4, <2>1, BodyIsShown
        <3> QED BY <1>4, <3>1
    <2>2. CASE OfParameter(f)
        <3>1. \A p \in SameParameter(api.parameters, f.value) :
                  Schemas[p.schema].types \cap ScalarTypes # {} => SaysAs(f, p.schema)
            BY <1>1, <1>4, <2>2, ParameterSays
        <3> QED BY <1>1, <1>4, <2>2, <3>1, ParameterIsShown
    <2> QED BY <1>1, <1>4, <2>1, <2>2, CatalogComes
<1> QED BY <1>3, <1>4 DEF PanelAgrees, Shown

-----------------------------------------------------------------------------
(* What an available field guarantees of an end of the way it goes.        *)
Guarantees(f, side, e) ==
    \A v \in e.at[e.last] : Schemas[v].types \cap ScalarTypes # {} =>
        /\ f.types = Schemas[v].types /\ f.format = Schemas[v].format /\ f.enum = Schemas[v].enum
        /\ f.nullable <=> \/ Schemas[v].nullable
                          \/ side = "source"
                               /\ \E i \in 0 .. e.last : \E x \in e.at[i] : Nullable(x)
        /\ f.required <=> e.there
        /\ \A i \in 0 .. e.last : \A x \in e.at[i] : ~Marked(x, side)

(* A field like one that tells all of a schema guarantees it.              *)
LEMMA AlikeGuarantees ==
    ASSUME NEW f, NEW g, Alike(f, g), ~g.unavailable, NEW v, NEW side, NEW e,
           TellsAll(g, v, side, e)
    PROVE  /\ f.types = Schemas[v].types /\ f.format = Schemas[v].format
           /\ f.enum = Schemas[v].enum
           /\ f.nullable <=> \/ Schemas[v].nullable
                             \/ side = "source"
                                 /\ \E i \in 0 .. e.last : \E x \in e.at[i] : Nullable(x)
           /\ f.required <=> e.there
           /\ \A i \in 0 .. e.last : \A x \in e.at[i] : ~Marked(x, side)
BY DEF Alike, TellsAll

(* No field has more tokens than the walk may take.                        *)
LEMMA FieldsAreShort ==
    ASSUME NEW s \in DOMAIN Schemas, NEW side, NEW kind, NEW required \in BOOLEAN,
           NEW f \in Fields(s, side, kind, required)
    PROVE  Len(f.value.place) <= MaxTokens
<1>1. PICK far : /\ GoesFurther(far, s, side, required)
                 /\ Fields(s, side, kind, required) =
                      UNION {UNION {Found(w, side, kind) : w \in far[n]} : n \in 0 .. MaxTokens}
    BY FieldsAreOfWalks
<1>2. PICK n \in 0 .. MaxTokens : \E w \in far[n] : f \in Found(w, side, kind)
    BY <1>1
<1>3. PICK w \in far[n] : f \in Found(w, side, kind)
    BY <1>2
<1>4. w \in Walk
    BY <1>1, <1>3 DEF GoesFurther
<1>5. f.value.place = w.place
    BY <1>3, <1>4, FoundAre
<1>6. MaxTokens \in Nat
    BY TokensAssumption
<1>7. CASE n = 0
    <2>1. w.place = <<>>
        BY <1>1, <1>3, <1>7 DEF GoesFurther, Begin
    <2> QED BY <1>5, <1>6, <2>1
<1>8. CASE n # 0
    <2>1. n \in 1 .. MaxTokens
        BY <1>6, <1>8
    <2>2. far[n] = Further(far[n - 1], side)
        BY <1>1, <2>1 DEF GoesFurther
    <2>3. Len(w.place) <= MaxTokens
        BY <1>3, <2>2 DEF Further, Onward
    <2> QED BY <1>5, <2>3
<1> QED BY <1>7, <1>8

(* An end of a way through one of some schemas.                            *)
LEMMA EndIs ==
    ASSUME NEW roots, NEW place, NEW required, NEW e \in Ends(roots, place, required)
    PROVE  \E root \in roots :
              /\ e.at = OnTheWay(root, place) /\ e.last = Len(place)
              /\ e.there <=> required /\ AskedFor(e.at, place)
              /\ SaidAtOnce(e.at, place) /\ WalkedThrough(e.at)
              /\ \E v \in e.at[e.last] : Schemas[v].types \cap ScalarTypes # {}
<1>1. PICK root \in roots :
          /\ SaidAtOnce(OnTheWay(root, place), place) /\ WalkedThrough(OnTheWay(root, place))
          /\ e = [at |-> OnTheWay(root, place), last |-> Len(place),
                  there |-> required /\ AskedFor(OnTheWay(root, place), place)]
          /\ \E v \in e.at[e.last] : Schemas[v].types \cap ScalarTypes # {}
    BY DEF Ends
<1> DEFINE at == OnTheWay(root, place)
           there == required /\ AskedFor(at, place)
<1>2. e.at = at /\ e.last = Len(place) /\ e.there = there
    BY <1>1
<1> HIDE DEF at
<1> QED BY <1>1, <1>2 DEF at

(* A field of a body guarantees what it says.                              *)
LEMMA BodyGuarantees ==
    ASSUME NEW roots \in SUBSET DOMAIN Schemas, NEW side,
           NEW kind \in {"response-body", "request-body"}, NEW required \in BOOLEAN,
           NEW f, OfBody(f, kind), Len(f.value.place) <= MaxTokens,
           NEW value, WellPlaced(value), Fits(f, value),
           \A s \in roots : \A g \in Fields(s, side, kind, required) :
              g.value = f.value => Alike(f, g) /\ ~g.unavailable,
           NEW e \in Ends(roots, value.place, required)
    PROVE  Guarantees(f, side, e)
<1>1. PICK root \in roots :
          /\ e.at = OnTheWay(root, value.place) /\ e.last = Len(value.place)
          /\ e.there <=> required /\ AskedFor(e.at, value.place)
          /\ SaidAtOnce(e.at, value.place) /\ WalkedThrough(e.at)
    BY EndIs
<1>2. value.kind = kind /\ Len(value.place) <= MaxTokens
    <2>1. f.value.kind = value.kind /\ Len(f.value.place) = Len(value.place)
        BY DEF Fits
    <2>2. f.value.kind = kind
        BY DEF OfBody
    <2> QED BY <2>1, <2>2
<1>3. ASSUME NEW v \in e.at[e.last], Schemas[v].types \cap ScalarTypes # {}
      PROVE  \E g : Alike(f, g) /\ ~g.unavailable /\ TellsAll(g, v, side, e)
    <2>1. PICK g \in Fields(root, side, kind, required) :
              Fits(g, value) /\ TellsAll(g, v, side, e)
        BY <1>1, <1>2, <1>3, FieldTells
    <2>2. OfBody(g, kind)
        BY <2>1, FieldsAre
    <2>3. f.value = g.value
        BY <2>1, <2>2, OneValueFits
    <2> QED BY <2>1, <2>3
<1> QED BY <1>3, AlikeGuarantees DEF Guarantees

(* So does a field of a parameter.                                         *)
LEMMA ParameterGuarantees ==
    ASSUME NEW a \in Apis, NEW f \in createMappingCatalog(a).targets, OfParameter(f),
           ~f.unavailable, NEW p \in SameParameter(a.parameters, f.value),
           NEW e \in Ends({p.schema}, <<>>, p.required)
    PROVE  Guarantees(f, "target", e)
<1> DEFINE value == [kind |-> p.location, place |-> <<>>]
<1>1. p \in CanBeTaken(a) /\ f.value = [kind |-> p.location, place |-> <<p.name>>]
    BY ParameterSays
<1>2. /\ p.location \in {"path", "query", "header"} /\ p.schema \in DOMAIN Schemas
      /\ p.required \in BOOLEAN
    BY <1>1, SchemasAssumption DEF CanBeTaken
<1>3. value.kind = p.location /\ value.place = <<>> /\ Len(value.place) = 0 /\ WellPlaced(value)
    BY DEF WellPlaced
<1> HIDE DEF value
<1>4. /\ e.at = OnTheWay(p.schema, value.place) /\ e.last = Len(value.place)
      /\ e.there <=> p.required /\ AskedFor(e.at, value.place)
      /\ SaidAtOnce(e.at, value.place) /\ WalkedThrough(e.at)
    BY <1>3, EndIs
<1>5. Len(value.place) <= MaxTokens
    <2>1. MaxTokens \in Nat
        BY TokensAssumption
    <2>2. 0 <= MaxTokens
        BY <2>1
    <2> QED BY <1>3, <2>2
<1>6. ASSUME NEW v \in e.at[e.last], Schemas[v].types \cap ScalarTypes # {}
      PROVE  \E g : Alike(f, g) /\ ~g.unavailable /\ TellsAll(g, v, "target", e)
    <2>1. PICK h \in Fields(p.schema, "target", p.location, p.required) :
              Fits(h, value) /\ TellsAll(h, v, "target", e)
        BY <1>2, <1>3, <1>4, <1>5, <1>6, FieldTells
    <2>2. OfBody(h, p.location)
        BY <1>2, <2>1, FieldsAre
    <2>3. h.value.place = <<>>
        BY <1>3, <2>1, <2>2 DEF Fits, OfBody
    <2> DEFINE g == [h EXCEPT !.value.place = <<p.name>>, !.slots = {},
                              !.unavailable = @ \/ h.value.place # <<>>]
    <2>4. g \in ParameterFields(p)
        BY <2>1 DEF ParameterFields
    <2>5. /\ g.types = h.types /\ g.format = h.format /\ g.enum = h.enum
          /\ g.nullable = h.nullable /\ g.required = h.required
          /\ g.unavailable <=> h.unavailable
        BY <2>2, <2>3 DEF OfBody, IsField
    <2> HIDE DEF g
    <2>6. OfParameter(g) /\ g.value = [kind |-> p.location, place |-> <<p.name>>]
        BY <1>2, <2>4, ParameterFieldsAre
    <2>7. Alike(f, g) /\ ~g.unavailable
        BY <1>1, <2>4, <2>6, CatalogComes
    <2>8. TellsAll(g, v, "target", e)
        BY <2>1, <2>5 DEF TellsAll
    <2> QED BY <2>7, <2>8
<1> QED BY <1>6, AlikeGuarantees DEF Guarantees

(* Numbers up to one.                                                      *)
LEMMA UpToIsUpTo == \A k \in Nat : k \in 0 .. k /\ (0 .. k - 1) \subseteq 0 .. k
OBVIOUS

(* What fields guarantee that go together.                                 *)
LEMMA ValuesAreTaken ==
    ASSUME NEW s, NEW t, NEW template, Compatible(s, t, template), NEW from, NEW to,
           Guarantees(s, "source", from), Guarantees(t, "target", to), from.last \in Nat,
           \E y \in from.at[from.last] : Schemas[y].types \cap ScalarTypes # {},
           \A x \in to.at[to.last] :
              /\ Schemas[x].types \cap ScalarTypes = {} =>
                    Schemas[x].types = {} /\ Schemas[x].enum = {} /\ Schemas[x].format = ""
              /\ Nullable(x) /\ Schemas[x].enum # {} => "null" \in Schemas[x].enum,
           NEW v \in Values(from.at, from.last), NEW x \in to.at[to.last]
    PROVE  Permits(x, IF template = "" THEN v ELSE Filled)
<1>1. from.last \in 0 .. from.last /\ (0 .. from.last - 1) \subseteq 0 .. from.last
    BY UpToIsUpTo
<1>2. CASE Schemas[x].types \cap ScalarTypes = {}
    BY <1>2 DEF Permits
<1>3. CASE Schemas[x].types \cap ScalarTypes # {}
    <2>1. PICK y \in from.at[from.last] : Schemas[y].types \cap ScalarTypes # {}
        OBVIOUS
    <2>2. /\ s.types = Schemas[y].types /\ s.format = Schemas[y].format /\ s.enum = Schemas[y].enum
          /\ (\E i \in 0 .. from.last : \E z \in from.at[i] : Nullable(z)) => s.nullable
        BY <2>1 DEF Guarantees
    <2>3. /\ t.types = Schemas[x].types /\ t.format = Schemas[x].format /\ t.enum = Schemas[x].enum
          /\ t.nullable <=> Schemas[x].nullable
        BY <1>3 DEF Guarantees
    <2>4. PICK from1 \in ScalarTypes, to1 \in ScalarTypes :
              /\ NonNull(s.types) = {from1} /\ NonNull(t.types) = {to1}
        BY DEF Compatible
    <2>5. /\ to1 \in Schemas[x].types /\ from1 \in s.types
          /\ \A type \in s.types : type = from1 \/ type = "null"
        BY <2>3, <2>4 DEF NonNull
    <2>6. CASE template # ""
        <3>1. to1 = "string" /\ t.format = "" /\ t.enum = {}
            BY <2>4, <2>6 DEF Compatible
        <3> QED BY <2>3, <2>5, <2>6, <3>1 DEF Permits, Filled
    <2>7. CASE template = ""
        <3>1. /\ to1 = from1 \/ (from1 = "integer" /\ to1 = "number")
              /\ t.format # "" => t.format = s.format
              /\ t.enum # {} => s.enum # {} /\ s.enum \subseteq t.enum
              /\ TakesNull(s) => TakesNull(t)
            BY <2>4, <2>7 DEF Compatible
        <3>2. TakesNull(t) <=> Nullable(x)
            BY <2>3 DEF TakesNull, Nullable
        <3>3. CASE Permits(y, v)
            <4>1. v.type = "null" => TakesNull(s)
                <5>1. from.last \in 0 .. from.last
                    BY <1>1
                <5> QED BY <2>1, <2>2, <3>3, <5>1 DEF Permits, TakesNull, Nullable
            <4>2. \/ v.type = to1 \/ (v.type = "integer" /\ to1 = "number")
                  \/ v.type = "null" /\ Nullable(x)
                BY <2>1, <2>2, <2>4, <2>5, <3>1, <3>2, <3>3, <4>1 DEF Permits, ScalarTypes
            <4>3. Schemas[x].enum # {} => v.text \in Schemas[x].enum
                BY <2>2, <2>3, <3>1, <3>3 DEF Permits
            <4>4. Schemas[x].format # "" /\ v.type # "null" => Schemas[x].format \in v.formats
                BY <2>2, <2>3, <3>1, <3>3 DEF Permits
            <4>5. Permits(x, v)
                BY <2>5, <4>2, <4>3, <4>4 DEF Permits
            <4> QED BY <2>7, <4>5
        <3>4. CASE v = Null /\ \E i \in 0 .. from.last - 1 : CanBeNull(from.at[i])
            <4>1. TakesNull(s)
                BY <1>1, <2>2, <3>4 DEF CanBeNull, TakesNull
            <4>2. Nullable(x)
                BY <3>1, <3>2, <4>1
            <4>3. Permits(x, Null)
                BY <4>2 DEF Permits, Null
            <4> QED BY <2>7, <3>4, <4>3
        <3> QED BY <2>1, <3>3, <3>4 DEF Values
    <2> QED BY <2>6, <2>7
<1> QED BY <1>2, <1>3

(* Whatever the mapping of the user takes and gives is guaranteed.         *)
LEMMA EditsGiveWhatIsAsked == DialogInv => EditsAreGuaranteed
<1> SUFFICES ASSUME DialogInv, Edited,
                    NEW from \in Ends(Answers(api), mapping.source.place, TRUE),
                    NEW to \in Takers(api, mapping.target)
             PROVE  /\ \A v \in Values(from.at, from.last) : \A x \in to.at[to.last] :
                          Permits(x, IF mapping.template = "" THEN v ELSE Filled)
                    /\ to.there => from.there
                    /\ \A n \in 0 .. from.last : \A x \in from.at[n] : ~Schemas[x].writeOnly
                    /\ \A n \in 0 .. to.last : \A x \in to.at[n] : ~Schemas[x].readOnly
    BY DEF EditsAreGuaranteed
<1>1. /\ api \in Apis /\ catalog = createMappingCatalog(api)
      /\ WellPlaced(mapping.source) /\ WellPlaced(mapping.target) /\ Permitted(mapping)
    BY DEF DialogInv, Edited
<1>2. PICK s \in catalog.sources, t \in catalog.targets :
          /\ Fits(s, mapping.source) /\ Fits(t, mapping.target)
          /\ ~s.unavailable /\ ~t.unavailable /\ Compatible(s, t, mapping.template)
    BY <1>1 DEF Permitted
<1>3. /\ api.body \in SUBSET DOMAIN Schemas /\ api.bodyRequired \in BOOLEAN
      /\ Answers(api) \in SUBSET DOMAIN Schemas
    BY <1>1, SchemasAssumption DEF Answers, successful
<1>4. Guarantees(s, "source", from)
    <2>1. PICK r \in Answers(api) :
              \E g \in Fields(r, "source", "response-body", TRUE) : Alike(s, g)
        BY <1>1, CatalogComes
    <2>2. PICK g \in Fields(r, "source", "response-body", TRUE) : Alike(s, g)
        BY <2>1
    <2>3. OfBody(g, "response-body") /\ Len(g.value.place) <= MaxTokens
        BY <1>3, <2>2, FieldsAre, FieldsAreShort
    <2>4. OfBody(s, "response-body") \/ OfParameter(s)
        BY <1>1, CatalogIs DEF Listed
    <2>5. OfBody(s, "response-body") /\ Len(s.value.place) <= MaxTokens
        BY <2>2, <2>3, <2>4 DEF Alike, OfBody, OfParameter
    <2>6. \A q \in Answers(api) : \A h \in Fields(q, "source", "response-body", TRUE) :
              h.value = s.value => Alike(s, h) /\ ~h.unavailable
        BY <1>1, <1>2, CatalogComes
    <2> QED BY <1>1, <1>2, <1>3, <2>5, <2>6, BodyGuarantees
<1>5. OfBody(t, "request-body") \/ OfParameter(t)
    BY <1>1, CatalogIs DEF Listed
<1>6. ASSUME mapping.target.kind = "request-body" PROVE Guarantees(t, "target", to)
    <2>1. to \in Ends(api.body, mapping.target.place, api.bodyRequired)
        BY <1>6 DEF Takers
    <2>2. OfBody(t, "request-body") /\ ~OfParameter(t)
        BY <1>2, <1>5, <1>6 DEF Fits, OfParameter
    <2>3. PICK r \in api.body :
              \E g \in Fields(r, "target", "request-body", api.bodyRequired) : Alike(t, g)
        BY <1>1, <2>2, CatalogComes
    <2>4. PICK g \in Fields(r, "target", "request-body", api.bodyRequired) : Alike(t, g)
        BY <2>3
    <2>5. Len(t.value.place) <= MaxTokens
        <3>1. Len(g.value.place) <= MaxTokens
            BY <1>3, <2>4, FieldsAreShort
        <3> QED BY <2>4, <3>1 DEF Alike
    <2>6. \A q \in api.body : \A h \in Fields(q, "target", "request-body", api.bodyRequired) :
              h.value = t.value => Alike(t, h) /\ ~h.unavailable
        BY <1>1, <1>2, CatalogComes
    <2>7. Guarantees(t, "target", to)
        BY <1>1, <1>2, <1>3, <2>1, <2>2, <2>5, <2>6, BodyGuarantees
    <2> QED BY <2>7
<1>7. ASSUME mapping.target.kind # "request-body" PROVE Guarantees(t, "target", to)
    <2>1. PICK p \in SameParameter(api.parameters, mapping.target) :
              to \in Ends({p.schema}, <<>>, p.required)
        BY <1>7 DEF Takers
    <2>2. OfParameter(t)
        BY <1>2, <1>5, <1>7 DEF Fits, OfBody
    <2>3. mapping.target.kind = t.value.kind /\ mapping.target.place[1] = t.value.place[1]
        BY <1>1, <1>2, <2>2 DEF Fits, OfParameter, WellPlaced
    <2>4. p \in SameParameter(api.parameters, t.value)
        BY <2>1, <2>3 DEF SameParameter
    <2> QED BY <1>1, <1>2, <2>1, <2>2, <2>4, ParameterGuarantees
<1>8. Guarantees(t, "target", to)
    BY <1>6, <1>7
<1>9. /\ from.last = Len(mapping.source.place)
      /\ \E y \in from.at[from.last] : Schemas[y].types \cap ScalarTypes # {}
    <2>1. PICK roots, place, required :
              place = mapping.source.place /\ from \in Ends(roots, place, required)
        OBVIOUS
    <2> QED BY <2>1, EndIs
<1>10. from.last \in Nat
    BY <1>1, <1>9 DEF WellPlaced
<1>11. /\ \E x \in to.at[to.last] : Schemas[x].types \cap ScalarTypes # {}
       /\ \A x \in to.at[to.last] :
             /\ Schemas[x].types \cap ScalarTypes = {} =>
                   Schemas[x].types = {} /\ Schemas[x].enum = {} /\ Schemas[x].format = ""
             /\ Nullable(x) /\ Schemas[x].enum # {} => "null" \in Schemas[x].enum
    <2>1. PICK roots, place, required : to \in Ends(roots, place, required)
        <3>1. CASE mapping.target.kind = "request-body"
            BY <3>1 DEF Takers
        <3>2. CASE mapping.target.kind # "request-body"
            <4>1. PICK q \in SameParameter(api.parameters, mapping.target) :
                      to \in Ends({q.schema}, <<>>, q.required)
                BY <3>2 DEF Takers
            <4> QED BY <4>1
        <3> QED BY <3>1, <3>2
    <2>2. PICK root \in roots :
              /\ to.at = OnTheWay(root, place) /\ to.last = Len(place)
              /\ SaidAtOnce(to.at, place)
              /\ \E v \in to.at[to.last] : Schemas[v].types \cap ScalarTypes # {}
        BY <2>1, EndIs
    <2> QED BY <2>2 DEF SaidAtOnce
<1>12. \A v \in Values(from.at, from.last) : \A x \in to.at[to.last] :
          Permits(x, IF mapping.template = "" THEN v ELSE Filled)
    BY <1>2, <1>4, <1>8, <1>9, <1>10, <1>11, ValuesAreTaken
<1>13. PICK y \in from.at[from.last] : Schemas[y].types \cap ScalarTypes # {}
    BY <1>9
<1>14. PICK x \in to.at[to.last] : Schemas[x].types \cap ScalarTypes # {}
    BY <1>11
<1>15. to.there => from.there
    BY <1>2, <1>4, <1>8, <1>13, <1>14 DEF Compatible, Guarantees
<1>16. \A n \in 0 .. from.last : \A z \in from.at[n] : ~Schemas[z].writeOnly
    BY <1>4, <1>13 DEF Guarantees, Marked
<1>17. \A n \in 0 .. to.last : \A z \in to.at[n] : ~Schemas[z].readOnly
    BY <1>8, <1>14 DEF Guarantees, Marked
<1> QED BY <1>12, <1>15, <1>16, <1>17

(* Only applying gives the candidate another mapping.                      *)
LEMMA StepReopens ==
    DialogInv /\ [DialogNext]_dialogVars =>
        [mapping' # mapping => Reopened(catalog', mapping') = dialog]_dialogVars
<1> SUFFICES ASSUME DialogInv, [DialogNext]_dialogVars, mapping' # mapping
             PROVE  Reopened(catalog', mapping') = dialog
    OBVIOUS
<1>1. Apply
    BY DEF DialogNext, OpenDialog, SelectSource, SelectTarget, TypeIndex, TypeTemplate, Change,
           Cancel, dialogVars
<1> QED BY <1>1, AppliedIs DEF Apply

(* README.md:57, the guard of mapping-editor-model.ts:281 and the walk of  *)
(* review-workspace-adapter.ts: whatever the documents hold and was typed, *)
(* an edit opens again as it was made, a secret leaves only in the header  *)
(* meant for it, and what the panel says of the types is what the dialog   *)
(* said.                                                                   *)
THEOREM EditsAlwaysStay == DialogSpec => EditsStay
<1>1. DialogSpec => []DialogInv
    BY DialogStarts, DialogKeeps, PTL DEF DialogSpec
<1>2. [DialogNext]_dialogVars /\ DialogInv =>
          [mapping' # mapping => Reopened(catalog', mapping') = dialog]_dialogVars
    BY StepReopens
<1>3. DialogSpec => EditsReopen
    BY <1>1, <1>2, PTL DEF DialogSpec, EditsReopen
<1>4. DialogSpec => [](DialogTyped /\ SecretsAreKept)
    BY <1>1, DialogHolds, PTL
<1>5. DialogSpec => []PanelAgrees
    BY <1>1, PanelHolds, PTL
<1>6. DialogSpec => [](DialogTyped /\ SecretsAreKept /\ PanelAgrees)
    BY <1>4, <1>5, PTL
<1> QED BY <1>3, <1>6 DEF EditsStay

(* README.md:59 (scalar types, required values, formats, enums and null    *)
(* are validated, what is only read is no target): whatever the documents  *)
(* hold and was typed, what a mapping of the user takes is allowed where   *)
(* it goes, is there when it has to be, and is neither taken from what is  *)
(* only written nor put into what is only read.                            *)
THEOREM EditsAlwaysGuaranteed == DialogSpec => []EditsAreGuaranteed
BY DialogStarts, DialogKeeps, EditsGiveWhatIsAsked, PTL DEF DialogSpec

====
