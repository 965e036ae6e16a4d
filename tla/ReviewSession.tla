---- MODULE ReviewSession ----
(***************************************************************************)
(* One review session in the browser: the user accepts, rejects, edits and *)
(* undoes, imports Decision Sets, and comes back to what was saved         *)
(* (apps/web/src/review/review-session.ts, review-engine.ts,               *)
(* review-transfer.ts, decision-factory.ts, review-transfer-controls.tsx,  *)
(* the buttons of review-actions.tsx and review-workspace.tsx).            *)
(*                                                                         *)
(* Reading a file is asynchronous: the user can go on reviewing between    *)
(* the choice of the file and the dialog that shows the merged outcomes.   *)
(* Filters, selection and layout do not bear on decisions and are left out.*)
(***************************************************************************)
EXTENDS ReviewDecisions

CONSTANTS
    Editable,        \* the mappings validateEditedMapping accepts (MappingEditor)
    Baselines,       \* the decision sets a snapshot can come with
    Files,           \* the Decision Sets the user has at hand
    MaxRevision,     \* Number.MAX_SAFE_INTEGER, the highest revision
    MaxFileEntries,  \* what fits into MAX_DECISION_FILE_BYTES
    MaxDrafts        \* bound on the drafts of a session

ASSUME SessionAssumption ==
    /\ Editable \subseteq Mappings
    /\ Baselines \cup Files \subseteq DecisionSets
    /\ MaxRevision \in Nat /\ MaxFileEntries \in Nat /\ MaxDrafts \in Nat

VARIABLES
    baseline,  \* snapshot.reviewDecisionSet
    session,   \* ReviewSessionState
    screen,    \* the workspace, a file being read, the import dialog, nothing
    chosen     \* the file, and whether it suited the session it was chosen in

sessionVars == <<baseline, session, screen, chosen>>

Intents == [candidate : CandidateIds, revision : Nat \ {0},
            action : {"accept", "reject", "edit"},
            mapping : Mappings \cup {NoMapping}]

EmptySet == [revision |-> 0, decisions |-> {}, manualEdges |-> {}]
NoChoice == [file |-> EmptySet, suited |-> FALSE]

SessionTyped ==
    /\ baseline \in Baselines
    /\ DOMAIN session = {"drafts", "imported", "revisions", "workflow"}
    /\ session.drafts \in Seq(Intents) /\ Len(session.drafts) <= MaxDrafts
    /\ session.imported \in DecisionSets
    /\ session.revisions \in [CandidateIds -> Nat]
    /\ session.workflow \in BOOLEAN
    /\ screen \in {"workspace", "reading", "dialog", "dead"}
    /\ chosen \in [file : Files \cup {EmptySet}, suited : BOOLEAN]

MaxOf(S) == CHOOSE n \in S : \A m \in S : m <= n

(* Adding one to a number beyond the safe integers leaves it as it is.     *)
PlusOne(n) == IF n > MaxRevision THEN n ELSE n + 1
-----------------------------------------------------------------------------
deriveBaselineRevisions(D) ==
    [c \in CandidateIds |->
        MaxOf({0} \cup {d.revision : d \in {e \in D : e.candidate = c}})]

(* Mutant: the drafts of this session do not count.                        *)
NextRevisionAfterBaseline(s, c) == PlusOne(s.revisions[c])

getNextReviewRevision(s, c) ==
    PlusOne(MaxOf({s.revisions[c]} \cup
        {i.revision : i \in {j \in ToSet(s.drafts) : j.candidate = c}}))

createReviewDecisionFromIntent(i) ==
    Decision(i.candidate, "current", i.revision, i.action, i.mapping, "-", "-")

(* uniqueById: of two decisions with one id the later one stays.           *)
uniqueById(A, B) == {a \in A : \A b \in B : Id(a) # Id(b)} \cup B

draftDecisions(s) == {createReviewDecisionFromIntent(i) : i \in ToSet(s.drafts)}

(* materializeReviewSession: the decisions of the snapshot, of the imports *)
(* and of the drafts.                                                      *)
decisionSet(s) ==
    [revision |-> MaxOf({baseline.revision, s.imported.revision}
                        \cup {d.revision : d \in draftDecisions(s)}),
     decisions |-> uniqueById(uniqueById(baseline.decisions, s.imported.decisions),
                              draftDecisions(s)),
     manualEdges |->
        {e \in baseline.manualEdges :
            \A f \in s.imported.manualEdges : e.id # f.id}
        \cup s.imported.manualEdges]

Reviewed(s) == materializeReviewedOperationGraph(decisionSet(s))

StateOf(s, c) == CandidateState(decisionSet(s).decisions, Reviewed(s).outcomes, c)

createInitialReviewSession ==
    [drafts |-> <<>>, imported |-> EmptySet, workflow |-> FALSE,
     revisions |-> deriveBaselineRevisions(baseline.decisions)]
-----------------------------------------------------------------------------
(* parseDecisionFile, for what parseReviewDecisionSet lets through.        *)
Parses(set) ==
    /\ Cardinality(set.decisions) + Cardinality(set.manualEdges) <= MaxFileEntries
    /\ \A n \in {set.revision} \cup {d.revision : d \in set.decisions} :
          n < MaxRevision

(* Mutant: an import counts as a change of the set.                        *)
mergeDecisionSetsCounting(a, b) ==
    [revision |-> MaxOf({a.revision, b.revision}) + 1,
     decisions |-> a.decisions \cup b.decisions,
     manualEdges |-> a.manualEdges \cup b.manualEdges]

mergeDecisionSets(a, b) ==
    [revision |-> MaxOf({a.revision, b.revision}),
     decisions |-> a.decisions \cup b.decisions,
     manualEdges |-> a.manualEdges \cup b.manualEdges]

(* It throws when two entries of one id differ.                            *)
Clash(a, b) ==
    \/ \E d, e \in a.decisions \cup b.decisions : Id(d) = Id(e) /\ d # e
    \/ \E d, e \in a.manualEdges \cup b.manualEdges : d.id = e.id /\ d # e

(* The edits the browser must be able to show and to edit again.           *)
Incompatible(d) ==
    /\ d.action = "edit" /\ d.candidate \in DOMAIN Candidates
    /\ d.print = "current" /\ d.mapping \notin Editable

(* previewDecisionImport throws.                                           *)
Refuses(s, file) ==
    \/ \E d \in file.decisions : Incompatible(d)
    \/ Clash(decisionSet(s), file)

(* A decision that is a draft of this session stays one.                   *)
Foreign(s, file) ==
    [file EXCEPT !.decisions =
        {d \in @ : \A e \in draftDecisions(s) : Id(d) # Id(e)}]

previewDecisionImport(s, file) ==
    LET imported == mergeDecisionSets(s.imported, Foreign(s, file))
    IN  [s EXCEPT !.imported = imported,
                  !.revisions = deriveBaselineRevisions(
                      mergeDecisionSets(baseline, imported).decisions)]
-----------------------------------------------------------------------------
(* Mutant: the record holds what this user decided and nothing else.       *)
encodeDraftsOnly(s) ==
    [drafts |-> s.drafts, imported |-> EmptySet, workflow |-> s.workflow]

encodeStoredReview(s) ==
    [drafts |-> s.drafts, imported |-> s.imported, workflow |-> s.workflow]

decoded(r) ==
    [previewDecisionImport(createInitialReviewSession, r.imported)
        EXCEPT !.drafts = r.drafts, !.workflow = r.workflow]

(* decodeStoredReview does not throw: the intents are sound, the imported  *)
(* set is one that could be imported again, and so is the whole.           *)
Decodes(r) ==
    /\ \A i \in ToSet(r.drafts) :
          /\ i.revision <= MaxRevision
          /\ i.candidate \in DOMAIN Candidates
          /\ i.action = "edit" => i.mapping \in Editable
    /\ Parses(r.imported) /\ ~Refuses(createInitialReviewSession, r.imported)
    /\ Parses(decisionSet(decoded(r)))
    /\ ~Refuses(createInitialReviewSession, decisionSet(decoded(r)))
-----------------------------------------------------------------------------
SessionInit ==
    /\ baseline \in Baselines
    /\ session = createInitialReviewSession
    /\ screen = "workspace"
    /\ chosen = NoChoice

(* The dialog is modal, and nothing works once rendering has failed.       *)
Reviewing == screen \in {"workspace", "reading"}

Draft(c, action, mapping) ==
    /\ Reviewing /\ Len(session.drafts) < MaxDrafts
    /\ session' = [session EXCEPT !.drafts =
          Append(@, [candidate |-> c, revision |-> getNextReviewRevision(session, c),
                     action |-> action, mapping |-> mapping])]
    /\ UNCHANGED <<baseline, screen, chosen>>

(* An edited candidate has no blockers, but cannot be accepted either.     *)
acceptCandidate(c) ==
    /\ ~Candidates[c].blocked
    /\ Draft(c, "accept", NoMapping)
    /\ StateOf(session, c) \in {"pending", "rejected"}

(* The dialog sees to it that the reason is valid.                         *)
rejectCandidate(c) ==
    /\ Draft(c, "reject", NoMapping)
    /\ StateOf(session, c) # "rejected"

editCandidate(c) ==
    /\ Reviewing /\ Len(session.drafts) < MaxDrafts
    /\ StateOf(session, c) \in {"pending", "accepted", "rejected", "edited"}
    /\ \E m \in Editable : Draft(c, "edit", m)

undoLastDraft ==
    /\ Reviewing /\ session.drafts # <<>>
    /\ session' = [session EXCEPT !.drafts = Front(@)]
    /\ UNCHANGED <<baseline, screen, chosen>>

(* The workflow editor creates or deletes the draft of a workflow.         *)
setWorkflowDraft ==
    /\ Reviewing
    /\ session' = [session EXCEPT !.workflow = ~@]
    /\ UNCHANGED <<baseline, screen, chosen>>

(* importFile runs with the session it was rendered with.                  *)
ChooseFile ==
    /\ screen = "workspace"
    /\ \E file \in Files :
          chosen' = [file |-> file,
                     suited |-> Parses(file) /\ ~Refuses(session, file)]
    /\ screen' = "reading"
    /\ UNCHANGED <<baseline, session>>

(* The dialog previews the import again, in the session of now; what it    *)
(* throws no one catches.                                                  *)
FileRead ==
    /\ screen = "reading"
    /\ screen' = IF ~chosen.suited THEN "workspace"
                 ELSE IF Refuses(session, chosen.file) THEN "dead"
                 ELSE "dialog"
    /\ chosen' = IF screen' = "dialog" THEN chosen ELSE NoChoice
    /\ UNCHANGED <<baseline, session>>

(* restore-decisions sets the workflow draft to what the action carries,   *)
(* and this one carries none.                                              *)
ApplyImport ==
    /\ screen = "dialog"
    /\ session' = [previewDecisionImport(session, chosen.file)
                      EXCEPT !.workflow = FALSE]
    /\ screen' = "workspace"
    /\ chosen' = NoChoice
    /\ UNCHANGED baseline

CancelImport ==
    /\ screen = "dialog"
    /\ screen' = "workspace"
    /\ chosen' = NoChoice
    /\ UNCHANGED <<baseline, session>>

(* The page is loaded again: the session becomes what was saved of it, or  *)
(* stays blank, beside an error, when that does not decode.                *)
Restore ==
    /\ LET saved == encodeStoredReview(session)
       IN  session' = IF Decodes(saved) THEN decoded(saved)
                      ELSE createInitialReviewSession
    /\ screen' = "workspace"
    /\ chosen' = NoChoice
    /\ UNCHANGED baseline

SessionNext ==
    \/ \E c \in DOMAIN Candidates :
          acceptCandidate(c) \/ rejectCandidate(c) \/ editCandidate(c)
    \/ undoLastDraft \/ setWorkflowDraft
    \/ ChooseFile \/ FileRead \/ ApplyImport \/ CancelImport
    \/ Restore

SessionSpec == SessionInit /\ [][SessionNext]_sessionVars
-----------------------------------------------------------------------------
(* What ReviewProofs assumes, and the instance for TLC satisfies:          *)
(* revisions leave room for the drafts of a session,                       *)
Low == MaxRevision - MaxDrafts - 1

RevisionsAreLow ==
    /\ Low \in Nat
    /\ \A set \in Baselines \cup Files : \A d \in set.decisions : d.revision <= Low

(* everything together fits into a file, and a baseline does not contain   *)
(* what the browser would refuse as an import.                             *)
AllDecisions == UNION {set.decisions : set \in Baselines \cup Files}
AllEdges == UNION {set.manualEdges : set \in Baselines \cup Files}

SetsFit ==
    /\ RevisionsAreLow
    /\ \A set \in Baselines \cup Files : set.revision <= Low
    /\ IsFiniteSet(AllDecisions) /\ IsFiniteSet(AllEdges)
    /\ Cardinality(AllDecisions) + Cardinality(AllEdges) + MaxDrafts <= MaxFileEntries
    /\ \A b \in Baselines :
          ~Clash(b, EmptySet) /\ \A d \in b.decisions : ~Incompatible(d)
-----------------------------------------------------------------------------
(* An edge that was not declared rests on a manual edge or on a decision   *)
(* that is the only highest one of its candidate, was made about the       *)
(* candidate as it is now, and does not reject it.                         *)
EdgesAreJustified ==
    LET decisions == decisionSet(session).decisions
    IN  \A e \in Reviewed(session).edges : \A d \in e.by :
           /\ d.action # "reject" /\ d.print = "current"
           /\ \A x \in decisions : x.candidate = d.candidate =>
                 x.revision < d.revision \/ decisionSemantics(x) = d

(* No mapping is in the reviewed graph twice, whether it was declared,     *)
(* added by hand or accepted for several candidates.                       *)
OneEdgePerMapping ==
    LET edges == Reviewed(session).edges
        keys(e) == {<<e.ends, m>> : m \in e.mappings}
    IN  \A e \in edges :
           /\ keys(e) \cap Declared = {}
           /\ \A f \in edges \ {e} : keys(e) \cap keys(f) = {}

(* The user sees what became of every decision, once.                      *)
EveryDecisionAccounted ==
    LET outcomes == Reviewed(session).outcomes
    IN  \A d \in decisionSet(session).decisions :
           Cardinality({o \in outcomes : o.decision = Id(d)}) = 1

(* What the user has just decided holds, whatever was in the snapshot, was *)
(* imported, undone or restored before: it supersedes and never conflicts. *)
LatestDraftRules ==
    [][Len(session'.drafts) > Len(session.drafts) =>
          createReviewDecisionFromIntent(Last(session'.drafts))
             \in Active(decisionSet(session').decisions)]_sessionVars

(* Importing a file a second time changes nothing.                         *)
ImportIsIdempotent ==
    [][screen = "dialog" /\ screen' = "workspace" /\ session' # session =>
          /\ ~Refuses(session', chosen.file)
          /\ previewDecisionImport(session', chosen.file) = session']_sessionVars

(* An import decides about the candidates the file names and no others.    *)
ImportKeepsToItself ==
    [][screen = "dialog" =>
          \A c \in CandidateIds \ Named(chosen.file.decisions) :
             {d \in Active(decisionSet(session).decisions) : d.candidate = c} =
             {d \in Active(decisionSet(session').decisions) : d.candidate = c}]_sessionVars

(* A session that imports its own export can still be undone to where it   *)
(* would have come without (a test of review-transfer.test.ts, in every    *)
(* session).                                                               *)
ReimportKeepsUndo ==
    session.drafts # <<>> =>
        LET Undone(s) == [s EXCEPT !.drafts = Front(@)]
            again == previewDecisionImport(session, decisionSet(session))
        IN  decisionSet(Undone(again)).decisions =
            decisionSet(Undone(session)).decisions

(* What is saved can be restored, and is the session that was saved.       *)
SavedSessionRestores ==
    /\ Decodes(encodeStoredReview(session))
    /\ decoded(encodeStoredReview(session)) = session

(* README.md:61 says that an import is validated and its outcomes are      *)
(* shown before it is applied.                                             *)
ImportNeverKills == screen # "dead"

(* What the reviewed graph and its outcomes show is what was decided: of a *)
(* session of the right shape no edge is without a decision or there       *)
(* twice, and no decision goes unmentioned.                                *)
GraphFollowsDecisions ==
    SessionTyped /\ EdgesAreJustified /\ OneEdgePerMapping /\ EveryDecisionAccounted

(* Imports add up, in whatever order and however often they come, one's    *)
(* own export among them.                                                  *)
ImportsAddUp == ImportIsIdempotent /\ ImportKeepsToItself /\ []ReimportKeepsUndo
====
