---- MODULE Exploration ----
(***************************************************************************)
(* What the workspace works out from the accepted graph, the candidates    *)
(* and the filters: the operations in scope, the suggestions joined to     *)
(* connections, the preview that keeps the canvas free of cycles, the      *)
(* neighbourhood of a node, the candidates the review lists, and the       *)
(* project file (apps/web/src/workspace/operation-view-model.ts and        *)
(* exploration-model.ts, review/review-selectors.ts,                       *)
(* project/project-file.ts and workspace-layout.ts).                       *)
(*                                                                         *)
(* An operation is its node.  A search term is the set of what it finds.   *)
(***************************************************************************)
EXTENDS Integers, FiniteSets, SequencesExt

CONSTANTS
    Operations,  \* operations and nodes of every snapshot there is
    MethodOf,    \* [Operations -> methods]
    TagsOf,      \* [Operations -> sets of tags]
    Finds,       \* [search terms -> the operations whose texts hold it]
    Mentions,    \* [search terms -> the candidates whose texts hold it]
    Declared,    \* the declared relations, pairs of operations
    Candidates,  \* [Nat -> [source, target, confidence, evidence, blockers, band]]
    MaxCanvas,   \* MAX_CANVAS_OPERATIONS
    MaxPreview   \* the limit of selectPreviewConnections

Anything == ""    \* no search term, and no tag
NoNode == "no node"

ASSUME ExplorationAssumption ==
    /\ IsFiniteSet(Operations) /\ Declared \subseteq Operations \X Operations
    /\ MaxCanvas \in Nat /\ MaxPreview \in Nat
    /\ DOMAIN Candidates \subseteq Nat /\ IsFiniteSet(DOMAIN Candidates)
    /\ \A c \in DOMAIN Candidates :
          /\ {Candidates[c].source, Candidates[c].target} \subseteq Operations
          /\ {Candidates[c].blockers, Candidates[c].confidence,
              Candidates[c].evidence} \subseteq Int
    /\ NoNode \notin Operations

-----------------------------------------------------------------------------
(* filterOperationViewModels; near is the neighbourhood in focus.          *)
InScope(op, filters, near) ==
    /\ filters.methods = {} \/ MethodOf[op] \in filters.methods
    /\ \/ filters.tag \in TagsOf[op] \cup {Anything}
       \/ filters.tag = "Untagged" /\ TagsOf[op] = {}
    /\ op \in near
    /\ filters.query = Anything \/ op \in Finds[filters.query]

Within(edges, nodes) == edges \cap (nodes \X nodes)

(* The order of the suggestions: fewer blockers, then more confidence,     *)
(* then more evidence, then the id.                                        *)
Preferred(c, d) ==
    LET x == Candidates[c]  y == Candidates[d]
    IN  \/ x.blockers < y.blockers
        \/ /\ x.blockers = y.blockers
           /\ \/ x.confidence > y.confidence
              \/ /\ x.confidence = y.confidence
                 /\ \/ x.evidence > y.evidence
                    \/ x.evidence = y.evidence /\ c < d

Best(C) == CHOOSE c \in C : \A d \in C \ {c} : Preferred(c, d)

LeastPreferred(C) == CHOOSE c \in C : \A d \in C \ {c} : Preferred(d, c)

Ends(c) == <<Candidates[c].source, Candidates[c].target>>

(* buildCandidateConnections: the suggestions between two operations are   *)
(* one connection, known by the best of them.                              *)
Connections(pending, nodes) ==
    LET shown == {c \in pending : Ends(c) \in nodes \X nodes
                                  /\ Candidates[c].source # Candidates[c].target}
    IN  {Best({d \in shown : Ends(d) = Ends(c)}) : c \in shown}

(* The operations that can be reached along the edges.                     *)
Reached(edges, from) ==
    LET near[n \in 0 .. Cardinality(Operations)] ==
            IF n = 0 THEN {from}
            ELSE near[n - 1] \cup {e[2] : e \in {x \in edges : x[1] \in near[n - 1]}}
    IN  near[Cardinality(Operations)]

OnCanvas(edges, chosen) == edges \cup {Ends(c) : c \in chosen}

(* selectPreviewConnections: the best suggestions that, with the accepted  *)
(* edges, close no cycle; the least preferred comes last.                  *)
Closes(edges, chosen, c) ==
    Candidates[c].source \in Reached(OnCanvas(edges, chosen), Candidates[c].target)

Preview(edges, connections) ==
    LET Add(c, chosen) ==
            IF \/ Cardinality(chosen) >= MaxPreview \/ Candidates[c].blockers > 0
               \/ Closes(edges, chosen, c)
            THEN chosen ELSE chosen \cup {c}
    IN  MapThenFoldSet(Add, {}, LAMBDA c : c, LeastPreferred, connections)

(* focusNeighborhood *)
Neighbours(edges, connections, node) ==
    LET all == edges \cup {Ends(c) : c \in connections}
    IN  {node} \cup {e[1] : e \in {x \in all : x[2] = node}}
               \cup {e[2] : e \in {x \in all : x[1] = node}}
-----------------------------------------------------------------------------
(* The states the review filters tell apart; what becomes of decisions     *)
(* that conflict or are stale is for ReviewDecisions.                      *)
RowStates == {"pending", "accepted", "rejected", "edited"}
StateFilters == RowStates \cup {"all", "needs-attention"}
Bands == {"high", "medium", "low", "hidden"}

DefaultFilters ==
    [query |-> Anything, bands |-> {"high", "medium"}, state |-> "pending",
     blockersOnly |-> FALSE]

StateAfter == [accept |-> "accepted", reject |-> "rejected", edit |-> "edited"]

(* The last draft about a candidate decides.                               *)
StateOf(drafts, c) ==
    LET about == {i \in DOMAIN drafts : drafts[i].candidate = c}
    IN  IF about = {} THEN "pending"
        ELSE StateAfter[drafts[CHOOSE i \in about : \A j \in about : j <= i].action]

(* An edited candidate has no blockers.                                    *)
BlockersOf(drafts, c) ==
    IF StateOf(drafts, c) = "edited" THEN 0 ELSE Candidates[c].blockers

(* The candidates of a snapshot.                                           *)
Rows(nodes) == {c \in DOMAIN Candidates : Ends(c) \in nodes \X nodes}

Pending(drafts, nodes) == {c \in Rows(nodes) : StateOf(drafts, c) = "pending"}

AcceptedEdges(drafts, nodes) ==
    Within(Declared, nodes)
    \cup {Ends(c) : c \in {d \in Rows(nodes) :
                               StateOf(drafts, d) \in {"accepted", "edited"}}}

(* filterAndSortReviewCandidates, in the order of confidence.              *)
Listed(drafts, filters, nodes) ==
    {c \in Rows(nodes) :
        /\ Candidates[c].band \in filters.bands
        /\ filters.state \in {"all", StateOf(drafts, c)}
        /\ filters.blockersOnly => BlockersOf(drafts, c) > 0
        /\ filters.query = Anything \/ c \in Mentions[filters.query]}

ListOrder(c, d) ==
    \/ Candidates[c].confidence > Candidates[d].confidence
    \/ Candidates[c].confidence = Candidates[d].confidence /\ c < d

FirstListed(C) == CHOOSE c \in C : \A d \in C \ {c} : ListOrder(c, d)
-----------------------------------------------------------------------------
DefaultLayout == [direction |-> "right", moved |-> {}]

serializeProject(source, drafts, layout) ==
    [source |-> source, drafts |-> drafts, layout |-> layout]

(* parseProject does not throw: the file is of this source, its layout     *)
(* places nodes of the snapshot, and its drafts are about its candidates.  *)
parsesProject(file, nodes) ==
    /\ file.source = nodes
    /\ file.layout.moved \subseteq nodes
    /\ \A i \in DOMAIN file.drafts : file.drafts[i].candidate \in Rows(nodes)
====
