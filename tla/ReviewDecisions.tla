---- MODULE ReviewDecisions ----
(***************************************************************************)
(* What a set of review decisions means: which decision of each candidate  *)
(* is active, what became of the others, and which edges the reviewed      *)
(* graph gains (packages/review/src/decision-resolution.ts,                *)
(* materialize-reviewed-graph.ts, canonical.ts; the projection to one      *)
(* state per candidate is apps/web/src/review/review-workspace-adapter.ts).*)
(*                                                                         *)
(* Candidates and manual edges are numbered in the order of their ids,     *)
(* which is the order in which the code visits them.  Decisions are a set: *)
(* the code sorts them before it looks.                                    *)
(***************************************************************************)
EXTENDS Integers, FiniteSets, SequencesExt

CONSTANTS
    CandidateIds,  \* what a decision may name
    Candidates,    \* the snapshot's candidates: [ends, mapping, blocked]
    Mappings,      \* the data mappings
    Placed,        \* the pairs of end points whose nodes the graph has
    Declared       \* the <<ends, mapping>> of its declared edges

ASSUME DecisionsAssumption ==
    /\ CandidateIds \subseteq Nat
    /\ DOMAIN Candidates \subseteq CandidateIds

NoMapping == "-"

(* print: whether the fingerprint and the rule-set version are those the   *)
(* candidate has now.  aliases: the part of an edited mapping that the id  *)
(* leaves out; decidedAt: the part the semantics leave out too.            *)
Decision(c, print, revision, action, mapping, aliases, decidedAt) ==
    [candidate |-> c, print |-> print, revision |-> revision, action |-> action,
     mapping |-> mapping, aliases |-> aliases, decidedAt |-> decidedAt]

Decisions ==
    [candidate : CandidateIds, print : {"current", "old"}, revision : Nat \ {0},
     action : {"accept", "reject", "edit"}, mapping : Mappings \cup {NoMapping},
     aliases : {"-", "alias"}, decidedAt : {"-", "date"}]

ManualEdges == [id : Nat, ends : STRING, mappings : SUBSET Mappings]

DecisionSets ==
    [revision : Nat, decisions : SUBSET Decisions, manualEdges : SUBSET ManualEdges]

(* createReviewDecisionId: equal ids are equal hashes of these fields.     *)
Id(d) == [d EXCEPT !.aliases = "-", !.decidedAt = "-"]

decisionSemantics(d) == [d EXCEPT !.decidedAt = "-"]
-----------------------------------------------------------------------------
Named(D) == {d.candidate : d \in D}

Highest(D, c) ==
    {d \in D : d.candidate = c
               /\ \A e \in D : e.candidate = c => e.revision <= d.revision}

(* Mutant: a decision about an older candidate is applied to the new one.  *)
ResolutionWithoutStale(D, c) ==
    IF Cardinality({decisionSemantics(d) : d \in Highest(D, c)}) > 1 THEN "invalid"
    ELSE IF c \notin DOMAIN Candidates THEN "orphaned"
    ELSE "active"

(* What becomes of the highest revision of a candidate.                    *)
Resolution(D, c) ==
    IF Cardinality({decisionSemantics(d) : d \in Highest(D, c)}) > 1 THEN "invalid"
    ELSE IF c \notin DOMAIN Candidates THEN "orphaned"
    ELSE IF \E d \in Highest(D, c) : d.print = "old" THEN "stale"
    ELSE "active"

(* Decisions that differ in their date alone are one.                      *)
Active(D) ==
    {decisionSemantics(d) :
        d \in {e \in D : e \in Highest(D, e.candidate)
                         /\ Resolution(D, e.candidate) = "active"}}

Outcome(d, state) == [decision |-> Id(d), state |-> state]

resolveReviewDecisions(D) ==
    {Outcome(d, IF d \in Highest(D, d.candidate)
                THEN Resolution(D, d.candidate) ELSE "superseded") :
        d \in {e \in D : e \in Highest(D, e.candidate)
                            => Resolution(D, e.candidate) # "active"}}
-----------------------------------------------------------------------------
(* The graph under construction: the mappings it has, the edges it gained, *)
(* and the outcomes of the decisions.                                      *)
AddManualEdge(e, g) ==
    LET new == {m \in e.mappings : <<e.ends, m>> \notin g.keys}
    IN  IF e.ends \notin Placed \/ new = {} THEN g
        ELSE [g EXCEPT !.keys = @ \cup {<<e.ends, m>> : m \in new},
                       !.edges = @ \cup {[ends |-> e.ends, mappings |-> new,
                                          provenance |-> "manual", by |-> {}]}]

Ends(d) == Candidates[d.candidate].ends

MappingOf(d) ==
    IF d.action = "edit" THEN d.mapping ELSE Candidates[d.candidate].mapping

acceptedEdge(d) ==
    [ends |-> Ends(d), mappings |-> {MappingOf(d)}, by |-> {d},
     provenance |-> IF d.action = "edit" THEN "manual" ELSE "inferred"]

(* What becomes of an active decision.                                     *)
Verdict(g, d) ==
    IF d.action = "reject" THEN "rejected"
    ELSE IF Ends(d) \notin Placed THEN "invalid"
    ELSE IF <<Ends(d), MappingOf(d)>> \in g.keys THEN "already-present"
    ELSE "applied"

AddDecision(d, g) ==
    LET applied == Verdict(g, d) = "applied"
    IN  [keys |-> g.keys \cup IF applied THEN {<<Ends(d), MappingOf(d)>>} ELSE {},
         edges |-> g.edges \cup IF applied THEN {acceptedEdge(d)} ELSE {},
         outcomes |-> g.outcomes \cup {Outcome(d, Verdict(g, d))}]

(* What is added last: the edges and the decisions are sorted first.       *)
LastEdge(edges) == CHOOSE e \in edges : \A f \in edges : f.id <= e.id

LastDecision(D) == CHOOSE d \in D : \A e \in D : e.candidate <= d.candidate

WithManualEdges(set) ==
    MapThenFoldSet(AddManualEdge,
        [keys |-> Declared, edges |-> {}, outcomes |-> resolveReviewDecisions(set.decisions)],
        LAMBDA e : e, LastEdge, set.manualEdges)

materializeReviewedOperationGraph(set) ==
    MapThenFoldSet(AddDecision, WithManualEdges(set),
        LAMBDA d : d, LastDecision, Active(set.decisions))

(* resolveReviewCandidateState: the one state the workspace shows.         *)
CandidateState(D, outcomes, c) ==
    LET states == {o.state : o \in {p \in outcomes : p.decision.candidate = c}}
        acted == {d \in D : d.candidate = c /\
                    \E s \in {"applied", "already-present", "rejected"} :
                        Outcome(d, s) \in outcomes}
        Acted(action) == \E d \in acted : d.action = action
    IN  CASE Cardinality({decisionSemantics(d) : d \in Highest(D, c)}) > 1 -> "conflict"
          [] "invalid" \in states -> "invalid"
          [] "stale" \in states -> "stale"
          [] "orphaned" \in states -> "orphaned"
          [] Acted("edit") -> "edited"
          [] Acted("reject") -> "rejected"
          [] Acted("accept") -> "accepted"
          [] OTHER -> "pending"
====
