---- MODULE Inference ----
(***************************************************************************)
(* From an OpenAPI document to suggestions: the document is normalized,    *)
(* its links become declared mappings, and every plausible pair of a value *)
(* and a place that takes it is considered (infer-flow-candidates.ts and   *)
(* config.ts of packages/inference, with the modules before this one).     *)
(*                                                                         *)
(* A step is a stage of the command, or one pair; the time that is allowed *)
(* may be over before any pair.                                            *)
(***************************************************************************)
EXTENDS InferenceRules

CONSTANTS
    Inputs      \* the documents that may be given, with the edges there may be
                \* besides those of links and the configuration asked for

(* Schemas are few, and what is named where a schema is expected is one of *)
(* them or of another type; parameters are in an order.                    *)
ASSUME InputsAssumption ==
    \A given \in Inputs :
        LET api == given.raw
            named == DOMAIN api.schemas
        IN /\ IsFiniteSet(given.extra) /\ IsFiniteSet(named)
           /\ api.components \subseteq named
           /\ \A s \in named :
                 LET schema == api.schemas[s]
                 IN /\ schema.items \in named \cup {Bad, Absent}
                    /\ \A parts \in {schema.properties, schema.allOf, schema.variants} :
                          ToSet(parts) \subseteq named \cup {Bad}
           /\ api.paths # Bad =>
                 \A p \in DOMAIN api.paths :
                    LET item == api.paths[p]
                    IN /\ InOrder(item.parameters)
                       /\ \A m \in Methods \cap DOMAIN item.operations :
                             LET operation == item.operations[m]
                             IN /\ Key(m, p) # Absent
                                /\ operation # Bad =>
                                      /\ InOrder(operation.parameters)
                                      /\ ToSet(operation.body) \subseteq named \cup {Bad}
                                      /\ \A i \in DOMAIN operation.responses :
                                            ToSet(operation.responses[i].media)
                                               \subseteq named \cup {Bad}

VARIABLES
    raw,        \* the document given
    config,     \* the configuration asked for
    extra,      \* edges that come from somewhere else
    at,         \* the stage
    document,   \* the normalized document
    edges,      \* the declared graph
    left,       \* the plausible pairs that were not considered yet
    counts,     \* how many pairs were considered, suppressed and blocked
    candidates, \* the suggestions
    truncated,  \* whether some limit was met
    warnings    \* what the report warns of

input == <<raw, config, extra>>
model == <<document, edges>>
report == <<candidates, truncated, warnings>>
vars == <<input, at, model, left, counts, report>>

Init ==
    /\ \E i \in Inputs : raw = i.raw /\ config = i.config /\ extra = i.extra
    /\ at = "normalize"
    /\ document = NoDocument({}) /\ edges = {} /\ left = {}
    /\ counts = [considered |-> 0, suppressed |-> 0, blocked |-> 0]
    /\ candidates = {} /\ truncated = FALSE /\ warnings = {}

(* A command gives up when there are errors.                               *)
Normalize ==
    /\ at = "normalize"
    /\ document' = Normalized(raw)
    /\ at' = IF document'.ok /\ document'.errors = {} THEN "declare" ELSE "failed"
    /\ UNCHANGED <<input, edges, left, counts, report>>

Declare ==
    /\ at = "declare"
    /\ edges' = LinkEdges(document) \cup extra
    /\ at' = IF ProjectionProblems(document) = {} THEN "index" ELSE "failed"
    /\ UNCHANGED <<input, document, left, counts, report>>

ValidConfig(c) ==
    /\ c.minimum \in 0 .. 100
    /\ \A limit \in {c.topK, c.maxCandidates, c.maxPairs, c.depth} : limit \in Nat \ {0}

PlausiblePairs(d, depth) ==
    {pair \in (UNION {SourceFields(d, o, depth) : o \in d.operations})
              \X (UNION {TargetFields(d, o, depth) : o \in d.operations}) : Plausible(pair)}

SchemaWarnings(d, depth) ==
    IF \E o \in d.operations :
          \/ \E i \in SuccessResponses(o) : \E s \in ToSet(o.responses[i].media) :
                CutOff(d.schemas, s, depth)
          \/ \E s \in ToSet(o.body) : CutOff(d.schemas, s, depth)
    THEN {"schema"} ELSE {}

Index ==
    /\ at = "index"
    /\ IF ValidConfig(config)
       THEN /\ at' = "pairs" /\ left' = PlausiblePairs(document, config.depth)
            /\ warnings' = SchemaWarnings(document, config.depth)
       ELSE at' = "failed" /\ UNCHANGED <<left, warnings>>
    /\ UNCHANGED <<input, document, edges, counts, candidates, truncated>>

More == left # {}

(* The pairs come in an order that does not depend on the document's.      *)
Upcoming == CHOOSE pair \in left : TRUE

Stop(warning) ==
    /\ truncated' = TRUE /\ warnings' = warnings \cup {warning} /\ at' = "rank"
    /\ UNCHANGED <<input, model, left, counts, candidates>>

LimitPairs == at = "pairs" /\ More /\ counts.considered >= config.maxPairs /\ Stop("pairs")

TimeIsUp == at = "pairs" /\ More /\ counts.considered < config.maxPairs /\ Stop("time")

Candidate(d, pair) ==
    LET evidence == Evidence(d, pair)
    IN [found |-> counts.considered, id |-> Fingerprint(pair), pair |-> pair, score |-> Score(evidence),
        confidence |-> Confidence(evidence)]

(* Whether a suggestion is worth being made.                               *)
Kept(c, candidate) ==
    /\ Band(candidate.confidence) # "none" /\ candidate.confidence >= c.minimum
    /\ Band(candidate.confidence) = "low" => c.includeLow

Consider ==
    /\ at = "pairs" /\ More /\ counts.considered < config.maxPairs
    /\ LET pair == Upcoming
           candidate == Candidate(document, pair)
       IN CASE Declared(edges, pair) ->
                 /\ counts' = [counts EXCEPT !.considered = @ + 1, !.suppressed = @ + 1]
                 /\ UNCHANGED candidates
            [] ~Declared(edges, pair) /\ Blocked(pair, edges) ->
                 /\ counts' = [counts EXCEPT !.considered = @ + 1, !.blocked = @ + 1]
                 /\ UNCHANGED candidates
            [] OTHER ->
                 /\ counts' = [counts EXCEPT !.considered = @ + 1]
                 /\ candidates' = candidates \cup {c \in {candidate} : Kept(config, c)}
    /\ left' = left \ {Upcoming}
    /\ UNCHANGED <<input, at, model, truncated, warnings>>

PairsDone ==
    /\ at = "pairs" /\ ~More /\ at' = "rank"
    /\ UNCHANGED <<input, model, left, counts, report>>

(* The better comes first; which of two as good ones is decided by their   *)
(* ids, here by the order in which they were found.                        *)
Before(c, d) ==
    \/ c.confidence > d.confidence
    \/ /\ c.confidence = d.confidence
       /\ c.score > d.score \/ (c.score = d.score /\ c.found < d.found)

Best(found, n) == {c \in found : Cardinality({d \in found : Before(d, c)}) < n}

Place(candidate) == <<Operation(candidate.pair, 2), candidate.pair[2].target>>

(* As many for each place as are asked for.                                *)
TopK(found, k) == {c \in found : c \in Best({d \in found : Place(d) = Place(c)}, k)}

Rank ==
    /\ at = "rank"
    /\ LET best == TopK(candidates, config.topK)
           cut == Cardinality(best) > config.maxCandidates
       IN /\ candidates' = Best(best, config.maxCandidates)
          /\ truncated' = (truncated \/ cut)
          /\ warnings' = IF cut THEN warnings \cup {"candidates"} ELSE warnings
    /\ at' = "done"
    /\ UNCHANGED <<input, model, left, counts>>

Next ==
    \/ Normalize \/ Declare \/ Index
    \/ LimitPairs \/ TimeIsUp \/ Consider \/ PairsDone \/ Rank

Spec == Init /\ [][Next]_vars
-----------------------------------------------------------------------------
TypeOK ==
    /\ at \in {"normalize", "declare", "index", "pairs", "rank", "done", "failed"}
    /\ \A pair \in left : Plausible(pair)
    /\ counts \in [{"considered", "suppressed", "blocked"} -> Nat]
    /\ \A c \in candidates :
          /\ Plausible(c.pair) /\ c.pair \notin left
          /\ c.score \in Int /\ c.confidence \in 60 .. 100 /\ c.found \in 0 .. counts.considered
    /\ Cardinality(candidates) + counts.suppressed + counts.blocked <= counts.considered
    /\ truncated \in BOOLEAN /\ warnings \subseteq {"schema", "pairs", "time", "candidates"}

Done == at = "done"

(* What the operation itself says of a parameter counts, whatever the path *)
(* says, also of a header whose name is spelled in another way.            *)
OperationsSpeakLast ==
    \A o \in document.operations :
        LET own == raw.paths[o.path].operations[o.method].parameters
        IN \A i \in DOMAIN own :
              IsParameter(own[i]) =>
                  \E p \in o.parameters :
                      /\ p \in ToSet(own) /\ ParameterKey(p) = ParameterKey(own[i])
                      /\ \A q \in o.parameters : ParameterKey(q) = ParameterKey(p) => q = p

(* Everything that a link of the document gives to a parameter or a body   *)
(* is in the declared graph, unless its name is that of a secret.          *)
LinksAreKept ==
    at \in {"index", "pairs", "rank", "done"} =>
        \A o \in document.operations, t \in document.operations :
            \A l \in {k \in LinksOf(o) : k.to = t.id} :
                LET declared == UNION {e.mappings : e \in {f \in edges : f.kind = "data"
                                                         /\ f.from = o.id /\ f.to = t.id}}
                IN /\ \A i \in DOMAIN l.parameters :
                         \E p \in t.parameters :
                             DataMapping(Selector(Expression(l.parameters[i][2])), TargetOf(p))
                                \in declared
                   /\ \A i \in DOMAIN l.body :
                         \/ ToSet(l.body[i][1]) \cap SecretKeys # {}
                         \/ Projection(Template(l.body[i][2])).selector = NoSelector
                         \/ DataMapping(Projection(Template(l.body[i][2])).selector,
                                        <<"request-body", l.body[i][1]>>) \in declared

(* A report that does not warn of the depth of a schema looked at every    *)
(* value, also of schemas that contain themselves: looking deeper than     *)
(* there are schemas finds no more.                                        *)
NothingHidden ==
    at \in {"pairs", "rank", "done"} /\ "schema" \notin warnings =>
        \A o \in document.operations :
            LET deep == Cardinality(DOMAIN document.schemas) + 1
            IN /\ SourceFields(document, o, deep) = SourceFields(document, o, config.depth)
               /\ TargetFields(document, o, deep) = TargetFields(document, o, config.depth)

(* What is suggested is not declared already by a link between the two.    *)
SuggestionsAreNew ==
    \A c \in candidates, j \in Joined(document) :
        ~ /\ j.from = Operation(c.pair, 1) /\ j.to.id = Operation(c.pair, 2)
          /\ Suggested(c.pair) \in LinkMappings(j.to, j.link)

(* Whichever suggestion is accepted as a step that follows another, there  *)
(* is still an order of the operations if there was one.                   *)
Cyclic(steps) ==
    \E S \in (SUBSET ({s[1] : s \in steps})) \ {{}} :
        \A x \in S : \E y \in S : <<x, y>> \in steps
AcceptingKeepsOrder ==
    \A c \in candidates :
        Cyclic(Flow(edges) \cup {<<Operation(c.pair, 1), Operation(c.pair, 2)>>}) =>
            Cyclic(Flow(edges))

(* A review decides on a fingerprint: suggestions with the same one rest   *)
(* on the same evidence and are as good.                                   *)
IdFixesEvidence ==
    \A c \in candidates, d \in candidates :
        c.id = d.id => /\ Evidence(document, c.pair) = Evidence(document, d.pair)
                       /\ c.confidence = d.confidence

(* A complete report holds every suggestion that deserves to be made,      *)
(* except where as many as were asked for are at least as good.            *)
Deserves(pair) ==
    /\ Plausible(pair) /\ ~Blocked(pair, edges) /\ ~Declared(edges, pair)
    /\ Kept(config, Candidate(document, pair))
NothingForgotten ==
    Done /\ ~truncated =>
        \A o \in document.operations, t \in document.operations :
            \A s \in SourceFields(document, o, config.depth),
               g \in TargetFields(document, t, config.depth) :
                LET pair == <<s, g>>
                    others == {c \in candidates : Place(c) = <<t.id, g.target>>}
                IN /\ Cardinality(others) <= config.topK
                   /\ \/ ~Deserves(pair) \/ \E c \in others : c.pair = pair
                      \/ /\ Cardinality(others) = config.topK
                         /\ \A c \in others :
                               c.confidence >= Candidate(document, pair).confidence

(* Nothing that the document declares is lost on the way to the graph.     *)
NothingDeclaredIsLost == OperationsSpeakLast /\ LinksAreKept

(* A suggestion is one that can be accepted beside what is declared, and   *)
(* is known again by its id.                                               *)
SuggestionsAreSound ==
    TypeOK /\ SuggestionsAreNew /\ AcceptingKeepsOrder /\ IdFixesEvidence

(* What a limit leaves out is the least that it can be, and is said.       *)
CutsAreSaid == NothingHidden /\ NothingForgotten
====
