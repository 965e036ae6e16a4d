---- MODULE InferenceRules ----
(***************************************************************************)
(* What speaks for and against a suggestion that a value of one operation  *)
(* is what another takes: rules.ts, scoring.ts, topology.ts, canonical.ts  *)
(* and declared-suppression.ts of packages/inference.  A pair is a source  *)
(* field and a target field of SchemaFields; confidence is in hundredths.  *)
(***************************************************************************)
EXTENDS SchemaFields

Words(pair, side) == Tokens[pair[side].field.name]
Resource(pair, side) == ResourceKey(pair[side].field.op[2])
Operation(pair, side) == pair[side].field.op

SameResource(pair) == Resource(pair, 1) = Resource(pair, 2)

Compatible(types, others) ==
    \/ types = {} \/ others = {} \/ types \cap others # {}
    \/ "integer" \in types /\ "number" \in others
    \/ "number" \in types /\ "integer" \in others

TypesFit(pair) == Compatible(pair[1].field.types, pair[2].field.types)

(* The id of a thing for the item of the same thing.                       *)
ResourceIdRelation(pair) ==
    /\ GenericId(Words(pair, 2)) /\ SameResource(pair)
    /\ \/ GenericId(Words(pair, 1))
       \/ Words(pair, 1) = <<Resource(pair, 2), "id">>

BearerToken(pair) == "token" \in ToSet(Words(pair, 1)) /\ pair[2].secure

Plausible(pair) ==
    Words(pair, 1) = Words(pair, 2) \/ ResourceIdRelation(pair) \/ BearerToken(pair)

(* What control flow and dependencies already lead from an operation to.   *)
Flow(edges) == {<<e.from, e.to>> : e \in {d \in edges : d.kind \in {"control", "dependency"}}}

ReachedFrom(operation, edges) ==
    LET step(S) == S \cup {e[2] : e \in {f \in Flow(edges) : f[1] \in S}}
        after[n \in 0 .. Cardinality(Flow(edges))] ==
            IF n = 0 THEN {operation} ELSE step(after[n - 1])
    IN after[Cardinality(Flow(edges))]

ClosesCycle(edges, from, to) == from \in ReachedFrom(to, edges)

Blocked(pair, edges) ==
    \/ Operation(pair, 1) = Operation(pair, 2)
    \/ pair[1].field.writeOnly
    \/ pair[2].field.readOnly
    \/ pair[1].field.arrays > 0
    \/ ~TypesFit(pair)
    \/ IsSecret(Words(pair, 1)) /\ ~pair[2].secure
    \/ GenericId(Words(pair, 1)) /\ GenericId(Words(pair, 2)) /\ ~SameResource(pair)
    \/ ClosesCycle(edges, Operation(pair, 1), Operation(pair, 2))

CreateThenRead(pair) ==
    /\ Operation(pair, 1)[1] = "post" /\ Operation(pair, 2)[1] = "get"
    /\ HasItem(Operation(pair, 2)[2])
    /\ Resource(pair, 1) # "" /\ SameResource(pair)

NamesShareWords(document, pair) ==
    LET words(side) == LET id == (CHOOSE o \in document.operations :
                                      o.id = Operation(pair, side)).operationId
                       IN IF id = Absent THEN {} ELSE ToSet(Tokens[id])
        ignored == {"by", "create", "delete", "fetch", "find", "get", "list", "read", "update"}
    IN (words(1) \cap words(2)) \ ignored # {}

TagsOf(document, operation) == (CHOOSE o \in document.operations : o.id = operation).tags

(* The rules that hold of a pair, with their weights.                      *)
Evidence(document, pair) ==
    LET if(holds, rule, weight) == IF holds THEN {<<rule, weight>>} ELSE {}
    IN if(Lower[pair[1].field.name] = Lower[pair[2].field.name], "NAME-EXACT", 25)
       \cup if(Words(pair, 1) # <<>> /\ Words(pair, 1) = Words(pair, 2), "NAME-NORMALIZED", 18)
       \cup if(ResourceIdRelation(pair), "RESOURCE-ID", 25)
       \cup if(TypesFit(pair), "SCHEMA-TYPE", 12)
       \cup if(pair[1].field.format # Absent
                  /\ pair[1].field.format = pair[2].field.format, "SCHEMA-FORMAT", 10)
       \cup if(Resource(pair, 1) # "" /\ SameResource(pair), "RESOURCE-PATH", 15)
       \cup if(CreateThenRead(pair), "LIFECYCLE-CREATE-READ", 20)
       \cup if(BearerToken(pair), "AUTH-BEARER", 65)
       \cup if(TagsOf(document, Operation(pair, 1)) \cap TagsOf(document, Operation(pair, 2)) # {},
               "TAG-SAME", 4)
       \cup if(NamesShareWords(document, pair), "OPERATION-NAME", 6)
       \cup if(GenericId(Words(pair, 1)) /\ GenericId(Words(pair, 2)), "GENERIC-ID", 3)
       \cup if(pair[1].field.variant \/ pair[2].field.variant, "VARIANT-SCHEMA", -10)
       \cup if(/\ "" \notin {Resource(pair, 1), Resource(pair, 2)}
               /\ ~SameResource(pair) /\ ~pair[2].secure, "CROSS-RESOURCE", -20)

StrongRules == {"AUTH-BEARER", "LIFECYCLE-CREATE-READ", "RESOURCE-ID", "RESOURCE-PATH"}

Score(evidence) == MapThenSumSet(LAMBDA e : e[2], evidence)

Confidence(evidence) ==
    LET score == Score(evidence)
        weak == IF score < 0 THEN 0 ELSE IF score < 59 THEN score ELSE 59
        full == CASE score >= 80 -> 95
                  [] score \in 65 .. 79 -> 88
                  [] score \in 50 .. 64 -> 78
                  [] score \in 35 .. 49 -> 68
                  [] OTHER -> weak
    IN IF \E e \in evidence : e[1] \in StrongRules \/ full <= 59 THEN full ELSE 59

Band(confidence) ==
    CASE confidence >= 90 -> "high"
      [] confidence \in 75 .. 89 -> "medium"
      [] confidence \in 60 .. 74 -> "low"
      [] OTHER -> "none"

(* What a suggestion is known by afterwards.                               *)
Shape(field) ==
    <<field.types, field.format, field.arrays, field.variant, field.readOnly, field.writeOnly>>

Fingerprint(pair) ==
    <<Operation(pair, 1), Operation(pair, 2), pair[1].place, pair[2].target,
      Shape(pair[1].field), Shape(pair[2].field)>>

Suggested(pair) == DataMapping(<<"response-body", pair[1].place>>, pair[2].target)

(* Mutant: a mapping is looked for among those of the way back.            *)
DeclaredBackwards(edges, pair) ==
    \E e \in edges : /\ e.kind = "data" /\ Suggested(pair) \in e.mappings
                     /\ e.to = Operation(pair, 1) /\ e.from = Operation(pair, 2)

Declared(edges, pair) ==
    \E e \in edges : /\ e.kind = "data" /\ Suggested(pair) \in e.mappings
                     /\ e.from = Operation(pair, 1) /\ e.to = Operation(pair, 2)
====
