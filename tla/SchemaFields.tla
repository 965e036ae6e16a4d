---- MODULE SchemaFields ----
(***************************************************************************)
(* The values a response gives and a request takes: schema-fields.ts and   *)
(* name-normalization.ts of packages/inference.                            *)
(***************************************************************************)
EXTENDS LinkProjection

CONSTANTS
    Tokens,         \* the words of a name, in lower case
    Secrets,        \* words that are secrets
    SecretLike,     \* words that begin with one of them
    Segments,       \* the words between the slashes of a path
    Item,           \* a segment that is a parameter
    Singular,       \* a word of a path without the ending of a plural
    Bearers         \* security schemes whose name says that they bear a token

(* The two words api key are one secret.                                   *)
IsSecret(words) ==
    \/ words # <<>> /\ words[1] \in Secrets
    \/ \E i \in 2 .. Len(words) : words[i] \in SecretLike
    \/ \E i \in 2 .. Len(words) : words[i - 1] = "api" /\ words[i] = "key"

GenericId(words) == words = <<"id">>

(* What an operation is about: the last word of its path.                  *)
ResourceKey(path) ==
    LET words == SelectSeq(Segments[path], LAMBDA s : s # Item)
    IN IF words = <<>> THEN "" ELSE Singular[Last(words)]

HasItem(path) == Item \in ToSet(Segments[path])

(* The walk through a schema.  A step goes to a part of the schema, to the *)
(* schema it refers to or to one of its variants, and never to one that is *)
(* on the way already.                                                     *)
Step(walk, schema) ==
    [walk EXCEPT !.schema = schema, !.way = Append(@, schema)]

Parts(schemas, walk) ==
    LET s == schemas[walk.schema]
    IN {Step(walk, r) : r \in {s.ref} \ {Absent, walk.schema}}
       \cup {[Step(walk, s.properties[n]) EXCEPT !.names = Append(@, n)] :
                n \in DOMAIN s.properties}
       \cup (IF DOMAIN s.properties = {} /\ s.items # Absent
             THEN {[Step(walk, s.items) EXCEPT !.arrays = @ + 1]} ELSE {})
       \cup {Step(walk, a) : a \in ToSet(s.allOf)}
       \cup {[Step(walk, v) EXCEPT !.variant = TRUE] : v \in ToSet(s.variants)}

Onward(schemas, walk) ==
    {next \in Parts(schemas, walk) : next.schema \notin ToSet(walk.way)}

(* The walks of every length that the depth allows.                        *)
Walks(schemas, root, depth) ==
    LET far[n \in 0 .. depth] ==
            IF n = 0 THEN {[schema |-> root, way |-> <<root>>, names |-> <<>>, arrays |-> 0,
                            variant |-> FALSE]}
            ELSE UNION {Onward(schemas, walk) : walk \in far[n - 1]}
    IN UNION {far[n] : n \in 0 .. depth}

(* Where a walk ends in a value; a schema that refers to another or is put *)
(* together of others is one too.                                          *)
IsLeaf(schemas, walk) ==
    /\ DOMAIN schemas[walk.schema].properties = {}
    /\ schemas[walk.schema].items = Absent
    /\ walk.names # <<>>

Leaf(walk) ==
    [name |-> Last(walk.names), place |-> walk.names, schema |-> walk.schema,
     arrays |-> walk.arrays, variant |-> walk.variant]

Leaves(schemas, root, depth) ==
    {Leaf(walk) : walk \in {w \in Walks(schemas, root, depth) : IsLeaf(schemas, w)}}

(* Mutant: only what is deeper than that is too deep.                      *)
CutOffLate(schemas, root, depth) ==
    \E walk \in Walks(schemas, root, depth) :
        Len(walk.way) = depth + 2 /\ Parts(schemas, walk) # {}

(* Whether a part was too deep to be looked at.                            *)
CutOff(schemas, root, depth) ==
    \E walk \in Walks(schemas, root, depth) :
        Len(walk.way) = depth + 1 /\ Parts(schemas, walk) # {}

Described(document, operation, leaf) ==
    LET s == document.schemas[leaf.schema]
    IN [op |-> operation.id, name |-> leaf.name, at |-> leaf.schema,
        types |-> s.types, format |-> s.format, readOnly |-> s.readOnly,
        writeOnly |-> s.writeOnly, arrays |-> leaf.arrays, variant |-> leaf.variant]

(* Successful answers, or those that are for every other case.             *)
SuccessResponses(operation) ==
    LET ok == {i \in DOMAIN operation.responses :
                  operation.responses[i].status \in {"200", "201", "204"}}
    IN IF ok # {} THEN ok
       ELSE {i \in DOMAIN operation.responses : operation.responses[i].status = "default"}

(* A value is listed for each answer and media type it is in.              *)
SourceFields(document, operation, depth) ==
    UNION {UNION {{[field |-> Described(document, operation, leaf), place |-> leaf.place,
                    answer |-> <<i, j>>] :
                      leaf \in Leaves(document.schemas, operation.responses[i].media[j], depth)} :
                  j \in DOMAIN operation.responses[i].media} :
           i \in SuccessResponses(operation)}

Authorization == "Authorization"
IsAuthorization(p) == p.location = "header" /\ Lower[p.name] = Lower[Authorization]

Takes(document, operation, leaf, target, secure) ==
    [field |-> Described(document, operation, leaf), target |-> target, secure |-> secure]

ParameterFields(document, operation) ==
    {Takes(document, operation,
           [name |-> p.name, schema |-> p.schema, arrays |-> 0, variant |-> FALSE],
           TargetOf(p), IsAuthorization(p)) : p \in operation.parameters}

BodyFields(document, operation, depth) ==
    UNION {{Takes(document, operation, leaf, <<"request-body", leaf.place>>, FALSE) :
               leaf \in Leaves(document.schemas, operation.body[j], depth)} :
           j \in DOMAIN operation.body}

BearerFields(document, operation) ==
    IF operation.security \cap Bearers = {} THEN {}
    ELSE {Takes(document, operation,
                [name |-> Authorization, schema |-> "string", arrays |-> 0, variant |-> FALSE],
                <<"header", Authorization>>, TRUE)}

(* Each place that takes a value once: parameters come before the header   *)
(* that the security asks for; of two values of the body one is chosen     *)
(* (the first in the order of their places in the source).                 *)
TargetFields(document, operation, depth) ==
    LET first == ParameterFields(document, operation) \cup BodyFields(document, operation, depth)
        all == first \cup {b \in BearerFields(document, operation) :
                              \A t \in first : t.target # b.target}
    IN {CHOOSE t \in all : t.target = target : target \in {t.target : t \in all}}
====
