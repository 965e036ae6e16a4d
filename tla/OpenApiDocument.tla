---- MODULE OpenApiDocument ----
(***************************************************************************)
(* The normalization of an OpenAPI document (packages/openapi/src):        *)
(* version.ts, normalize-document.ts, normalize-operation.ts and           *)
(* normalize-schema.ts, and the links between its operations.              *)
(*                                                                         *)
(* The document given is a record of what these files read of it.  A       *)
(* schema is named by its place; Bad stands for a value of another type    *)
(* than the one expected, which is where a reference is left as it is.     *)
(***************************************************************************)
EXTENDS RuntimeExpressions, FiniteSets, FiniteSetsExt, Integers, Functions

CONSTANTS
    Bad,        \* a value of the wrong type
    Absent,     \* no value
    Lower,      \* names in lower case
    SecretKeys  \* property names whose values are redacted

Methods == {"get", "put", "post", "delete", "options", "head", "patch", "trace"}
Locations == {"path", "query", "querystring", "header", "cookie"}

VersionOf(raw) ==
    CASE raw.version \in {"3.0", "3.1"} -> [ok |-> TRUE, compatibility |-> FALSE]
      [] raw.version = "3.2" -> [ok |-> TRUE, compatibility |-> TRUE]
      [] OTHER -> [ok |-> FALSE, compatibility |-> FALSE]

(* A list of a document.                                                   *)
InOrder(entries) == entries \in Seq(ToSet(entries))

(* What is left of an object or a list without the values of another type; *)
(* what stays of a list keeps its place.                                   *)
WithoutBad(f) == Restrict(f, {n \in DOMAIN f : f[n] # Bad})

(* A schema as it is kept: what is not a schema is left out, a reference   *)
(* that was not resolved leads nowhere.                                    *)
NormalSchema(raw, resolved) ==
    [types |-> raw.types, format |-> raw.format,
     readOnly |-> raw.readOnly, writeOnly |-> raw.writeOnly,
     properties |-> WithoutBad(raw.properties),
     items |-> IF raw.items = Bad THEN Absent ELSE raw.items,
     ref |-> IF raw.ref \in resolved THEN raw.ref ELSE Absent,
     allOf |-> WithoutBad(raw.allOf), variants |-> WithoutBad(raw.variants)]

ParameterKey(p) == <<p.location, IF p.location = "header" THEN Lower[p.name] ELSE p.name>>

(* A reference has neither a name nor a location.                          *)
IsParameter(p) == p # Bad /\ p.location \in Locations

(* Mutant: the parameters of the path come last.                           *)
PathParametersWin(path, operation) ==
    LET all == operation \o path
        found == {i \in DOMAIN all : IsParameter(all[i])}
    IN {all[i] : i \in {k \in found :
            \A j \in found : ParameterKey(all[j]) = ParameterKey(all[k]) => j <= k}}

(* The parameters of the path and then those of the operation, of which    *)
(* the last of a name counts.                                              *)
MergedParameters(path, operation) ==
    LET all == path \o operation
        found == {i \in DOMAIN all : IsParameter(all[i])}
    IN {all[i] : i \in {k \in found :
            \A j \in found : ParameterKey(all[j]) = ParameterKey(all[k]) => j <= k}}

(* The body of a link: the values under a secret name are gone.            *)
RedactedBody(body) ==
    [i \in DOMAIN body |-> IF ToSet(body[i][1]) \cap SecretKeys # {}
                           THEN <<body[i][1], << <<"[REDACTED]">> >> >> ELSE body[i]]

NormalLink(link) ==
    [name |-> link.name, target |-> link.target, parameters |-> link.parameters,
     body |-> RedactedBody(link.body), to |-> Absent]

NormalResponse(response) ==
    LET aimed == SelectSeq(response.links, LAMBDA l : l.target # Absent)
    IN [status |-> response.status,
        media |-> WithoutBad(response.media),
        links |-> [i \in DOMAIN aimed |-> NormalLink(aimed[i])]]

Key(method, path) == <<method, path>>

(* What an operation says of its security and servers replaces what is     *)
(* said above it, even when it says nothing is needed.                     *)
Inherited(own, above) == IF own = Absent THEN above ELSE own

NormalOperation(raw, path, method) ==
    LET item == raw.paths[path]
        operation == item.operations[method]
        security == Inherited(operation.security, raw.security)
    IN [id |-> Key(method, path), method |-> method, path |-> path,
        operationId |-> operation.operationId, tags |-> operation.tags,
        parameters |-> MergedParameters(item.parameters, operation.parameters),
        body |-> WithoutBad(operation.body),
        responses |-> [i \in DOMAIN operation.responses |->
                          NormalResponse(operation.responses[i])],
        security |-> IF security = Absent THEN {} ELSE security]

(* The operations found in the paths, and those that are none.             *)
Places(raw) ==
    UNION {{<<m, p>> : m \in Methods \cap DOMAIN raw.paths[p].operations} : p \in DOMAIN raw.paths}
Misplaced(raw) == {place \in Places(raw) : raw.paths[place[2]].operations[place[1]] = Bad}

Operations(raw) == {NormalOperation(raw, place[2], place[1]) : place \in Places(raw)}

Sharing(operations, id) == {o \in operations : o.operationId = id}

(* What is wrong with the operations together.                             *)
Conformance(operations) ==
    {<<"duplicate", id>> : id \in {o.operationId : o \in {p \in operations :
        p.operationId # Absent /\ Cardinality(Sharing(operations, p.operationId)) > 1}}}

Conflicts(operations) ==
    UNION {{<<"location-conflict", o.id, p.name>> :
               p \in {q \in o.parameters : q.location = "querystring" /\
                         \E r \in o.parameters : r.location = "query" /\ r.name = q.name}} :
              o \in operations}

(* The operation a link leads to, if there is one such operation.          *)
LinkTargets(operations, link) ==
    CASE link.target[1] = "operationRef" -> {o \in operations : o.id = link.target[2]}
      [] OTHER -> Sharing(operations, link.target[2])

ResolvedLink(operations, link) ==
    LET found == LinkTargets(operations, link)
    IN [link EXCEPT !.to = IF Cardinality(found) = 1
                           THEN (CHOOSE o \in found : TRUE).id ELSE Absent]

ResolvedResponse(operations, response) ==
    [response EXCEPT !.links = [i \in DOMAIN @ |-> ResolvedLink(operations, @[i])]]

ResolvedOperation(operations, operation) ==
    [operation EXCEPT
        !.responses = [i \in DOMAIN @ |-> ResolvedResponse(operations, @[i])]]

ResolvedLinks(operations) == {ResolvedOperation(operations, o) : o \in operations}

LinksOf(operation) == UNION {ToSet(operation.responses[i].links) :
                                i \in DOMAIN operation.responses}

Unresolved(operations) ==
    UNION {{<<"link", o.id, l.name>> : l \in {k \in LinksOf(o) : k.to = Absent}} :
              o \in operations}

(* The document, if it has one, and the errors.                            *)
NoDocument(errors) == [operations |-> {}, schemas |-> <<>>, errors |-> errors, ok |-> FALSE]

Normalized(raw) ==
    CASE ~VersionOf(raw).ok -> NoDocument({<<"version">>})
      [] VersionOf(raw).ok /\ raw.paths = Bad -> NoDocument({<<"paths">>})
      [] VersionOf(raw).ok /\ raw.paths # Bad /\ Misplaced(raw) # {} ->
            NoDocument({<<"operation", place>> : place \in Misplaced(raw)})
      [] OTHER ->
            LET operations == ResolvedLinks(Operations(raw))
            IN [operations |-> operations,
                schemas |-> [s \in DOMAIN raw.schemas |->
                                NormalSchema(raw.schemas[s], raw.components)],
                errors |-> Conformance(operations) \cup Unresolved(operations),
                ok |-> TRUE]
====
