---- MODULE LinkProjection ----
(***************************************************************************)
(* The data mappings that the links of a document declare:                 *)
(* openapi-link-projector.ts and target-parameter.ts of packages/flow.     *)
(***************************************************************************)
EXTENDS OpenApiDocument

DataMapping(selector, target) == [source |-> selector, target |-> target]

TargetOf(parameter) == <<parameter.location, parameter.name>>

(* The parameters of an operation that the name in a link can mean; the    *)
(* name may say where the parameter is.                                    *)
Meant(operation, at) ==
    {p \in operation.parameters :
        /\ at.location # Absent => p.location = at.location
        /\ IF p.location = "header" THEN Lower[p.name] = Lower[at.name] ELSE p.name = at.name}

(* One parameter of a link: a mapping, or what is wrong with it.           *)
ParameterMapping(operation, at, words) ==
    LET selector == Selector(Expression(words))
        meant == Meant(operation, at)
    IN IF selector # NoSelector /\ Cardinality(meant) = 1
       THEN {DataMapping(selector, TargetOf(CHOOSE p \in meant : TRUE))} ELSE {}

BodyMapping(place, pieces) ==
    LET value == Projection(Template(pieces))
    IN IF value.selector # NoSelector
       THEN {DataMapping(value.selector, <<"request-body", place>>)} ELSE {}

LinkMappings(operation, link) ==
    (UNION {ParameterMapping(operation, link.parameters[i][1], link.parameters[i][2]) :
               i \in DOMAIN link.parameters})
    \cup (UNION {BodyMapping(link.body[i][1], link.body[i][2]) : i \in DOMAIN link.body})

LinkProblems(operation, link) ==
    {<<"parameter", link.name, i>> : i \in {k \in DOMAIN link.parameters :
        ParameterMapping(operation, link.parameters[k][1], link.parameters[k][2]) = {}}}
    \cup {<<"body", link.name, i>> : i \in {k \in DOMAIN link.body :
        ~Projection(Template(link.body[k][2])).ok}}

(* The links of a document with the operations they lead from and to.      *)
Joined(document) ==
    UNION {{[from |-> o.id, to |-> CHOOSE t \in document.operations : t.id = l.to, link |-> l] :
               l \in {k \in LinksOf(o) : k.to # Absent}} :
              o \in document.operations}

(* The mappings between two operations, whatever link they come from.      *)
Bucket(document, from, to) ==
    UNION {LinkMappings(j.to, j.link) :
              j \in {k \in Joined(document) : k.from = from /\ k.to.id = to}}

(* The edges with what is on them; a link that maps nothing makes no edge. *)
LinkEdges(document) ==
    {[kind |-> "data", from |-> ends[1], to |-> ends[2],
      mappings |-> Bucket(document, ends[1], ends[2])] :
        ends \in {e \in {<<j.from, j.to.id>> : j \in Joined(document)} :
                     Bucket(document, e[1], e[2]) # {}}}

ProjectionProblems(document) ==
    UNION {LinkProblems(j.to, j.link) : j \in Joined(document)}
====
