---- MODULE MappingEditor ----
(***************************************************************************)
(* The dialog in which the mapping of a candidate is edited: which fields  *)
(* it lists, which choices it lets through, what it gives out and how it   *)
(* opens again on that (mapping-editor-model.ts and mapping-editor.tsx of  *)
(* apps/web/src/review), and what the panel beside it says of a mapping    *)
(* (the walk of review-workspace-adapter.ts).                              *)
(*                                                                         *)
(* A pointer is the sequence of its tokens, a star where an index is asked *)
(* for.                                                                    *)
(***************************************************************************)
EXTENDS Integers, FiniteSets, Sequences

CONSTANTS
    Schemas,        \* the schemas of the document, by name
    Absent,         \* no items
    Apis,           \* what the operations of the candidate may look like
    Secrets,        \* names with token, password or secret in them
    Authorizations, \* the ways to write the name of that header
    Texts,          \* what may be typed where an index is asked for
    Numerals,       \* those that are written as one
    Indices,        \* and those that are no greater than a safe integer
    Templates,      \* what may be typed as a template, "" for none
    Proper,         \* those with one placeholder and literal text
    MaxTokens,      \* how long a pointer may become
    Instances       \* some values, for what is to be shown

VARIABLES
    api,      \* the operations
    catalog,  \* the fields of the dialog
    mapping,  \* the mapping of the candidate that is in force
    dialog    \* what is chosen in the dialog

dialogVars == <<api, catalog, mapping, dialog>>

(* A star and an index are names of no property, an index is no name of a  *)
(* secret.                                                                 *)
ASSUME TokensAssumption ==
    /\ Indices \subseteq Numerals /\ Numerals \subseteq Texts
    /\ "" \in Templates \ Proper /\ "" \notin Numerals
    /\ MaxTokens \in Nat
    /\ "*" \notin Numerals /\ Secrets \cap Numerals = {}
    /\ \A s \in DOMAIN Schemas :
          DOMAIN Schemas[s].properties \cap (Numerals \cup {"*"}) = {}

(* Schemas are few, and those that hold others lead to schemas.            *)
ASSUME SchemasAssumption ==
    /\ IsFiniteSet(DOMAIN Schemas)
    /\ \A s \in DOMAIN Schemas :
          /\ Schemas[s].items \in DOMAIN Schemas \cup {Absent}
          /\ IsFiniteSet(DOMAIN Schemas[s].properties)
          /\ \A n \in DOMAIN Schemas[s].properties : Schemas[s].properties[n] \in DOMAIN Schemas
    /\ \A a \in Apis :
          /\ DOMAIN a.inferred = {"source", "target", "template"}
          /\ \A r \in a.responses : r.media \subseteq DOMAIN Schemas
          /\ a.body \subseteq DOMAIN Schemas /\ a.bodyRequired \in BOOLEAN
          /\ IsFiniteSet(a.parameters)
          /\ \A q \in a.parameters : q.schema \in DOMAIN Schemas /\ q.required \in BOOLEAN

ScalarTypes == {"string", "number", "integer", "boolean"}

(* parts: the schema it refers to and those of allOf; variants: those of   *)
(* anyOf and oneOf.  What cannot be resolved is left out.                  *)
Expansions ==
    LET names == DOMAIN Schemas
        far[n \in 0 .. Cardinality(names)] ==
            IF n = 0 THEN [s \in names |-> {s}]
            ELSE [s \in names |->
                    UNION {far[n - 1][t] : t \in
                        {s} \cup (names \cap (Schemas[s].parts \cup Schemas[s].variants))}]
    IN far[Cardinality(names)]

expandSchema(s) == Expansions[s]

Nullable(s) == Schemas[s].nullable \/ "null" \in Schemas[s].types
-----------------------------------------------------------------------------
(* A walk through a schema, on the side of the answer or of the request.   *)
Begin(s, required) ==
    [schema |-> s, place |-> <<>>, slots |-> {}, required |-> required, above |-> {s},
     barred |-> FALSE, nullable |-> FALSE]

Ambiguous(w) == \E v \in expandSchema(w.schema) : Schemas[v].variants # {}

Barred(w, side) ==
    \/ w.barred
    \/ \E v \in expandSchema(w.schema) :
          IF side = "source" THEN Schemas[v].writeOnly ELSE Schemas[v].readOnly

(* Mutant: null is looked for in the schema alone.                         *)
MaybeNullHere(w) == \E v \in expandSchema(w.schema) : Nullable(v)

(* A value is null if what holds it is.                                    *)
MaybeNull(w) == w.nullable \/ \E v \in expandSchema(w.schema) : Nullable(v)

Down(w, side, s, token) ==
    [w EXCEPT !.schema = s, !.place = Append(@, token), !.above = @ \cup {s},
              !.barred = Barred(w, side), !.nullable = MaybeNull(w)]

Onward(w, side) ==
    LET items(v) == {[Down(w, side, s, "*") EXCEPT !.slots = @ \cup {Len(w.place) + 1}] :
                        s \in {Schemas[v].items} \ {Absent}}
        named(v) == {[Down(w, side, Schemas[v].properties[n], n)
                        EXCEPT !.required = @ /\ n \in Schemas[v].required] :
                        n \in DOMAIN Schemas[v].properties}
    IN {next \in UNION {items(v) \cup named(v) : v \in expandSchema(w.schema)} :
            ~Ambiguous(w) /\ next.schema \notin w.above /\ Len(next.place) <= MaxTokens}

FieldOf(w, v, kind, nullable, unavailable) ==
    [value |-> [kind |-> kind, place |-> w.place], slots |-> w.slots, required |-> w.required,
     types |-> Schemas[v].types, format |-> Schemas[v].format, enum |-> Schemas[v].enum,
     nullable |-> nullable, unavailable |-> unavailable]

Found(w, side, kind) ==
    IF Ambiguous(w)
    THEN {FieldOf(w, w.schema, kind, Schemas[w.schema].nullable, TRUE)}
    ELSE {FieldOf(w, v, kind, Schemas[v].nullable \/ (side = "source" /\ MaybeNull(w)),
                  Barred(w, side)) :
             v \in {x \in expandSchema(w.schema) : Schemas[x].types \cap ScalarTypes # {}}}

(* The thousand fields at which the code stops are not reached.            *)
Fields(s, side, kind, required) ==
    LET far[n \in 0 .. MaxTokens] ==
            IF n = 0 THEN {Begin(s, required)}
            ELSE UNION {Onward(w, side) : w \in far[n - 1]}
    IN UNION {UNION {Found(w, side, kind) : w \in far[n]} : n \in 0 .. MaxTokens}

successful(responses) ==
    LET ok == {r \in responses : r.status \in {"200", "201"}}
    IN IF ok # {} THEN ok ELSE {r \in responses : r.status = "default"}

Answers(a) == UNION {r.media : r \in successful(a.responses)}

(* What is found inside of a parameter has its name, and is not available. *)
ParameterFields(p) ==
    {[f EXCEPT !.value.place = <<p.name>>, !.slots = {},
               !.unavailable = @ \/ f.value.place # <<>>] :
        f \in Fields(p.schema, "target", p.location, p.required)}

(* Fields of one value that differ are ambiguous.                          *)
unique(found) ==
    {LET same == {f \in found : f.value = value}
         f == CHOOSE g \in same : TRUE
     IN [f EXCEPT !.unavailable = @ \/ Cardinality(same) > 1] :
        value \in {f.value : f \in found}}

createMappingCatalog(a) ==
    [sources |-> unique(UNION {Fields(s, "source", "response-body", TRUE) : s \in Answers(a)}),
     targets |-> unique((UNION {ParameterFields(p) : p \in
                            {q \in a.parameters : q.location \in {"path", "query", "header"}}})
                        \cup (UNION {Fields(s, "target", "request-body", a.bodyRequired) :
                                s \in a.body}))]
-----------------------------------------------------------------------------
NoChoice == [value |-> [kind |-> "none", place |-> <<>>], indices |-> <<>>]

(* Nothing was typed yet.                                                  *)
Choice(f) == [value |-> f.value, indices |-> [i \in f.slots |-> ""]]

(* A parameter has to be the same; a pointer has numbers for the stars.    *)
Fits(f, value) ==
    /\ f.value.kind = value.kind /\ Len(f.value.place) = Len(value.place)
    /\ \A i \in DOMAIN value.place :
          IF i \in f.slots THEN value.place[i] \in Numerals
          ELSE value.place[i] = f.value.place[i]

(* Mutant: the indices are asked for again.                                *)
SelectionWithoutIndices(fields, value) ==
    LET f == CHOOSE g \in fields : Fits(g, value)
    IN IF \E g \in fields : Fits(g, value) THEN Choice(f) ELSE NoChoice

initialFieldSelection(fields, value) ==
    LET f == CHOOSE g \in fields : Fits(g, value)
    IN IF \E g \in fields : Fits(g, value)
       THEN [value |-> f.value, indices |-> [i \in f.slots |-> value.place[i]]]
       ELSE NoChoice

Complete(choice) == \A i \in DOMAIN choice.indices : choice.indices[i] \in Indices

selectMappingValue(choice) ==
    [choice.value EXCEPT !.place =
        [i \in DOMAIN @ |-> IF i \in DOMAIN choice.indices THEN choice.indices[i] ELSE @[i]]]

NonNull(types) == types \ {"null"}

TakesNull(f) == f.nullable \/ "null" \in f.types

Compatible(s, t, template) ==
    /\ \E type \in ScalarTypes : NonNull(s.types) = {type}
    /\ \E type \in ScalarTypes : NonNull(t.types) = {type}
    /\ LET out == IF template = "" THEN NonNull(s.types) ELSE {"string"}
       IN out = NonNull(t.types) \/ (out = {"integer"} /\ NonNull(t.types) = {"number"})
    /\ TakesNull(s) => TakesNull(t)
    /\ t.required => s.required
    /\ t.format # "" => template = "" /\ t.format = s.format
    /\ t.enum # {} => template = "" /\ s.enum # {} /\ s.enum \subseteq t.enum

KeepsSecret(source, target) ==
    (\E i \in DOMAIN source.place : source.place[i] \in Secrets) =>
        target.kind = "header" /\ target.place[1] \in Authorizations

validateMappingEdit(fields, chosen) ==
    \E s \in fields.sources, t \in fields.targets :
        /\ s.value = chosen.source.value /\ t.value = chosen.target.value
        /\ ~s.unavailable /\ ~t.unavailable
        /\ Complete(chosen.source) /\ Complete(chosen.target)
        /\ chosen.template \in Proper \cup {""}
        /\ Compatible(s, t, chosen.template)
        /\ KeepsSecret(s.value, t.value)

MappingOf(chosen) ==
    [source |-> selectMappingValue(chosen.source),
     target |-> selectMappingValue(chosen.target), template |-> chosen.template]

(* What the dialog opens with, and what a draft is validated as.           *)
Reopened(fields, m) ==
    [source |-> initialFieldSelection(fields.sources, m.source),
     target |-> initialFieldSelection(fields.targets, m.target), template |-> m.template]

validateEditedMapping(a, m) ==
    LET fields == createMappingCatalog(a) IN validateMappingEdit(fields, Reopened(fields, m))
-----------------------------------------------------------------------------
Closed == [source |-> NoChoice, target |-> NoChoice, template |-> "closed"]
IsOpen == dialog # Closed

DialogInit ==
    /\ api \in Apis
    /\ catalog = createMappingCatalog(api)
    /\ mapping = api.inferred
    /\ dialog = Closed

OpenDialog ==
    /\ ~IsOpen
    /\ dialog' = Reopened(catalog, mapping)
    /\ UNCHANGED <<api, catalog, mapping>>

Change(chosen) == IsOpen /\ dialog' = chosen /\ UNCHANGED <<api, catalog, mapping>>

SelectSource == \E f \in catalog.sources : Change([dialog EXCEPT !.source = Choice(f)])
SelectTarget == \E f \in catalog.targets : Change([dialog EXCEPT !.target = Choice(f)])

TypeIndex ==
    \E text \in Texts :
        \/ \E i \in DOMAIN dialog.source.indices :
              Change([dialog EXCEPT !.source.indices[i] = text])
        \/ \E i \in DOMAIN dialog.target.indices :
              Change([dialog EXCEPT !.target.indices[i] = text])

TypeTemplate == \E text \in Templates : Change([dialog EXCEPT !.template = text])

Apply ==
    /\ IsOpen /\ validateMappingEdit(catalog, dialog)
    /\ mapping' = MappingOf(dialog)
    /\ dialog' = Closed
    /\ UNCHANGED <<api, catalog>>

Cancel == IsOpen /\ dialog' = Closed /\ UNCHANGED <<api, catalog, mapping>>

DialogNext ==
    \/ OpenDialog \/ SelectSource \/ SelectTarget \/ TypeIndex \/ TypeTemplate
    \/ Apply \/ Cancel

DialogSpec == DialogInit /\ [][DialogNext]_dialogVars
-----------------------------------------------------------------------------
(* The panel walks from a schema along a pointer on its own.  A list is    *)
(* entered whether or not the token is an index, which it then uses up.    *)
(* Beyond MaxTokens lists the code goes on.                                *)
Passed(p, v, place) ==
    LET s == Schemas[v]
        more == p.at < Len(place)
    IN (IF more /\ place[p.at + 1] \in DOMAIN s.properties
        THEN {[p EXCEPT !.schema = s.properties[place[p.at + 1]], !.at = @ + 1,
                        !.required = place[p.at + 1] \in s.required]}
        ELSE {})
       \cup {[p EXCEPT !.schema = t, !.depth = @ + 1,
                       !.at = IF place[@ + 1] \in Numerals THEN @ + 1 ELSE @] :
                t \in {u \in {s.items} \ {Absent} : more}}

resolveSchemaPointer(root, place) ==
    LET far[n \in 0 .. Len(place) + MaxTokens] ==
            IF n = 0 THEN {[schema |-> root, at |-> 0, depth |-> 0, required |-> FALSE]}
            ELSE UNION {UNION {Passed(p, v, place) : v \in expandSchema(p.schema)} :
                           p \in far[n - 1]}
        all == UNION {far[n] : n \in DOMAIN far}
    IN UNION {{[p EXCEPT !.schema = v] : v \in expandSchema(p.schema)} :
                 p \in {q \in all : q.at = Len(place)}}

(* Nothing is said when the schemas that match differ in what counts.      *)
collapseSchemaMatches(matches) ==
    {[types |-> NonNull(Schemas[p.schema].types), format |-> Schemas[p.schema].format,
      depth |-> p.depth] : p \in matches}

SameParameter(parameters, value) ==
    {p \in parameters : p.location = value.kind /\ p.name = value.place[1]}

(* What a parameter refers to is not looked at.                            *)
resolveSchema(roots, parameters, value) ==
    IF value.kind \in {"response-body", "request-body"}
    THEN collapseSchemaMatches(
            UNION {resolveSchemaPointer(s, value.place) : s \in roots})
    ELSE collapseSchemaMatches(
            {[schema |-> p.schema, depth |-> 0] : p \in SameParameter(parameters, value)})
-----------------------------------------------------------------------------
DialogTyped ==
    /\ api \in Apis
    /\ DOMAIN mapping = {"source", "target", "template"}
    /\ DOMAIN dialog = {"source", "target", "template"}
    /\ \A f \in catalog.sources \cup catalog.targets :
          f.slots \subseteq 1 .. Len(f.value.place) /\ f.unavailable \in BOOLEAN

(* What a schema means, whatever the dialog makes of it: a value that has  *)
(* the schema has all that it refers to or is put together of.             *)
Permits(s, v) ==
    /\ \/ Schemas[s].types = {} \/ v.type \in Schemas[s].types
       \/ v.type = "integer" /\ "number" \in Schemas[s].types
       \/ v.type = "null" /\ Nullable(s)
    /\ Schemas[s].enum # {} => v.text \in Schemas[s].enum
    /\ Schemas[s].format # "" /\ v.type # "null" => Schemas[s].format \in v.formats

(* The schemas of the values on the way along a pointer.                   *)
OnTheWay(root, place) ==
    LET at[n \in 0 .. Len(place)] ==
            IF n = 0 THEN expandSchema(root)
            ELSE UNION {expandSchema(t) : t \in
                    {Schemas[s].properties[place[n]] :
                        s \in {x \in at[n - 1] : place[n] \in DOMAIN Schemas[x].properties}}
                    \cup {Schemas[s].items :
                        s \in {x \in at[n - 1] : place[n] \in Numerals /\ Schemas[x].items # Absent}}}
    IN at

CanBeNull(S) == (\E s \in S : Nullable(s)) /\ \A s \in S : Schemas[s].types = {} \/ Nullable(s)

AskedFor(at, place) ==
    \A n \in DOMAIN place :
        place[n] \in Numerals \/ \E s \in at[n - 1] : place[n] \in Schemas[s].required

Leads(s, token) ==
    IF token \in Numerals THEN Schemas[s].items # Absent
    ELSE token \in DOMAIN Schemas[s].properties

(* Schemas that say of a value all they say of it in one place, and say    *)
(* that it may be null where they list its values.                         *)
SaidAtOnce(at, place) ==
    /\ \A n \in DOMAIN place :
          /\ \A s, t \in at[n - 1] : Leads(s, place[n]) /\ Leads(t, place[n]) => s = t
          /\ \A s \in at[n - 1] : place[n] \in Schemas[s].required =>
                place[n] \in DOMAIN Schemas[s].properties
    /\ \A s \in at[Len(place)] :
          /\ Schemas[s].types \cap ScalarTypes = {} =>
                Schemas[s].types = {} /\ Schemas[s].enum = {} /\ Schemas[s].format = ""
          /\ Nullable(s) /\ Schemas[s].enum # {} => "null" \in Schemas[s].enum

(* The dialog does not stop on the way: there is one schema to follow, and *)
(* none is met again.                                                      *)
WalkedThrough(at) ==
    /\ \A n \in DOMAIN at : \A s \in at[n] : Schemas[s].variants = {}
    /\ \A m, n \in DOMAIN at : at[m] = at[n] => m = n

Null == [type |-> "null", text |-> "null", formats |-> {}]
Filled == [type |-> "string", text |-> "filled in", formats |-> {}]

Values(at, n) ==
    {v \in Instances : \A s \in at[n] : Permits(s, v)}
    \cup {v \in {Null} : \E i \in 0 .. n - 1 : CanBeNull(at[i])}

(* Where a value may be taken from or has to go: the way to it, and        *)
(* whether it has to be there.                                             *)
Ends(roots, place, required) ==
    {e \in {[at |-> OnTheWay(s, place), last |-> Len(place),
             there |-> required /\ AskedFor(OnTheWay(s, place), place)] :
                s \in {r \in roots : /\ SaidAtOnce(OnTheWay(r, place), place)
                                     /\ WalkedThrough(OnTheWay(r, place))}} :
        \E s \in e.at[e.last] : Schemas[s].types \cap ScalarTypes # {}}

Takers(a, value) ==
    IF value.kind = "request-body" THEN Ends(a.body, value.place, a.bodyRequired)
    ELSE UNION {Ends({p.schema}, <<>>, p.required) :
                   p \in SameParameter(a.parameters, value)}

(* The dialog has given a mapping out.                                     *)
Edited == ~IsOpen /\ mapping # api.inferred

(* A mapping the user made gives the request what it asks for: whatever    *)
(* the answer that has the field holds in it, its type, format, values and *)
(* null are allowed where it goes, it is there when it has to be (as far   *)
(* as lists have the entry asked for), and nothing is taken from what is   *)
(* only written or put into what is only read.                             *)
EditsAreGuaranteed ==
    Edited =>
        \A from \in Ends(Answers(api), mapping.source.place, TRUE),
           to \in Takers(api, mapping.target) :
            /\ \A v \in Values(from.at, from.last) : \A s \in to.at[to.last] :
                  Permits(s, IF mapping.template = "" THEN v ELSE Filled)
            /\ to.there => from.there
            /\ \A n \in 0 .. from.last : \A s \in from.at[n] : ~Schemas[s].writeOnly
            /\ \A n \in 0 .. to.last : \A s \in to.at[n] : ~Schemas[s].readOnly

(* Secrets leave only in the header that is meant for them.                *)
SecretsAreKept ==
    Edited => KeepsSecret(mapping.source, mapping.target)

(* README.md:57: reopening the editor uses the mapping in force.  What was *)
(* applied is chosen again, whatever was typed, and is valid.              *)
EditsReopen ==
    [][mapping' # mapping => Reopened(catalog', mapping') = dialog]_dialogVars

(* What the panel says of the type of a mapping the user made, when it     *)
(* does, is what the dialog said of its fields; of a parameter whose type  *)
(* is in what it refers to it says what is beside that.                    *)
PanelAgrees ==
    Edited =>
        \A side \in {"source", "target"} :
            LET fields == IF side = "source" THEN catalog.sources ELSE catalog.targets
                said == resolveSchema(IF side = "source" THEN Answers(api) ELSE api.body,
                                      api.parameters, mapping[side])
            IN \A f \in {g \in fields : Fits(g, mapping[side])}, d \in said :
                said = {d} =>
                    \/ d = [types |-> NonNull(f.types), format |-> f.format,
                            depth |-> Cardinality(f.slots)]
                    \/ \E p \in SameParameter(api.parameters, mapping[side]) :
                          Schemas[p.schema].types \cap ScalarTypes = {}

EditsStay == EditsReopen /\ [](DialogTyped /\ SecretsAreKept /\ PanelAgrees)
====
