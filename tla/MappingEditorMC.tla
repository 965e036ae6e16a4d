---- MODULE MappingEditorMC ----
(***************************************************************************)
(* An order that is read and paid for: its schemas refer to each other and *)
(* contain themselves, may be null as a whole, have lists in lists, values *)
(* of an enumeration, a secret, and fields for one direction only; one is  *)
(* answered in two ways.                                                   *)
(***************************************************************************)
EXTENDS MappingEditor, TLC

NoProperties == [n \in {} |-> ""]
Schema(types) ==
    [types |-> types, format |-> "", enum |-> {}, nullable |-> FALSE, items |-> Absent,
     properties |-> NoProperties, required |-> {}, parts |-> {}, variants |-> {},
     readOnly |-> FALSE, writeOnly |-> FALSE]
Object(properties, required) ==
    [Schema({"object"}) EXCEPT !.properties = properties, !.required = required]
List(s) == [Schema({"array"}) EXCEPT !.items = s]
Ref(s) == [Schema({}) EXCEPT !.parts = {s}]

SomeSchemas ==
    ("string" :> Schema({"string"})) @@ ("number" :> Schema({"number"}))
    @@ ("integer" :> Schema({"integer"}))
    @@ ("uuid" :> [Schema({"string"}) EXCEPT !.format = "uuid"])
    @@ ("maybe" :> [Schema({"string"}) EXCEPT !.nullable = TRUE])
    @@ ("either" :> Schema({"string", "integer"}))
    @@ ("small" :> [Schema({"string"}) EXCEPT !.enum = {"a"}])
    @@ ("wide" :> [Schema({"string"}) EXCEPT !.enum = {"a", "b"}])
    @@ ("grade" :> [Schema({"string"}) EXCEPT !.enum = {"b"}])
    @@ ("hidden" :> [Schema({"string"}) EXCEPT !.writeOnly = TRUE])
    @@ ("given" :> [Schema({"string"}) EXCEPT !.readOnly = TRUE])
    @@ ("uuidRef" :> Ref("uuid")) @@ ("lost" :> Ref("nowhere"))
    @@ ("order" :> Object(("id" :> "uuidRef") @@ ("customer" :> "customer") @@ ("lines" :> "lines")
                          @@ ("token" :> "string") @@ ("total" :> "integer") @@ ("pin" :> "hidden")
                          @@ ("next" :> "orderRef") @@ ("note" :> "string") @@ ("ship" :> "address"),
                          {"id", "customer", "lines", "token", "total", "next"}))
    @@ ("orderRef" :> Ref("order"))
    @@ ("customer" :> [Object("name" :> "string", {"name"}) EXCEPT !.nullable = TRUE])
    @@ ("address" :> Object("name" :> "string", {"name"}))
    @@ ("lines" :> List("line")) @@ ("line" :> List("small"))
    @@ ("payment" :> Object(("order" :> "uuid") @@ ("size" :> "wide") @@ ("name" :> "string")
                            @@ ("price" :> "number") @@ ("at" :> "given") @@ ("sizes" :> "smalls")
                            @@ ("alias" :> "maybe") @@ ("grade" :> "grade"),
                            {"order", "price"}))
    @@ ("smalls" :> List("wide"))
    @@ ("other" :> Object(("id" :> "string") @@ ("kind" :> "union") @@ ("code" :> "either")
                          @@ ("name" :> "string"), {"id", "name"}))
    @@ ("union" :> [Schema({}) EXCEPT !.variants = {"string", "integer"}])
    @@ ("base" :> Object(("name" :> "string") @@ ("size" :> "narrow"), {}))
    @@ ("narrow" :> [Schema({}) EXCEPT !.parts = {"string", "limit"}])
    @@ ("limit" :> [Schema({}) EXCEPT !.enum = {"a"}])
    @@ ("named" :> [Schema({"object"}) EXCEPT !.required = {"name"}, !.parts = {"base"}])

Response(status, media) == [status |-> status, media |-> media]
Parameter(location, name, schema, required) ==
    [location |-> location, name |-> name, schema |-> schema, required |-> required]
Value(kind, place) == [kind |-> kind, place |-> place]
Mapping(from, to) ==
    [source |-> Value("response-body", from), target |-> to, template |-> ""]

Api(responses, body, bodyRequired, parameters, inferred) ==
    [responses |-> responses, body |-> body, bodyRequired |-> bodyRequired,
     parameters |-> parameters, inferred |-> inferred]

SomeApis ==
    {Api({Response("200", {"order"}), Response("default", {"other"})}, {"payment"}, TRUE,
         {Parameter("header", "Authorization", "string", TRUE),
          Parameter("query", "sizes", "smalls", FALSE)},
         Mapping(<<"id">>, Value("request-body", <<"order">>))),
     Api({Response("200", {"order"}), Response("201", {"other"})}, {"payment"}, FALSE,
         {Parameter("path", "id", "uuidRef", TRUE), Parameter("cookie", "name", "string", TRUE)},
         Mapping(<<"size">>, Value("request-body", <<"size">>))),
     Api({Response("default", {"named", "lost"})}, {"named"}, TRUE,
         {Parameter("query", "name", "narrow", TRUE)},
         Mapping(<<"name">>, Value("request-body", <<"name">>)))}

Some == {[type |-> "string", text |-> t, formats |-> {}] : t \in {"a", "b", "c"}}
        \cup {[type |-> "string", text |-> "u", formats |-> {"uuid"}],
              [type |-> "integer", text |-> "1", formats |-> {}],
              [type |-> "number", text |-> "1.5", formats |-> {}],
              [type |-> "boolean", text |-> "true", formats |-> {}], Null}
====
