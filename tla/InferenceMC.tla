---- MODULE InferenceMC ----
(***************************************************************************)
(* Users that are created, read and paid, with a login.  A user has a      *)
(* manager that is a user, and a variant.                                  *)
(***************************************************************************)
EXTENDS Inference, TLC

LowerNames == [n \in {"id", "ID", "userId", "user_id", "token", "Authorization", "authorization",
                      "name", "manager", "self"} |->
                  CASE n \in {"id", "ID"} -> "id" [] n = "userId" -> "userid"
                    [] n \in {"Authorization", "authorization"} -> "authorization"
                    [] OTHER -> n]
TokenNames == [n \in DOMAIN LowerNames \cup {"createUser", "getUser", "payUser", "login"} |->
                  CASE n \in {"id", "ID"} -> <<"id">>
                    [] n \in {"userId", "user_id"} -> <<"user", "id">>
                    [] n \in {"Authorization", "authorization"} -> <<"authorization">>
                    [] n = "createUser" -> <<"create", "user">> [] n = "getUser" -> <<"get", "user">>
                    [] n = "payUser" -> <<"pay", "user">> [] OTHER -> <<n>>]
PathSegments == ("/users" :> <<"users">>) @@ ("/users/{id}" :> <<"users", Item>>)
                @@ ("/pay" :> <<"pay">>) @@ ("/login" :> <<"login">>)
SingularWords == [w \in {"users", "pay", "login"} |-> IF w = "users" THEN "user" ELSE w]

NoProperties == [n \in {} |-> ""]
Schema(types, properties) ==
    [types |-> types, format |-> Absent, properties |-> properties, items |-> Absent,
     ref |-> Absent, allOf |-> <<>>, variants |-> <<>>, readOnly |-> FALSE, writeOnly |-> FALSE]
Scalar(type) == Schema({type}, NoProperties)

User == [Schema({"object"}, ("id" :> "uuid") @@ ("name" :> "text") @@ ("manager" :> "boss")
                              @@ ("self" :> "list"))
            EXCEPT !.variants = <<"guest", Bad>>]
Schemas ==
    ("user" :> User) @@ ("boss" :> [Schema({}, NoProperties) EXCEPT !.ref = "user"])
    @@ ("guest" :> Schema({"object"}, ("id" :> "uuid") @@ ("token" :> "string")))
    @@ ("list" :> [Scalar("array") EXCEPT !.items = "boss"])
    @@ ("uuid" :> [Scalar("string") EXCEPT !.format = "uuid", !.readOnly = TRUE])
    @@ ("order" :> Schema({"object"}, ("userId" :> "string") @@ ("name" :> "text")
                                        @@ ("token" :> "string") @@ ("ID" :> "number")))
    @@ ("text" :> Scalar("string")) @@ ("string" :> Scalar("string"))
    @@ ("number" :> Scalar("integer"))
    @@ ("session" :> [Schema({"object"}, ("token" :> "string") @@ ("user_id" :> "string"))
                        EXCEPT !.allOf = <<"far">>])
    @@ ("far" :> [Schema({}, NoProperties) EXCEPT !.ref = "order"])

Parameter(name, location, schema) == [name |-> name, location |-> location, schema |-> schema]
Link(name, target, parameters, body) ==
    [name |-> name, target |-> target, parameters |-> parameters, body |-> body]
At(location, name) == [location |-> location, name |-> name]
FromBody(name) == <<"$response", "body", "#", name>>

Reading == Link("read", <<"operationId", "getUser">>, <<<<At(Absent, "id"), FromBody("id")>>>>, <<>>)
Paying == Link("pay", <<"operationRef", <<"post", "/pay">>>>, <<>>,
               <<<<<<"userId">>, <<<<"u">>, <<"{">>, FromBody("id"), <<"}">>>>>>,
                 <<<<"token">>, <<FromBody("token")>>>>, <<<<"name">>, <<FromBody("name")>>>>>>)
Again == Link("again", <<"operationId", "payUser">>, <<>>, <<<<<<"name">>, <<<<"$inputs", "name">>>>>>>>)
Lost == Link("lost", <<"operationId", "nobody">>, <<>>, <<>>)
Vague == Link("vague", <<"operationId", "getUser">>, <<<<At("query", "id"), FromBody("id")>>>>, <<>>)
Odd == Link("odd", <<"operationId", "getUser">>, <<>>, <<<<<<"name">>, <<<<"{">>, <<"name">>>>>>>>)

Response(status, media, links) == [status |-> status, media |-> media, links |-> links]
Op(id, parameters, body, responses, security) ==
    [operationId |-> id, tags |-> {"all"}, parameters |-> parameters, body |-> body,
     responses |-> responses, security |-> security]

Create(links) == Op("createUser", <<>>, <<>>,
                    <<Response("201", <<"user">>, links), Response("400", <<"order">>, <<>>)>>, Absent)
Login == Op("login", <<>>, <<Bad>>, <<Response("default", <<"session">>, <<>>)>>, {})
Pay(parameters) == Op("payUser", parameters, <<"order">>,
                      <<Response("204", <<>>, <<>>)>>, {"bearerAuth"})
Read(id, responses) ==
    Op(id, <<Parameter("id", "path", "string"), Parameter("authorization", "header", "string")>>,
       <<>>, responses, Absent)
OneUser == <<Response("200", <<"user">>, <<>>)>>

Item_(parameters, operations) == [parameters |-> parameters, operations |-> operations]
Document(links, payParameters, readId, responses) ==
    [version |-> "3.1", security |-> {"bearerAuth"}, components |-> {"user", "order"},
     schemas |-> Schemas,
     paths |-> ("/users" :> Item_(<<>>, "post" :> Create(links)))
               @@ ("/users/{id}" :>
                     Item_(<<Parameter("id", "path", "number"), Bad,
                             Parameter("Authorization", "header", "number")>>,
                           "get" :> Read(readId, responses)))
               @@ ("/pay" :> Item_(<<>>, "post" :> Pay(payParameters)))
               @@ ("/login" :> Item_(<<>>, "post" :> Login))]

Plain == Document(<<>>, <<>>, "getUser", OneUser)
Linked == Document(<<Reading, Paying, Again>>, <<>>, "getUser",
                   <<Response("200", <<"user">>, <<>>), Response("201", <<"user">>, <<>>)>>)
OtherDocuments ==
    {Document(<<Lost>>, <<>>, "getUser", OneUser), Document(<<Vague>>, <<>>, "getUser", OneUser),
     Document(<<Odd>>, <<>>, "getUser", OneUser), Document(<<Reading>>, <<>>, "payUser", OneUser),
     Document(<<>>, <<Parameter("name", "query", "string"),
                      Parameter("name", "querystring", "string")>>, "getUser", OneUser),
     [Plain EXCEPT !.version = "2.0"], [Plain EXCEPT !.version = "3.2"], [Plain EXCEPT !.paths = Bad],
     [Plain EXCEPT !.paths["/pay"].operations["post"] = Bad]}

Config(topK, minimum) ==
    [topK |-> topK, maxCandidates |-> 5000, maxPairs |-> 50000, depth |-> 4,
     minimum |-> minimum, includeLow |-> TRUE]
Default == Config(5, 60)
OtherConfigs ==
    {Config(1, 60), Config(1, 0), Config(2, 75), Config(0, 60), Config(5, 101),
     [Default EXCEPT !.includeLow = FALSE], [Default EXCEPT !.maxPairs = 7],
     [Default EXCEPT !.maxCandidates = 2], [Default EXCEPT !.depth = 1]}

Create_ == <<"post", "/users">>
Read_ == <<"get", "/users/{id}">>
Pay_ == <<"post", "/pay">>
Control(from, to) == [kind |-> "control", from |-> from, to |-> to, mappings |-> {}]
Extras == {{Control(Read_, Create_)}, {Control(Read_, Pay_), Control(Pay_, Create_)}}

Given(raw_, config_, extra_) == [raw |-> raw_, config |-> config_, extra |-> extra_]
AllInputs ==
    {Given(d, c, {}) : d \in {Plain, Linked}, c \in OtherConfigs \cup {Default}}
    \cup {Given(d, Default, {}) : d \in OtherDocuments}
    \cup {Given(Plain, Default, e) : e \in Extras}
====
