---- MODULE ArazzoWorkflowsMC ----
(***************************************************************************)
(* Workflows of three steps that need and read each other in every way,    *)
(* and documents with one peculiarity each.                                *)
(***************************************************************************)
EXTENDS ArazzoWorkflows, TLC

Names == {"id", "ID", "limit", "X-Id", "x-id", "name"}
LowerNames == [n \in Names |-> CASE n = "ID" -> "id" [] n = "X-Id" -> "x-id" [] OTHER -> n]

(* The APIs: users are created and read; the link from the one operation   *)
(* to the other is declared too.                                           *)
ReadLink == [name |-> "read", target |-> <<"operationId", "getUser">>, body |-> <<>>,
             parameters |-> <<<<[location |-> Absent, name |-> "id"],
                                <<"$response", "body", "#", "id">>>>>>]
Operation_(id, parameters, links) ==
    [operationId |-> id, tags |-> {}, parameters |-> parameters, body |-> <<>>, security |-> Absent,
     responses |-> <<[status |-> "201", media |-> <<>>, links |-> links]>>]
Api == Normalized(
    [version |-> "3.1", security |-> Absent, components |-> {}, schemas |-> <<>>,
     paths |-> ("/users" :> [parameters |-> <<>>,
                             operations |-> "post" :> Operation_("createUser", <<>>, <<ReadLink>>)])
               @@ ("/user" :> [parameters |-> <<>>, operations |-> "get" :> Operation_("getUser",
                       <<[name |-> "id", location |-> "path", schema |-> Absent]>>, <<>>)])])
Source(id, name) == [id |-> id, name |-> name, document |-> Api]
One == <<Source("s1", "users")>>
Twins == <<Source("s1", "users"), Source("s2", "users")>>
Two == <<Source("s1", "users"), Source("s2", "others")>>

Text(words) == {<<<<>>, <<words>>>>}
Around(words) == {<<<<>>, <<<<"u">>, <<"{">>, words, <<"}">>>>>>}
OutputOf(step) == <<"$steps", step, "outputs", "out">>
BodyId == <<"$response", "body", "#", "id">>
Inside(value) == {<<<<"user">> \o leaf[1], leaf[2]>> : leaf \in value}

Target(step) == "operationId" :> (IF step = "a" THEN <<"createUser">> ELSE <<"users", "getUser">>)
Plain(id) ==
    [stepId |-> id, targets |-> Target(id), parameters |-> <<>>, body |-> {},
     outputs |-> "out" :> Text(BodyId), dependsOn |-> {}, criteria |-> {""}, actions |-> {},
     preserved |-> {}]
Needing(id, asked, read) ==
    [Plain(id) EXCEPT !.dependsOn = asked, !.body = UNION {Inside(Text(OutputOf(r))) : r \in read}]
Parameter(name, location, value) == [name |-> name, location |-> location, value |-> value]
With(id, location, value) ==
    [Plain(id) EXCEPT !.parameters = <<Parameter("id", location, value), Bad>>]

OneWorkflow(id, steps) ==
    [workflowId |-> id, steps |-> steps, parameters |-> <<>>, actions |-> {}, preserved |-> {}]
Document(workflows) ==
    [version |-> "1.1", self |-> "none", workflows |-> workflows,
     sources |-> <<[name |-> "users", type |-> "openapi", url |-> "u", preserved |-> {}],
                   [name |-> "others", type |-> "openapi", url |-> "o", preserved |-> {}]>>]
Single(steps) == Document(<<OneWorkflow("flow", steps)>>)

AtMostOne(S) == {{}} \cup {{x} : x \in S}
Orders == {Single(<<Needing("a", x[1], x[2]), Needing("b", y[1], y[2]), Needing("c", z[1], z[2])>>) :
              x \in AtMostOne({"b", "c"}) \X AtMostOne({"b", "c"}),
              y \in AtMostOne({"a", "c"}) \X AtMostOne({"b", "c"}),
              z \in AtMostOne({"a", "b"}) \X AtMostOne({"a", "b"})}

A == Plain("a")
Pair(step) == Single(<<A, step>>)
Odd(workflow) == Document(<<workflow, Bad, OneWorkflow("flow", <<A, Bad>>)>>)
Flow_(steps) == OneWorkflow("flow", steps)
Peculiar ==
    {Bad, [Pair(A) EXCEPT !.version = "1.0"], [Pair(A) EXCEPT !.self = "fragment"],
     [Pair(A) EXCEPT !.sources = <<@[1], @[1]>>],
     [Single(<<A>>) EXCEPT !.sources = <<[@[1] EXCEPT !.type = "asyncapi"], Bad>>],
     Pair(With("b", "path", Text(OutputOf("a")))), Pair(With("b", "header", Around(OutputOf("a")))),
     Pair(With("b", "matrix", Text(OutputOf("a")))), Pair(With("b", "path", Text(OutputOf("z")))),
     Pair(With("b", "path", Text(<<"$steps", "a", "outputs", "other">>))),
     Pair(With("b", "path", Text(<<"$steps", "a">>))), Pair(With("b", "path", Text(<<"a">>))),
     Single(<<[A EXCEPT !.outputs["out"] = Around(BodyId)], With("b", "path", Around(OutputOf("a")))>>),
     Single(<<[A EXCEPT !.outputs["out"] = Around(BodyId)], With("b", "path", Text(OutputOf("a")))>>),
     Single(<<[A EXCEPT !.outputs["out"] = Inside(Text(BodyId))],
              With("b", "path", Text(OutputOf("a")))>>),
     Single(<<[A EXCEPT !.outputs = @ @@ ("same" :> Text(BodyId))],
              [With("b", "path", Text(OutputOf("a")))
                 EXCEPT !.parameters = @ \o <<Parameter("id", "path",
                                                Text(<<"$steps", "a", "outputs", "same">>))>>]>>),
     Pair([Plain("b") EXCEPT !.parameters = <<Parameter("X-Id", "header", {}),
                                              Parameter("x-id", "header", {})>>]),
     Pair(A), Pair(Plain("")), Pair(Needing("b", {"z"}, {"a"})), Single(<<>>),
     Pair([Plain("b") EXCEPT !.targets = <<>>]),
     Pair([Plain("b") EXCEPT !.targets = @ @@ ("workflowId" :> <<"flow">>)]),
     Pair([Plain("b") EXCEPT !.targets = "channelPath" :> <<"c">>]),
     Pair([Plain("b") EXCEPT !.targets = "operationId" :> <<"nobody">>]),
     Pair([Plain("b") EXCEPT !.targets = "operationPath" :> <<"users", <<"get", "/user">>>>]),
     Pair([Plain("b") EXCEPT !.targets = "operationPath" :> <<"#">>]),
     Pair([Plain("b") EXCEPT !.criteria = {"regex"}]), Pair([Plain("b") EXCEPT !.actions = {"goto"}]),
     Pair([Plain("b") EXCEPT !.preserved = {"x"}]),
     Odd(Flow_(<<A, Needing("b", {"a"}, {})>>)), Odd(OneWorkflow("other", <<Needing("b", {"b"}, {})>>))}

Given(raw_, sources_) == [raw |-> raw_, sources |-> sources_]
AllInputs ==
    {Given(d, One) : d \in Orders \cup Peculiar}
    \cup {Given(d, s) : d \in Peculiar, s \in {Twins, Two, <<>>}}

(* A workflow that goes on with another one when it fails.                 *)
GoesElsewhere ==
    {Given(Document(<<[Flow_(<<A, [Plain("b") EXCEPT !.actions = x]>>) EXCEPT !.actions = y]>>), s) :
        x \in {{}, {"retry"}, {"goto"}}, y \in {{}, {"end"}, {"goto"}}, s \in {One, Two}}
====
