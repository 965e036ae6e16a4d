---- MODULE WorkflowEditorMC ----
(***************************************************************************)
(* A create, a read and a search operation.  The id of what was created or *)
(* found can go to the same path parameter, so two mappings exclude each   *)
(* other; a third goes to the body.  The graph may lose the first one.     *)
(***************************************************************************)
EXTENDS WorkflowEditor

Link(id, source, target, output, parameter) ==
    [id |-> id, source |-> source, target |-> target, output |-> output,
     parameter |-> parameter]

CreatedId == Link("m1", "post", "get", "id", "id")
FoundId == Link("m2", "search", "get", "id", "id")
CreatedName == Link("m3", "post", "get", "name", "body")

SomeGraphs == {{CreatedId, FoundId, CreatedName}, {FoundId, CreatedName}}

Numbered == [n \in {"post", "get", "search"} |->
                CASE n = "post" -> <<"new", "new2", "new3">>
                  [] n = "get" -> <<"read", "read2", "read3">>
                  [] OTHER -> <<"step", "step2", "step3">>]

Pairs == {<<"post", "get">>}

Ids == {"", "a b"} \cup UNION {{Numbered[n][i] : i \in 1 .. 3} : n \in DOMAIN Numbered}

Step(id, n) == [id |-> id, node |-> n]
Draft(steps, selected) == [named |-> TRUE, steps |-> steps, selected |-> selected]

(* A draft that runs; one that runs without its first step and the binding  *)
(* of the name; and one, from a file, that has an operation twice.         *)
SomeDrafts ==
    {Draft(<<Step("new", "post"), Step("read", "get")>>, {"m1"}),
     Draft(<<Step("a b", "search"), Step("new", "post"), Step("read", "get")>>,
           {"m1", "m3"}),
     Draft(<<Step("new", "post"), Step("read", "get"), Step("new2", "post")>>,
           {"m1"})}
====
