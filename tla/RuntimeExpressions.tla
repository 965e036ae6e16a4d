---- MODULE RuntimeExpressions ----
(***************************************************************************)
(* The runtime expressions of OpenAPI links and Arazzo workflows, and the  *)
(* templates that hold them: runtime-expression.ts and runtime-template.ts *)
(* of packages/arazzo, expression-selector.ts of packages/flow.            *)
(*                                                                         *)
(* An expression is the sequence of its words: $steps.a.outputs.b is       *)
(* <<"$steps", "a", "outputs", "b">> and $response.body#/id is             *)
(* <<"$response", "body", "#", "id">>.  A string is a sequence of braces   *)
(* and of what is between them.                                            *)
(***************************************************************************)
EXTENDS Sequences, SequencesExt

Contexts == {"$url", "$method", "$statusCode", "$self"}
Dollars == Contexts \cup {"$request", "$response", "$message", "$inputs", "$outputs", "$steps",
                          "$workflows", "$sourceDescriptions", "$components", "$unknown"}

Unparsed == [kind |-> "invalid"]

Named(kind, scope, name) == [kind |-> kind, scope |-> scope, name |-> name]

(* The body without a pointer is not an expression.                        *)
Expression(words) ==
    CASE Len(words) = 1 /\ words[1] \in Contexts -> Named("context", words[1], "")
      [] /\ Len(words) = 3 /\ words[1] \in {"$request", "$response"}
         /\ words[2] \in {"header", "query", "path"} ->
            [kind |-> "http", scope |-> words[1], location |-> words[2], name |-> words[3]]
      [] /\ Len(words) >= 3 /\ words[1] \in {"$request", "$response"}
         /\ words[2] = "body" /\ words[3] = "#" ->
            [kind |-> "http", scope |-> words[1], location |-> "body",
             name |-> SubSeq(words, 4, Len(words))]
      [] /\ Len(words) >= 3 /\ words[1] = "$message"
         /\ \/ words[2] = "header" /\ Len(words) = 3
            \/ words[2] = "payload" /\ words[3] = "#" -> Named("message", words[2], words[3])
      [] Len(words) = 2 /\ words[1] \in {"$inputs", "$outputs"} ->
            Named("named", words[1], words[2])
      [] Len(words) = 4 /\ words[1] = "$steps" /\ words[3] = "outputs" ->
            Named("step-output", words[2], words[4])
      [] Len(words) = 4 /\ words[1] = "$workflows" /\ words[3] = "outputs" ->
            Named("workflow-output", words[2], words[4])
      [] Len(words) = 3 /\ words[1] = "$sourceDescriptions" ->
            Named("source-operation", words[2], words[3])
      [] Len(words) = 3 /\ words[1] = "$components" -> Named("component", words[2], words[3])
      [] OTHER -> Unparsed

(* What an expression selects of the call it is about.                     *)
NoSelector == <<"none", "">>

Selector(e) ==
    CASE e.kind = "context" /\ e.scope = "$statusCode" -> <<"status-code", "">>
      [] e.kind = "named" /\ e.scope = "$inputs" -> <<"workflow-input", e.name>>
      [] e.kind = "http" /\ e.scope = "$request" -> <<e.location, e.name>>
      [] e.kind = "http" /\ e.scope = "$response" /\ e.location = "header" ->
            <<"response-header", e.name>>
      [] e.kind = "http" /\ e.scope = "$response" /\ e.location = "body" ->
            <<"response-body", e.name>>
      [] OTHER -> NoSelector

Opening == <<"{">>
Closing == <<"}">>

(* Reading a string: the segments so far, whether a brace is open and what *)
(* is in it, and whether nothing was wrong.                                *)
Unread == [ok |-> TRUE, open |-> FALSE, inside |-> <<>>, segments |-> <<>>]

ReadPiece(read, piece) ==
    CASE piece = Opening -> [read EXCEPT !.ok = @ /\ ~read.open, !.open = TRUE, !.inside = <<>>]
      [] piece = Closing ->
            [read EXCEPT !.ok = @ /\ read.open /\ Expression(read.inside) # Unparsed,
                         !.open = FALSE,
                         !.segments = Append(@, Expression(read.inside))]
      [] piece \notin {Opening, Closing} /\ read.open -> [read EXCEPT !.inside = piece]
      [] OTHER -> [read EXCEPT !.segments = Append(@, [kind |-> "text"])]

(* What a string is: an expression, a template or nothing that can be read. *)
Template(pieces) ==
    IF Len(pieces) = 1 /\ pieces[1] # <<>> /\ pieces[1][1] \in Dollars
    THEN LET e == Expression(pieces[1])
         IN [kind |-> IF e = Unparsed THEN "invalid" ELSE "expression", segments |-> <<e>>]
    ELSE LET read == FoldLeft(ReadPiece, Unread, pieces)
         IN [kind |-> IF read.ok /\ ~read.open /\ read.segments # <<>>
                      THEN "template" ELSE "invalid",
             segments |-> read.segments]

Expressions(template) == SelectSeq(template.segments, LAMBDA s : s.kind # "text")

(* What a string stands for as one value: the selector of its only         *)
(* expression, and whether there is text around it.                        *)
Projection(template) ==
    CASE template.kind = "invalid" -> [selector |-> NoSelector, wrapped |-> FALSE, ok |-> FALSE]
      [] template.kind = "template" /\ Expressions(template) = <<>> ->
            [selector |-> NoSelector, wrapped |-> FALSE, ok |-> TRUE]
      [] template.kind # "invalid" /\ Len(Expressions(template)) = 1 ->
            LET selector == Selector(Expressions(template)[1])
            IN [selector |-> selector, wrapped |-> template.kind = "template",
                ok |-> selector # NoSelector]
      [] OTHER -> [selector |-> NoSelector, wrapped |-> FALSE, ok |-> FALSE]
====
