---- MODULE CommandsMC ----
(***************************************************************************)
(* One process with every kind of command line, right and wrong, and one   *)
(* that exports to the same file.                                          *)
(***************************************************************************)
EXTENDS Commands

Numbers == [w \in Words |-> CASE w = "0" -> 0 [] w = "1" -> 10 [] w = "0.5" -> 5
                             [] w = "2" -> 20 [] w = "99999" -> 999990 [] OTHER -> NaN]

Line(command, arguments) == [command |-> command, arguments |-> arguments]

Reviewing == <<"api", "--decisions", "set">>
Exported == Reviewing \o <<"--workflow", "plan">>
ToFile == Line("export-arazzo", Exported \o <<"--output", "path">>)
Forcing == Line("export-arazzo", Exported \o <<"--output", "path", "--force">>)

Validating ==
    {Line("validate", a) :
        a \in {<<"api">>, <<"--json", "api", "--max-documents", "1">>, <<>>,
               <<"api", "--max-documents", "0">>, <<"api", "api">>, <<"api", "--what">>,
               <<"api", "--max-ref-depth", "0", "--allow-path">>}}
Inferring ==
    {Line("infer", <<"api">> \o a) :
        a \in {<<"--json", "--top-k", "0", "--top-k", "2">>, <<"--top-k", "2", "--top-k", "0">>,
               <<"--minimum-confidence", "2">>, <<"--minimum-confidence", "0.5", "--include-low">>,
               <<"--allow-http", "--max-documents", "0">>, <<"--max-candidates", "set">>}}
ReviewLines ==
    {Line("review", a) :
        a \in {Reviewing, Reviewing \o <<"--json", "--allow-path", "set", "--allow-path", "plan">>,
               <<"api">>, <<"--decisions", "set", "api">>, <<"api", "--decisions", "--json">>}}
ExportLines ==
    {ToFile, Forcing, Line("export-arazzo", Exported), Line("export-arazzo", Reviewing)} \cup
    {Line("export-arazzo", Exported \o a) :
        a \in {<<"--json">>, <<"--force">>, <<"--format", "set">>,
               <<"--format", "json", "--json", "--output", "path", "--max-total-bytes", "1">>}}
Opening ==
    {Line("open", a) :
        a \in {<<"api">>, <<"api", "--project", "set", "--port", "1">>, <<"http:">>,
               <<"api", "--port", "1", "--port", "1">>, <<"api", "--port", "99999">>,
               <<"api", "--project", "http:">>}}

EveryLine == [p1 |-> Validating \cup Inferring \cup ReviewLines \cup ExportLines
                     \cup Opening \cup {Line("help", <<>>)},
              p2 |-> {ToFile, Forcing}]
====
