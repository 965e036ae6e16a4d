---- MODULE WorkspaceMC ----
(***************************************************************************)
(* A snapshot that fits on a canvas of two operations and one that does    *)
(* not.  Two suggestions run in opposite directions, so that only one can  *)
(* be previewed; a third has a blocker and a band of its own.              *)
(***************************************************************************)
EXTENDS Workspace

Methods == [op \in {"a", "b", "c"} |-> IF op = "a" THEN "post" ELSE "get"]
SomeTags == [op \in {"a", "b", "c"} |-> IF op = "c" THEN {} ELSE {"t"}]
Terms == [q \in {"q"} |-> {"a"}]
Words == [q \in {"w"} |-> {2}]
Link == {<<"c", "b">>}

Candidate(source, target, confidence, blockers, band) ==
    [source |-> source, target |-> target, confidence |-> confidence,
     evidence |-> 1, blockers |-> blockers, band |-> band]

SomeCandidates ==
    <<Candidate("a", "b", 2, 0, "high"), Candidate("b", "a", 1, 0, "low"),
      Candidate("a", "c", 3, 1, "medium")>>

SomeSnapshots == {{}, {"a", "b"}, {"a", "b", "c"}}

File(source, action, c, moved) ==
    [source |-> source, drafts |-> <<[action |-> action, candidate |-> c]>>,
     layout |-> [direction |-> "down", moved |-> moved]]

SomeProjects ==
    {File({"a", "b"}, "accept", 1, {"a"})}

SomeMethods == {{}, {"get"}}
====
