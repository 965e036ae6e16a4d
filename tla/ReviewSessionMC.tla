---- MODULE ReviewSessionMC ----
(***************************************************************************)
(* Three candidates: the first two join the same operations, the second is *)
(* blocked, and the graph lacks a node of the third.  A decision may also  *)
(* name a fourth one that the snapshot does not have.                      *)
(***************************************************************************)
EXTENDS ReviewSession

SomeCandidates ==
    [c \in 1 .. 3 |->
        [ends |-> IF c = 3 THEN "xy" ELSE "ab",
         mapping |-> IF c = 2 THEN "m2" ELSE "m1",
         blocked |-> c = 2]]

DeclaredLinks == {<<"ab", "m2">>}

Plain(c, revision, action) ==
    Decision(c, "current", revision, action, NoMapping, "-", "-")
Edited(c, revision, mapping) ==
    Decision(c, "current", revision, "edit", mapping, "-", "-")
Old(d) == [d EXCEPT !.print = "old"]
Dated(d) == [d EXCEPT !.decidedAt = "date"]

Set(D, edges) == [revision |-> MaxOf({0} \cup {d.revision : d \in D}),
                  decisions |-> D, manualEdges |-> edges]

(* Nothing; or a conflict, a candidate that cannot be placed, and a stale  *)
(* edit, to the mapping of another candidate, that supersedes a rejection. *)
SomeBaselines ==
    {EmptySet,
     Set({Plain(1, 1, "accept"), Plain(1, 1, "reject"), Plain(3, 1, "accept"),
          Plain(2, 1, "reject"), Old(Edited(2, 3, "m1"))}, {})}

(* Files that contradict what the user or each other may decide, agree     *)
(* with it but for a date, are stale, name an unknown candidate, or bring  *)
(* edges of their own.                                                     *)
SomeFiles ==
    {Set({Plain(1, 1, "reject"), Edited(1, 2, "m2"), Dated(Plain(3, 1, "accept"))},
         {[id |-> 2, ends |-> "xy", mappings |-> {"m1"}]}),
     Set({Plain(1, 1, "accept"), Plain(2, 1, "reject"), Plain(4, 1, "accept"),
          Old(Edited(2, 2, "m1"))},
         {[id |-> 1, ends |-> "ab", mappings |-> {"m1", "m2"}]})}

(* For the run that looks for the race.                                    *)
NoBaseline == {EmptySet}
DatedFile == {Set({Dated(Plain(1, 1, "accept"))}, {})}

ASSUME InstanceFits == SetsFit
====
