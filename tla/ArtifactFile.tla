---- MODULE ArtifactFile ----
(***************************************************************************)
(* What the export command promises of the file it is told to write, seen  *)
(* by whoever reads that file: what is there is replaced only by an export *)
(* that was told to, and only by a whole artifact.  An export that was not *)
(* told to may begin a file where there is none.                           *)
(***************************************************************************)
CONSTANTS
    Exports,    \* the exports under way
    Nobody      \* whoever made the file that may be there to begin with

VARIABLES
    file,       \* by whom it is, and whether it is whole
    forced      \* the exports that were given --force

Artifact(p, whole) == [by |-> p, whole |-> whole]
Absent == Artifact(Nobody, FALSE)
Before == Artifact(Nobody, TRUE)

Init == file \in {Absent, Before} /\ forced \in SUBSET Exports

Begin(p) == file = Absent /\ p \notin forced /\ file' = Artifact(p, FALSE)

Finish(p) == file = Artifact(p, FALSE) /\ p \notin forced /\ file' = Artifact(p, TRUE)

Replace(p) == p \in forced /\ file' = Artifact(p, TRUE)

Next == (\E p \in Exports : Begin(p) \/ Finish(p) \/ Replace(p)) /\ UNCHANGED forced

Spec == Init /\ [][Next]_<<file, forced>>
====
