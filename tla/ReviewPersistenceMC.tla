---- MODULE ReviewPersistenceMC ----
(***************************************************************************)
(* Two tabs, one edited session beside the blank one, and a clock that is  *)
(* ahead of the generations at a first reset and behind them at a second.  *)
(***************************************************************************)
EXTENDS ReviewPersistence, TLC

CONSTANTS blank, draft, other

Symmetric == Permutations(Tabs)

(* No record, a saved session, the marker, a value that does not decode,   *)
(* and a record whose generation is damaged.                               *)
EarlierRecords ==
    {Absent, Stored(2, draft), disabledStoredReview(2),
     [generation |-> 2, kind |-> "corrupt", payload |-> blank],
     Stored(-1, draft)}

(* The two of them that two tabs can quarrel over.                         *)
SharedRecords == {Stored(2, draft), disabledStoredReview(2)}
====
