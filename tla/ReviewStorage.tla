---- MODULE ReviewStorage ----
(***************************************************************************)
(* The one IndexedDB record that holds a review session                    *)
(* (apps/web/src/review/review-storage.ts): its shape, the generation it   *)
(* carries, and the transaction that replaces it.                          *)
(*                                                                         *)
(* A payload stands for the JSON text of encodeStoredReview: two sessions  *)
(* are the same payload exactly when their texts are equal, which is all   *)
(* the code ever compares.  Every operator here is a function of its       *)
(* arguments: the modules that own the record decide when a transaction    *)
(* runs.                                                                   *)
(***************************************************************************)
EXTENDS Integers

CONSTANTS
    Payloads,        \* encoded sessions
    Initial,         \* the payload of a session nobody has edited
    MaxSafeInteger,  \* Number.MAX_SAFE_INTEGER
    Clock            \* the values Date.now() may return

ASSUME StorageAssumption ==
    /\ Initial \in Payloads
    /\ MaxSafeInteger \in Nat \ {0, 1}
    /\ Clock \subseteq 1 .. MaxSafeInteger - 1

(* "absent": no record.  "review": a session that decodes.  "disabled":    *)
(* the marker that autosave was switched off.  "corrupt": a value that     *)
(* decodeStoredReview refuses.                                             *)
Kinds == {"absent", "review", "disabled", "corrupt"}

Generations == {g \in Int : g <= MaxSafeInteger}

Records == [generation : Generations, kind : Kinds, payload : Payloads]

Absent == [generation |-> 0, kind |-> "absent", payload |-> Initial]

disabledStoredReview(g) ==
    [generation |-> g, kind |-> "disabled", payload |-> Initial]

Stored(g, p) == [generation |-> g, kind |-> "review", payload |-> p]

(* What a record can be before any tab of this version has touched it: the *)
(* payload of a record that holds no session is fixed by convention, and a *)
(* negative generation stands for one that some other program damaged.     *)
WellFormed(r) ==
    /\ r.kind # "review" => r.payload = Initial
    /\ r.generation = 0 <=> r.kind = "absent"

ValidGeneration(g) == g \in 0 .. MaxSafeInteger - 1

(* Mutant: the transaction forgets to compare the generations.             *)
MayReplaceUnchecked(r, expected, reset) ==
    reset \/ ValidGeneration(r.generation)

(* The guard of replaceStoredReview: the stored generation is the expected *)
(* one, and it is valid unless the user asked for a reset.                 *)
MayReplace(r, expected, reset) ==
    /\ r.generation = expected
    /\ reset \/ ValidGeneration(r.generation)

(* Mutant: a reset trusts the clock alone.                                 *)
NextGenerationByClock(g, reset, now) == IF reset THEN now ELSE g + 1

(* A save counts up.  A reset also passes the clock, so that a generation  *)
(* of a record that was damaged or deleted is not given out again.         *)
NextGeneration(g, reset, now) ==
    LET floor == IF ValidGeneration(g) THEN g + 1 ELSE 1
    IN  IF ~reset THEN g + 1 ELSE IF now > floor THEN now ELSE floor

(* Mutant: the marker is not recognised.                                   *)
isStoredReviewDisabledNever(r) == FALSE

isStoredReviewDisabled(r) == r.kind = "disabled"

(* The load refuses a generation below one and a value it cannot decode.   *)
DamagedGeneration(r) == r.kind # "absent" /\ r.generation < 1

(* Mutant: a load that finds the marker gives up before its end.           *)
RestorableReviewOnly(r) == ~DamagedGeneration(r) /\ r.kind \in {"absent", "review"}

Restorable(r) == ~DamagedGeneration(r) /\ r.kind # "corrupt"
====
