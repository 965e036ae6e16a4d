---- MODULE SourceAcquisition ----
(***************************************************************************)
(* Reading a source document on somebody's budget: createSourceBudget      *)
(* (packages/source-loader/src/retrieval-policy.ts), the acquirer behind   *)
(* it (node-source-acquirer.ts) and the memo in front of it                *)
(* (packages/cli/src/memoized-source-acquirer.ts).                         *)
(*                                                                         *)
(* A command acquires one document after the other, so that an acquisition *)
(* is a function of what has been acquired before it.  A location is the   *)
(* URI of what is asked for; the document it leads to has a URI of its     *)
(* own, another one if the location is a symbolic link.                    *)
(***************************************************************************)
EXTENDS Naturals, FiniteSets

CONSTANTS
    Uris,           \* locations
    Docs,           \* the URIs of documents
    Bytes,          \* the length of a document
    Unread,         \* a location no acquisition was asked for
    Budgets,        \* the budgets of one command
    MaxDocuments,   \* 32
    MaxTotalBytes,  \* 20 MiB
    MaxReferenceDepth  \* 16

ASSUME AcquisitionAssumption ==
    /\ Docs \subseteq Uris /\ IsFiniteSet(Uris)
    /\ Bytes \in [Docs -> Nat]
    /\ {MaxDocuments, MaxTotalBytes, MaxReferenceDepth} \subseteq Nat

Failures == {"depth", "read", "documents", "size"}

(* No source, but a diagnostic; and a source.                              *)
Refused(why) == [doc |-> Unread, why |-> why]
Got(doc) == [doc |-> doc, why |-> "none"]

HasSource(result) == result \in {Got(d) : d \in Docs}

Results == {Got(d) : d \in Docs} \cup {Refused(why) : why \in Failures}

(* What one command has spent and read so far.                             *)
NothingSpent ==
    [budget |-> [b \in Budgets |-> [documentCount |-> 0, totalBytes |-> 0]],
     cache |-> [u \in Uris |-> Unread],
     accounted |-> [u \in Uris |-> {}]]

checkReferenceDepth(depth) == depth <= MaxReferenceDepth

(* The diagnostic of consumeDocument, "none" when the budget suffices.     *)
Overdraft(budget, doc) ==
    CASE budget.documentCount + 1 > MaxDocuments -> "documents"
      [] budget.totalBytes + Bytes[doc] > MaxTotalBytes -> "size"
      [] OTHER -> "none"

Consumed(spent, b, doc) ==
    [spent.budget EXCEPT ![b].documentCount = @ + 1,
                         ![b].totalBytes = @ + Bytes[doc]]

(* The base acquirer: doc is what the location leads to, Unread when it    *)
(* cannot be read.                                                         *)
BaseResult(spent, b, doc, depth) ==
    IF ~checkReferenceDepth(depth) THEN Refused("depth")
    ELSE IF doc = Unread THEN Refused("read")
    ELSE IF Overdraft(spent.budget[b], doc) # "none"
    THEN Refused(Overdraft(spent.budget[b], doc))
    ELSE Got(doc)

FirstAcquire(spent, u, b, doc, depth) ==
    LET result == BaseResult(spent, b, doc, depth)
    IN  [result |-> result,
         spent |-> [budget |-> IF HasSource(result) THEN Consumed(spent, b, doc)
                               ELSE spent.budget,
                    cache |-> [spent.cache EXCEPT ![u] = result],
                    accounted |-> [spent.accounted EXCEPT ![u] = {b}]]]

(* Another budget pays for a remembered document as if it were read anew.  *)
LaterAcquire(spent, u, b, depth) ==
    LET result == spent.cache[u]
        refused(why) == [result |-> Refused(why), spent |-> spent]
    IN  IF ~HasSource(result) \/ b \in spent.accounted[u]
        THEN [result |-> result, spent |-> spent]
        ELSE IF ~checkReferenceDepth(depth) THEN refused("depth")
        ELSE IF Overdraft(spent.budget[b], result.doc) # "none"
        THEN refused(Overdraft(spent.budget[b], result.doc))
        ELSE [result |-> result,
              spent |-> [spent EXCEPT !.budget = Consumed(spent, b, result.doc),
                                      !.accounted[u] = @ \cup {b}]]

acquire(spent, u, b, doc, depth) ==
    IF spent.cache[u] = Unread THEN FirstAcquire(spent, u, b, doc, depth)
    ELSE LaterAcquire(spent, u, b, depth)
====
