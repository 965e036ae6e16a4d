---- MODULE ReferenceGraphProofs ----
(***************************************************************************)
(* The walk over an OpenAPI file and what it refers to, for any files,     *)
(* links, references and limits.                                           *)
(*                                                                         *)
(* A reference of a loaded document is settled when its target is loaded.  *)
(* The invariant is that, as long as nothing has been reported, every      *)
(* reference is settled or still before one of the walks on the stack; so  *)
(* none is left when the stack is empty.  For a reference that was given   *)
(* up it takes that each attempt has led to a document or to a diagnostic. *)
(***************************************************************************)
EXTENDS ReferenceGraph, SequenceTheorems, FiniteSetTheorems, TLAPS

Frames == [doc : Docs, next : Nat, depth : Nat]
Listings == [doc : Docs, at : Nat, resolved : Docs \cup {Unread}]
Spendings == [budget : [Budgets -> [documentCount : Nat, totalBytes : Nat]],
              cache : [Uris -> Results \cup {Unread}],
              accounted : [Uris -> SUBSET Budgets]]

(* What the memo holds is what the location leads to.                      *)
CacheIsTrue ==
    /\ spent \in Spendings
    /\ \A u \in Uris : spent.cache[u] # Unread /\ HasSource(spent.cache[u]) =>
          spent.cache[u].doc = world.source[u]

TablesAreTrue ==
    /\ documents \subseteq Docs
    /\ \A d \in documents : world.source[d] = d
    /\ aliases \in [Uris -> Docs \cup {Unread}]
    /\ \A u \in Uris : aliases[u] \in {Unread, world.source[u]}

StackIsOfDocuments ==
    /\ stack \in Seq(Frames)
    /\ \A p \in 1 .. Len(stack) : stack[p].doc \in documents /\ stack[p].next >= 1
    /\ phase = "walk" <=> stack # <<>>
    /\ phase \in {"probe", "entry"} => documents = {} /\ references = <<>>

Clean == diagnostics = {}

TriesLoad ==
    Clean => \A u \in attemptedDocuments \cup failedDocuments :
                u \in Uris /\ canonicalUri(u) \in documents

Settled(d, i) == /\ world.refs[d][i].to \in Uris
                 /\ world.source[world.refs[d][i].to] \in documents

Ahead(d, i) == \E p \in 1 .. Len(stack) : stack[p].doc = d /\ i >= stack[p].next

AllSettledOrAhead ==
    Clean => \A d \in documents : \A i \in 1 .. Len(world.refs[d]) :
                Settled(d, i) \/ Ahead(d, i)

EntryIsLoaded ==
    phase \in {"walk", "done"} => ~Clean \/ world.source[Entry] \in documents

ListingsAreTrue ==
    /\ references \in Seq(Listings)
    /\ \A k \in 1 .. Len(references) :
          LET r == references[k] IN
              IF r.resolved = Unread THEN ~Clean
              ELSE /\ r.resolved \in documents
                   /\ r.resolved = world.source[world.refs[r.doc][r.at].to]

NoMoreThanReachable ==
    \A S \in SUBSET Docs : world.source[Entry] \in S /\ Closed(S) => documents \subseteq S

IInv ==
    /\ world \in Worlds
    /\ CacheIsTrue
    /\ TablesAreTrue
    /\ StackIsOfDocuments
    /\ TriesLoad
    /\ AllSettledOrAhead
    /\ EntryIsLoaded
    /\ ListingsAreTrue
    /\ NoMoreThanReachable
-----------------------------------------------------------------------------
(* A result has a source or it has none; only the former has a document.   *)
LEMMA ResultsDiffer ==
    ASSUME NEW result \in Results
    PROVE  /\ HasSource(result) => result.doc \in Docs
           /\ ~HasSource(result) => result.doc = Unread
           /\ result # Unread => result.why \in Failures \cup {"none"}
BY GraphAssumption DEF Results, HasSource, Got, Refused

LEMMA OverdraftIsFailure ==
    ASSUME NEW budget, NEW doc, Overdraft(budget, doc) # "none"
    PROVE  Overdraft(budget, doc) \in Failures
BY DEF Overdraft, Failures

LEMMA RefusedHasNone ==
    ASSUME NEW why
    PROVE  ~HasSource(Refused(why))
<1> SUFFICES ASSUME NEW d \in Docs, Refused(why) = Got(d)
             PROVE  FALSE
    BY DEF HasSource
<1>1. Refused(why).doc = Unread /\ Got(d).doc = d
    BY DEF Refused, Got
<1> QED BY <1>1, GraphAssumption

(* The base acquirer gives what the location leads to, if anything.        *)
LEMMA BaseResultIsTrue ==
    ASSUME NEW s, NEW b, NEW doc \in Docs \cup {Unread}, NEW depth
    PROVE  LET result == BaseResult(s, b, doc, depth)
           IN  /\ result \in Results
               /\ HasSource(result) => result.doc = doc /\ doc \in Docs
<1> DEFINE result == BaseResult(s, b, doc, depth)
<1>1. CASE result = Got(doc) /\ doc \in Docs
    BY <1>1 DEF Results, Got
<1>2. CASE \E why \in Failures : result = Refused(why)
    <2>1. ~HasSource(result) /\ result \in Results
        BY <1>2, RefusedHasNone DEF Results
    <2> QED BY <2>1
<1>3. {"depth", "read"} \subseteq Failures
    BY DEF Failures
<1>4. (result = Got(doc) /\ doc \in Docs) \/ \E why \in Failures : result = Refused(why)
    BY <1>3, OverdraftIsFailure DEF BaseResult
<1> QED BY <1>1, <1>2, <1>4

(* A budget is charged for a document.                                     *)
LEMMA ConsumedIsBudget ==
    ASSUME NEW s \in Spendings, NEW b \in Budgets, NEW doc \in Docs
    PROVE  Consumed(s, b, doc) \in [Budgets -> [documentCount : Nat, totalBytes : Nat]]
BY AcquisitionAssumption DEF Consumed, Spendings

(* What is acquired, from the memo or not, is what the location leads to,   *)
(* and the memo stays true.                                                *)
LEMMA AcquireIsTrue ==
    ASSUME world \in Worlds, CacheIsTrue, NEW u \in Uris, NEW b \in Budgets,
           NEW depth,
           spent' = acquire(spent, u, b, world.source[u], depth).spent,
           world' = world
    PROVE  LET result == acquire(spent, u, b, world.source[u], depth).result
           IN  /\ CacheIsTrue'
               /\ result \in Results
               /\ HasSource(result) => /\ result.doc = world.source[u]
                                       /\ result.doc \in Docs
<1> DEFINE doc == world.source[u]
<1>1. doc \in Docs \cup {Unread}
    BY GraphAssumption
<1>2. CASE spent.cache[u] = Unread
    <2> DEFINE result == BaseResult(spent, b, doc, depth)
    <2>1. /\ result \in Results
          /\ HasSource(result) => result.doc = doc /\ doc \in Docs
        BY <1>1, BaseResultIsTrue
    <2>2. /\ acquire(spent, u, b, doc, depth).result = result
          /\ spent' = [budget |-> IF HasSource(result) THEN Consumed(spent, b, doc)
                                  ELSE spent.budget,
                       cache |-> [spent.cache EXCEPT ![u] = result],
                       accounted |-> [spent.accounted EXCEPT ![u] = {b}]]
        BY <1>2 DEF acquire, FirstAcquire
    <2>3. spent' \in Spendings
        BY <2>1, <2>2, ConsumedIsBudget DEF CacheIsTrue, Spendings
    <2>4. \A v \in Uris : spent'.cache[v] = IF v = u THEN result ELSE spent.cache[v]
        BY <2>2 DEF CacheIsTrue, Spendings
    <2>5. CacheIsTrue'
        BY <2>1, <2>3, <2>4 DEF CacheIsTrue
    <2> QED BY <2>1, <2>2, <2>5
<1>3. CASE spent.cache[u] # Unread
    <2> DEFINE result == spent.cache[u]
    <2>1. result \in Results
        BY <1>3 DEF CacheIsTrue, Spendings
    <2>2. HasSource(result) => result.doc = doc /\ doc \in Docs
        BY <1>3, <2>1, ResultsDiffer DEF CacheIsTrue
    <2>3. acquire(spent, u, b, doc, depth) = LaterAcquire(spent, u, b, depth)
        BY <1>3 DEF acquire
    <2>4. CASE spent' = spent
        <3>1. CacheIsTrue'
            BY <2>4 DEF CacheIsTrue
        <3>2. LaterAcquire(spent, u, b, depth).result \in
                  {result} \cup {Refused(why) : why \in Failures}
            BY OverdraftIsFailure DEF LaterAcquire, Failures
        <3> QED BY <2>1, <2>2, <2>3, <3>1, <3>2, GraphAssumption
                DEF Results, HasSource, Got, Refused
    <2>5. CASE spent' # spent
        <3>1. /\ HasSource(result)
              /\ LaterAcquire(spent, u, b, depth).result = result
              /\ spent' = [spent EXCEPT !.budget = Consumed(spent, b, result.doc),
                                        !.accounted[u] = @ \cup {b}]
            BY <2>3, <2>5 DEF LaterAcquire
        <3>2. spent' \in Spendings /\ spent'.cache = spent.cache
            <4>1. Consumed(spent, b, result.doc) \in
                      [Budgets -> [documentCount : Nat, totalBytes : Nat]]
                BY <2>2, <3>1, ConsumedIsBudget DEF CacheIsTrue
            <4>2. [spent.accounted EXCEPT ![u] = @ \cup {b}] \in [Uris -> SUBSET Budgets]
                BY DEF CacheIsTrue, Spendings
            <4>3. spent' = [budget |-> Consumed(spent, b, result.doc),
                            cache |-> spent.cache,
                            accounted |-> [spent.accounted EXCEPT ![u] = @ \cup {b}]]
                BY <3>1 DEF CacheIsTrue, Spendings
            <4> QED BY <4>1, <4>2, <4>3 DEF CacheIsTrue, Spendings
        <3>3. CacheIsTrue'
            BY <3>2 DEF CacheIsTrue
        <3> QED BY <2>1, <2>2, <2>3, <3>1, <3>3
    <2> QED BY <2>4, <2>5
<1> QED BY <1>2, <1>3
-----------------------------------------------------------------------------
LEMMA WorldIsSane ==
    ASSUME world \in Worlds
    PROVE  /\ world.source \in [Uris -> Docs \cup {Unread}]
           /\ \A u \in Uris : world.source[u] # Unread =>
                 world.source[world.source[u]] = world.source[u]
           /\ world.parses \subseteq Docs
           /\ world.refs \in [Docs -> Seq(Targets)]
           /\ Docs \subseteq Uris /\ Entry \in Uris
BY GraphAssumption, AcquisitionAssumption

(* A URI that is found in the table is found under the URI it leads to.    *)
LEMMA CanonicalIsSource ==
    ASSUME world \in Worlds, TablesAreTrue, NEW u \in Uris,
           canonicalUri(u) \in documents
    PROVE  canonicalUri(u) = world.source[u]
BY GraphAssumption DEF TablesAreTrue, canonicalUri

(* The reference that comes next is one of a loaded document.              *)
LEMMA PendingIsReference ==
    ASSUME IInv, Walking
    PROVE  /\ Len(stack) \in Nat \ {0} /\ stack[Len(stack)] \in Frames
           /\ Top.doc \in documents /\ Top.doc \in Docs
           /\ Top.next \in 1 .. Len(world.refs[Top.doc])
           /\ Pending \in Targets
<1>1. Len(stack) \in Nat \ {0} /\ stack \in Seq(Frames)
    BY EmptySeq DEF IInv, StackIsOfDocuments, Walking
<1>2. stack[Len(stack)] \in Frames
    BY <1>1, ElementOfSeq
<1>3. Top.doc \in documents /\ Top.doc \in Docs /\ Top.next \in Nat /\ Top.next >= 1
    BY <1>1, <1>2 DEF IInv, StackIsOfDocuments, TablesAreTrue, Top, Frames
<1>4. world.refs[Top.doc] \in Seq(Targets)
    BY <1>3, WorldIsSane DEF IInv
<1>5. Top.next \in 1 .. Len(world.refs[Top.doc])
    BY <1>3, <1>4, LenProperties DEF Walking
<1> QED BY <1>1, <1>2, <1>3, <1>4, <1>5, ElementOfSeq DEF Pending

(* What Push does to the two sequences, element by element.                *)
LEMMA PushIsAppend ==
    ASSUME IInv, Walking, NEW resolved \in Docs \cup {Unread}, Push(resolved)
    PROVE  /\ stack' \in Seq(Frames) /\ Len(stack') = Len(stack)
           /\ \A p \in 1 .. Len(stack) :
                 /\ stack'[p].doc = stack[p].doc
                 /\ stack'[p].next = IF p = Len(stack) THEN stack[p].next + 1
                                     ELSE stack[p].next
           /\ references' \in Seq(Listings) /\ Len(references') = Len(references) + 1
           /\ \A k \in 1 .. Len(references) : references'[k] = references[k]
           /\ references'[Len(references) + 1] =
                 [doc |-> Top.doc, at |-> Top.next, resolved |-> resolved]
<1> DEFINE n == Len(stack)
           frame == [stack[n] EXCEPT !.next = @ + 1]
           listing == [doc |-> Top.doc, at |-> Top.next, resolved |-> resolved]
<1>1. n \in Nat \ {0} /\ stack[n] \in Frames /\ stack \in Seq(Frames)
    BY PendingIsReference DEF IInv, StackIsOfDocuments
<1>2. frame \in Frames /\ frame.doc = stack[n].doc /\ frame.next = stack[n].next + 1
    BY <1>1 DEF Frames
<1>3. stack' = [stack EXCEPT ![n] = frame]
    BY DEF Push
<1>4. /\ stack' \in Seq(Frames) /\ Len(stack') = n
      /\ \A p \in 1 .. n : stack'[p] = IF p = n THEN frame ELSE stack[p]
    <2>1. n \in 1 .. Len(stack)
        BY <1>1
    <2> HIDE DEF frame
    <2> QED BY <1>1, <1>2, <1>3, <2>1, ExceptSeq
<1>5. listing \in Listings
    BY PendingIsReference DEF Listings
<1>6. references \in Seq(Listings) /\ references' = Append(references, listing)
    BY DEF IInv, ListingsAreTrue, Push
<1> HIDE DEF listing, frame
<1>7. /\ references' \in Seq(Listings) /\ Len(references') = Len(references) + 1
      /\ \A k \in 1 .. Len(references) : references'[k] = references[k]
      /\ references'[Len(references) + 1] = listing
    BY <1>5, <1>6, AppendProperties
<1> QED BY <1>2, <1>4, <1>7 DEF listing

(* A reference may be pushed that points to a loaded document, or that has  *)
(* been reported.                                                          *)
LEMMA PushKeeps ==
    ASSUME IInv, Walking, NEW resolved \in Docs \cup {Unread}, Push(resolved),
           world' = world, phase' = phase, documents' = documents,
           diagnostics \subseteq diagnostics',
           diagnostics' = {} => /\ resolved # Unread
                                /\ Settled(Top.doc, Top.next),
           resolved # Unread => /\ resolved \in documents
                                /\ resolved = world.source[Pending.to]
    PROVE  /\ StackIsOfDocuments' /\ AllSettledOrAhead' /\ EntryIsLoaded'
           /\ ListingsAreTrue' /\ NoMoreThanReachable'
<1> DEFINE listing == [doc |-> Top.doc, at |-> Top.next, resolved |-> resolved]
<1>0. /\ stack' \in Seq(Frames) /\ Len(stack') = Len(stack)
      /\ \A p \in 1 .. Len(stack) :
            /\ stack'[p].doc = stack[p].doc
            /\ stack'[p].next = IF p = Len(stack) THEN stack[p].next + 1
                                ELSE stack[p].next
      /\ references' \in Seq(Listings) /\ Len(references') = Len(references) + 1
      /\ \A k \in 1 .. Len(references) : references'[k] = references[k]
      /\ references'[Len(references) + 1] = listing
    BY PushIsAppend
<1> USE <1>0
<1>1. StackIsOfDocuments'
    <2>1. stack' # <<>> /\ stack # <<>>
        BY PendingIsReference, EmptySeq
    <2>2. phase = "walk"
        BY DEF Walking
    <2>3. \A p \in 1 .. Len(stack') : stack'[p].doc \in documents' /\ stack'[p].next >= 1
        <3> SUFFICES ASSUME NEW p \in 1 .. Len(stack)
                     PROVE  stack'[p].doc \in documents /\ stack'[p].next >= 1
            OBVIOUS
        <3>1. stack[p] \in Frames
            BY ElementOfSeq DEF IInv, StackIsOfDocuments
        <3>2. stack[p].next \in Nat /\ stack[p].doc \in documents /\ stack[p].next >= 1
            BY <3>1 DEF IInv, StackIsOfDocuments, Frames
        <3> QED BY <3>2
    <2> QED BY <2>1, <2>2, <2>3 DEF StackIsOfDocuments
<1>2. AllSettledOrAhead'
    <2> SUFFICES ASSUME diagnostics' = {}, NEW d \in documents,
                        NEW i \in 1 .. Len(world.refs[d])
                 PROVE  Settled(d, i)' \/ Ahead(d, i)'
        BY DEF AllSettledOrAhead, Clean
    <2>1. Settled(d, i)' <=> Settled(d, i)
        BY DEF Settled
    <2>2. Settled(d, i) \/ Ahead(d, i)
        BY DEF IInv, AllSettledOrAhead, Clean
    <2>3. CASE Ahead(d, i)
        <3>1. PICK p \in 1 .. Len(stack) : stack[p].doc = d /\ i >= stack[p].next
            BY <2>3 DEF Ahead
        <3>2. CASE p # Len(stack)
            BY <3>1, <3>2 DEF Ahead
        <3>3. CASE p = Len(stack) /\ i = stack[p].next
            BY <2>1, <3>1, <3>3 DEF Top
        <3>4. CASE p = Len(stack) /\ i # stack[p].next
            <4>1. stack[p].next \in Nat
                BY <3>4, PendingIsReference DEF Frames
            <4>2. Len(stack') = Len(stack) /\ stack'[p].doc = d
                  /\ stack'[p].next = stack[p].next + 1
                BY <3>1, <3>4
            <4>3. i >= stack[p].next + 1
                BY <3>1, <3>4, <4>1
            <4> QED BY <4>2, <4>3 DEF Ahead
        <3> QED BY <3>2, <3>3, <3>4
    <2> QED BY <2>1, <2>2, <2>3
<1>3. EntryIsLoaded'
    BY DEF IInv, EntryIsLoaded, Clean
<1>4. ListingsAreTrue'
    <2> DEFINE IsTrue(r) ==
            IF r.resolved = Unread THEN diagnostics' # {}
            ELSE /\ r.resolved \in documents
                 /\ r.resolved = world.source[world.refs[r.doc][r.at].to]
    <2>1. IsTrue(listing)
        BY DEF Pending
    <2>2. \A k \in 1 .. Len(references) : IsTrue(references[k])
        BY DEF IInv, ListingsAreTrue, Clean
    <2> HIDE DEF listing, IsTrue
    <2>3. Len(references) \in Nat
        BY LenProperties DEF IInv, ListingsAreTrue
    <2>4. \A k \in 1 .. Len(references') : IsTrue(references'[k])
        BY <2>1, <2>2, <2>3
    <2> QED BY <2>4 DEF ListingsAreTrue, Clean, IsTrue
<1>5. NoMoreThanReachable'
    BY DEF IInv, NoMoreThanReachable, Closed
<1> QED BY <1>1, <1>2, <1>3, <1>4, <1>5
-----------------------------------------------------------------------------
(* The references that acquire nothing.                                    *)
LEMMA InvalidKeeps ==
    ASSUME IInv, InvalidReference
    PROVE  IInv'
<1>1. diagnostics' # {} /\ diagnostics \subseteq diagnostics'
    BY DEF InvalidReference
<1>2. Walking /\ Push(Unread) /\ UNCHANGED <<world, spent, phase, tables>>
    BY DEF InvalidReference
<1>3. /\ StackIsOfDocuments' /\ AllSettledOrAhead' /\ EntryIsLoaded'
      /\ ListingsAreTrue' /\ NoMoreThanReachable'
    BY <1>1, <1>2, PushKeeps DEF tables
<1>4. (world \in Worlds)' /\ CacheIsTrue' /\ TablesAreTrue'
    BY <1>2 DEF IInv, CacheIsTrue, TablesAreTrue, tables
<1>5. TriesLoad'
    BY <1>1 DEF TriesLoad, Clean
<1> QED BY <1>3, <1>4, <1>5 DEF IInv

LEMMA LoadedKeeps ==
    ASSUME IInv, LoadedReference
    PROVE  IInv'
<1> DEFINE resolved == IF Pending.found THEN canonicalUri(Pending.to) ELSE Unread
<1>1. /\ Walking /\ Push(resolved) /\ UNCHANGED <<world, spent, phase, tables>>
      /\ diagnostics \subseteq diagnostics'
      /\ diagnostics' = {} => Pending.found
    BY DEF LoadedReference
<1>2. Pending.to \in Uris
    BY <1>1, PendingIsReference DEF LoadedReference, Targets
<1>3. canonicalUri(Pending.to) = world.source[Pending.to]
    BY <1>2, CanonicalIsSource DEF IInv, LoadedReference
<1>4. canonicalUri(Pending.to) \in documents /\ canonicalUri(Pending.to) \in Docs
    BY DEF LoadedReference, IInv, TablesAreTrue
<1>5. Settled(Top.doc, Top.next)
    BY <1>2, <1>3, <1>4 DEF Settled, Pending
<1>6. /\ resolved \in Docs \cup {Unread}
      /\ diagnostics' = {} => resolved # Unread
      /\ resolved # Unread => /\ resolved \in documents
                              /\ resolved = world.source[Pending.to]
    BY <1>1, <1>3, <1>4, GraphAssumption
<1> HIDE DEF resolved
<1>7. /\ StackIsOfDocuments' /\ AllSettledOrAhead' /\ EntryIsLoaded'
      /\ ListingsAreTrue' /\ NoMoreThanReachable'
    BY <1>1, <1>5, <1>6, PushKeeps DEF tables
<1>8. (world \in Worlds)' /\ CacheIsTrue' /\ TablesAreTrue'
    BY <1>1 DEF IInv, CacheIsTrue, TablesAreTrue, tables
<1>9. TriesLoad'
    BY <1>1 DEF IInv, TriesLoad, Clean, canonicalUri, tables
<1> QED BY <1>7, <1>8, <1>9 DEF IInv

(* What was given up had been reported: as long as nothing is, each attempt *)
(* has led to a document.                                                  *)
LEMMA GivenUpKeeps ==
    ASSUME IInv, GivenUpReference
    PROVE  IInv'
<1>1. Walking /\ Push(Unread) /\ UNCHANGED <<world, spent, phase, tables, diagnostics>>
    BY DEF GivenUpReference, NotLoaded
<1>2. diagnostics' # {}
    BY <1>1 DEF IInv, TriesLoad, Clean, GivenUpReference, NotLoaded
<1>3. /\ StackIsOfDocuments' /\ AllSettledOrAhead' /\ EntryIsLoaded'
      /\ ListingsAreTrue' /\ NoMoreThanReachable'
    BY <1>1, <1>2, PushKeeps DEF tables
<1>4. (world \in Worlds)' /\ CacheIsTrue' /\ TablesAreTrue' /\ TriesLoad'
    BY <1>1, <1>2 DEF IInv, CacheIsTrue, TablesAreTrue, TriesLoad, Clean, tables
<1> QED BY <1>3, <1>4 DEF IInv

LEMMA UnlocatedKeeps ==
    ASSUME IInv, UnlocatedReference
    PROVE  IInv'
<1>1. /\ Walking /\ Push(Unread)
      /\ UNCHANGED <<world, spent, phase, documents, aliases>>
      /\ diagnostics' # {} /\ diagnostics \subseteq diagnostics'
    BY DEF UnlocatedReference, Untried, NotLoaded
<1>2. /\ StackIsOfDocuments' /\ AllSettledOrAhead' /\ EntryIsLoaded'
      /\ ListingsAreTrue' /\ NoMoreThanReachable'
    BY <1>1, PushKeeps
<1>3. (world \in Worlds)' /\ CacheIsTrue' /\ TablesAreTrue' /\ TriesLoad'
    BY <1>1 DEF IInv, CacheIsTrue, TablesAreTrue, TriesLoad, Clean
<1> QED BY <1>2, <1>3 DEF IInv
-----------------------------------------------------------------------------
(* What acquireDocument does to the tables.                                *)
LEMMA AcquiredTables ==
    ASSUME IInv, NEW u \in Uris, NEW result \in Results, NEW requested,
           HasSource(result) => result.doc = world.source[u] /\ result.doc \in Docs,
           acquireDocument(u, result, requested), world' = world
    PROVE  /\ TablesAreTrue' /\ documents \subseteq documents'
           /\ \A d \in documents' \ documents :
                 HasSource(result) /\ d = result.doc /\ d = world.source[u] /\ d \in Docs
           /\ Complaints(result) = {} =>
                 /\ HasSource(result) /\ result.doc \in documents'
                 /\ failedDocuments' = failedDocuments
                 /\ u \in requested => canonicalUri(u)' \in documents'
                 /\ \A v \in Uris : v # u => canonicalUri(v)' = canonicalUri(v)
<1> USE DEF acquireDocument
<1>1. /\ documents \subseteq documents'
      /\ \A d \in documents' \ documents :
            HasSource(result) /\ d = result.doc /\ d = world.source[u] /\ d \in Docs
    BY DEF New
<1>2. \A v \in Uris : aliases'[v] =
          IF v = u /\ HasSource(result) /\ u \in requested /\ u # result.doc
          THEN result.doc ELSE aliases[v]
    BY DEF IInv, TablesAreTrue
<1>3. TablesAreTrue'
    <2>1. documents' \subseteq Docs /\ \A d \in documents' : world.source[d] = d
        BY <1>1, WorldIsSane, GraphAssumption DEF IInv, TablesAreTrue
    <2>2. aliases' \in [Uris -> Docs \cup {Unread}]
        BY DEF IInv, TablesAreTrue
    <2>3. \A v \in Uris : aliases'[v] \in {Unread, world.source[v]}
        BY <1>2 DEF IInv, TablesAreTrue
    <2> QED BY <2>1, <2>2, <2>3 DEF TablesAreTrue
<1>4. ASSUME Complaints(result) = {}
      PROVE  /\ HasSource(result) /\ result.doc \in documents'
             /\ failedDocuments' = failedDocuments
    BY <1>4 DEF Complaints, New
<1>5. ASSUME Complaints(result) = {}, u \in requested
      PROVE  canonicalUri(u)' \in documents'
    <2>1. CASE u # result.doc
        BY <1>2, <1>4, <1>5, <2>1, GraphAssumption DEF canonicalUri
    <2>2. CASE u = result.doc
        <3>1. aliases'[u] \in {Unread, u}
            BY <1>2, <1>4, <1>5, <2>2 DEF IInv, TablesAreTrue
        <3> QED BY <1>4, <1>5, <2>2, <3>1 DEF canonicalUri
    <2> QED BY <2>1, <2>2
<1>6. \A v \in Uris : v # u => canonicalUri(v)' = canonicalUri(v)
    BY <1>2 DEF canonicalUri
<1> QED BY <1>1, <1>3, <1>4, <1>5, <1>6

(* A walk of a new document: all of its references are still ahead.        *)
LEMMA NewWalkKeeps ==
    ASSUME IInv, NEW doc \in Docs, NEW depth \in Nat,
           stack' = Append(stack, Walk(doc, depth)),
           documents' = documents \cup {doc},
           world' = world, references' = references, diagnostics \subseteq diagnostics',
           phase' = "walk", diagnostics' = {} => world.source[Entry] \in documents',
           \A S \in SUBSET Docs :
               world.source[Entry] \in S /\ Closed(S) /\ documents \subseteq S => doc \in S
    PROVE  /\ StackIsOfDocuments' /\ AllSettledOrAhead' /\ EntryIsLoaded'
           /\ ListingsAreTrue' /\ NoMoreThanReachable'
<1> DEFINE walk == Walk(doc, depth)
<1>1. walk \in Frames /\ walk.doc = doc /\ walk.next = 1
    BY DEF Walk, Frames
<1>2. stack \in Seq(Frames) /\ Len(stack) \in Nat
    BY LenProperties DEF IInv, StackIsOfDocuments
<1> HIDE DEF walk
<1>3. /\ stack' \in Seq(Frames) /\ stack' # <<>> /\ Len(stack') = Len(stack) + 1
      /\ \A p \in 1 .. Len(stack) : stack'[p] = stack[p]
      /\ stack'[Len(stack) + 1] = walk
    <2>1. stack' = Append(stack, walk)
        BY DEF walk
    <2> QED BY <1>1, <1>2, <2>1, AppendProperties
<1>4. StackIsOfDocuments'
    <2>1. \A p \in 1 .. Len(stack') : stack'[p].doc \in documents' /\ stack'[p].next >= 1
        <3> SUFFICES ASSUME NEW p \in 1 .. Len(stack')
                     PROVE  stack'[p].doc \in documents' /\ stack'[p].next >= 1
            OBVIOUS
        <3>1. CASE p \in 1 .. Len(stack)
            BY <1>3, <3>1 DEF IInv, StackIsOfDocuments
        <3>2. CASE p = Len(stack) + 1
            BY <1>1, <1>3, <3>2
        <3> QED BY <1>2, <1>3, <3>1, <3>2
    <2> QED BY <1>3, <2>1 DEF StackIsOfDocuments
<1>5. AllSettledOrAhead'
    <2> SUFFICES ASSUME diagnostics' = {}, NEW d \in documents',
                        NEW i \in 1 .. Len(world.refs[d])
                 PROVE  Settled(d, i)' \/ Ahead(d, i)'
        BY DEF AllSettledOrAhead, Clean
    <2>1. CASE d \in documents
        <3>1. Settled(d, i) \/ Ahead(d, i)
            BY <2>1 DEF IInv, AllSettledOrAhead, Clean
        <3>2. Settled(d, i) => Settled(d, i)'
            BY DEF Settled
        <3>3. Ahead(d, i) => Ahead(d, i)'
            BY <1>2, <1>3 DEF Ahead
        <3> QED BY <3>1, <3>2, <3>3
    <2>2. CASE d = doc
        <3>1. stack'[Len(stack')].doc = d /\ i >= stack'[Len(stack')].next
            BY <1>1, <1>2, <1>3, <2>2
        <3> QED BY <1>2, <1>3, <3>1 DEF Ahead
    <2> QED BY <2>1, <2>2
<1>6. EntryIsLoaded'
    BY DEF EntryIsLoaded, Clean
<1>7. ListingsAreTrue'
    BY DEF IInv, ListingsAreTrue, Clean
<1>8. NoMoreThanReachable'
    BY DEF IInv, NoMoreThanReachable, Closed
<1> QED BY <1>4, <1>5, <1>6, <1>7, <1>8

LEMMA AcquireKeeps ==
    ASSUME IInv, AcquireReference
    PROVE  IInv'
<1> DEFINE to == Pending.to
           result == acquired(to, Top.depth + 1).result
           isNew == New(result) \cap world.parses # {}
           known == HasSource(result) /\ result.doc \in documents
           resolved == IF known /\ Pending.found THEN result.doc ELSE Unread
<1>1. /\ Walking /\ to # Invalid
      /\ world' = world /\ phase' = phase
      /\ spent' = acquired(to, Top.depth + 1).spent
      /\ acquireDocument(to, result, {to})
      /\ attemptedDocuments' = attemptedDocuments \cup {to}
    BY DEF AcquireReference, Untried, NotLoaded
<1>2. /\ diagnostics' = diagnostics \cup Complaints(result)
            \cup (IF known /\ ~Pending.found THEN {"missing"} ELSE {})
      /\ isNew => /\ stack' = Append(stack, Walk(result.doc, Top.depth + 1))
                  /\ references' = references
      /\ ~isNew => Push(resolved)
    BY DEF AcquireReference
<1>3. /\ Pending \in Targets /\ to \in Uris /\ "walk" \in Budgets
      /\ Top.depth \in Nat /\ Top.doc \in documents /\ Top.doc \in Docs
      /\ Top.next \in 1 .. Len(world.refs[Top.doc])
    <2>1. /\ stack[Len(stack)] \in Frames /\ Pending \in Targets
          /\ Top.doc \in documents /\ Top.doc \in Docs
          /\ Top.next \in 1 .. Len(world.refs[Top.doc])
        BY <1>1, PendingIsReference
    <2>2. to \in Uris
        BY <1>1, <2>1 DEF Targets
    <2>3. Top.depth \in Nat
        BY <2>1 DEF Frames, Top
    <2> QED BY <2>1, <2>2, <2>3, GraphAssumption
<1>4. /\ CacheIsTrue' /\ result \in Results
      /\ HasSource(result) => result.doc = world.source[to] /\ result.doc \in Docs
    <2> DEFINE a == acquire(spent, to, "walk", world.source[to], Top.depth + 1)
    <2>1. acquired(to, Top.depth + 1) = a
        BY DEF acquired
    <2>2. world \in Worlds /\ CacheIsTrue
        BY DEF IInv
    <2>3. spent' = a.spent /\ world' = world
        BY <1>1, <2>1
    <2> HIDE DEF to
    <2>4. /\ CacheIsTrue' /\ a.result \in Results
          /\ HasSource(a.result) => a.result.doc = world.source[to] /\ a.result.doc \in Docs
        BY <1>3, <2>2, <2>3, AcquireIsTrue
    <2> QED BY <2>1, <2>4
<1> HIDE DEF result, to
<1>u. PICK u \in Uris : u = to
    BY <1>3
<1>5. /\ TablesAreTrue' /\ documents \subseteq documents'
      /\ \A d \in documents' \ documents :
            HasSource(result) /\ d = result.doc /\ d = world.source[to] /\ d \in Docs
      /\ Complaints(result) = {} =>
            /\ HasSource(result) /\ result.doc \in documents'
            /\ failedDocuments' = failedDocuments
            /\ canonicalUri(u)' \in documents'
            /\ \A v \in Uris : v # u => canonicalUri(v)' = canonicalUri(v)
    BY <1>1, <1>3, <1>4, <1>u, AcquiredTables
<1>6. (world \in Worlds)'
    BY <1>1 DEF IInv
<1>7. TriesLoad'
    BY <1>1, <1>2, <1>u, <1>5 DEF IInv, TriesLoad, Clean
<1>8. /\ StackIsOfDocuments' /\ AllSettledOrAhead' /\ EntryIsLoaded'
      /\ ListingsAreTrue' /\ NoMoreThanReachable'
    <2>1. CASE isNew
        <3>1. HasSource(result) /\ documents' = documents \cup {result.doc}
            BY <1>1, <2>1 DEF acquireDocument, New
        <3>2. phase' = "walk" /\ Top.depth + 1 \in Nat
            BY <1>1, <1>3 DEF Walking
        <3>3. diagnostics' = {} => world.source[Entry] \in documents'
            BY <1>1, <1>2, <3>1 DEF IInv, EntryIsLoaded, Clean, Walking
        <3>4. \A S \in SUBSET Docs :
                  world.source[Entry] \in S /\ Closed(S) /\ documents \subseteq S
                      => result.doc \in S
            BY <1>3, <1>4, <3>1 DEF Closed, Pending, to
        <3> QED BY <1>1, <1>2, <1>4, <2>1, <3>1, <3>2, <3>3, <3>4, NewWalkKeeps
    <2>2. CASE ~isNew
        <3>1. documents' = documents
            BY <1>1, <2>2 DEF acquireDocument
        <3>2. diagnostics' = {} => known /\ Pending.found
            BY <1>2, <1>5, <3>1
        <3>3. known => Settled(Top.doc, Top.next) /\ result.doc # Unread
            BY <1>3, <1>4, GraphAssumption DEF Settled, Pending, to
        <3>4. /\ resolved \in Docs \cup {Unread} /\ Push(resolved)
              /\ resolved # Unread => /\ resolved \in documents
                                      /\ resolved = world.source[to]
            BY <1>2, <1>4, <2>2
        <3>5. /\ diagnostics \subseteq diagnostics'
              /\ diagnostics' = {} => /\ resolved # Unread
                                      /\ Settled(Top.doc, Top.next)
            BY <1>2, <3>2, <3>3
        <3> HIDE DEF resolved
        <3> QED BY <1>1, <3>1, <3>4, <3>5, PushKeeps DEF to
    <2> QED BY <2>1, <2>2
<1> QED BY <1>4, <1>5, <1>6, <1>7, <1>8 DEF IInv
-----------------------------------------------------------------------------
(* Before the walk.                                                        *)
LEMMA ProbeKeeps ==
    ASSUME IInv, Probe
    PROVE  IInv'
<1> DEFINE a == acquire(spent, Entry, "probe", world.source[Entry], 0)
<1>1. /\ phase = "probe" /\ spent' = a.spent /\ world' = world
      /\ UNCHANGED <<stack, tables, references>>
      /\ \/ phase' = "entry" /\ diagnostics' = diagnostics
         \/ phase' = "done" /\ diagnostics' # {}
    <2> HIDE DEF a
    <2>1. /\ phase = "probe" /\ spent' = a.spent
          /\ IF HasSource(a.result)
             THEN phase' = "entry" /\ UNCHANGED diagnostics
             ELSE phase' = "done" /\ diagnostics' = {a.result.why}
          /\ UNCHANGED <<world, stack, tables, references>>
        BY DEF Probe, a
    <2> QED BY <2>1
<1>2. stack = <<>> /\ documents = {} /\ references = <<>>
    BY <1>1 DEF IInv, StackIsOfDocuments
<1>3. CacheIsTrue'
    <2>1. world \in Worlds /\ CacheIsTrue /\ Entry \in Uris /\ "probe" \in Budgets
        BY GraphAssumption DEF IInv
    <2> QED BY <1>1, <2>1, AcquireIsTrue
<1>4. (world \in Worlds)' /\ TablesAreTrue'
    BY <1>1 DEF IInv, TablesAreTrue, tables
<1>5. StackIsOfDocuments'
    BY <1>1, <1>2 DEF IInv, StackIsOfDocuments, tables
<1>6. TriesLoad' /\ EntryIsLoaded'
    BY <1>1 DEF IInv, TriesLoad, EntryIsLoaded, Clean, canonicalUri, tables
<1>7. AllSettledOrAhead' /\ NoMoreThanReachable'
    BY <1>1, <1>2 DEF AllSettledOrAhead, NoMoreThanReachable, tables
<1>8. ListingsAreTrue'
    BY <1>1, <1>2 DEF IInv, ListingsAreTrue
<1> QED BY <1>3, <1>4, <1>5, <1>6, <1>7, <1>8 DEF IInv

LEMMA EntryKeeps ==
    ASSUME IInv, AcquireEntry
    PROVE  IInv'
<1> DEFINE result == acquired(Entry, 0).result
<1>1. /\ phase = "entry" /\ world' = world /\ spent' = acquired(Entry, 0).spent
      /\ acquireDocument(Entry, result, {})
      /\ diagnostics' = diagnostics \cup Complaints(result)
      /\ attemptedDocuments' = attemptedDocuments /\ references' = references
      /\ IF documents' = {}
         THEN phase' = "done" /\ UNCHANGED stack
         ELSE phase' = "walk" /\ stack' = <<Walk(result.doc, 0)>>
    BY DEF AcquireEntry
<1>2. stack = <<>> /\ documents = {} /\ references = <<>>
    BY <1>1 DEF IInv, StackIsOfDocuments
<1>3. /\ CacheIsTrue' /\ result \in Results
      /\ HasSource(result) => result.doc = world.source[Entry] /\ result.doc \in Docs
    <2>1. world \in Worlds /\ CacheIsTrue /\ Entry \in Uris /\ "walk" \in Budgets
        BY GraphAssumption DEF IInv
    <2> QED BY <1>1, <2>1, AcquireIsTrue DEF acquired
<1> HIDE DEF result
<1>4. /\ TablesAreTrue'
      /\ \A d \in documents' \ documents :
            HasSource(result) /\ d = result.doc /\ d = world.source[Entry] /\ d \in Docs
      /\ Complaints(result) = {} =>
            /\ HasSource(result) /\ result.doc \in documents'
            /\ failedDocuments' = failedDocuments
    BY <1>1, <1>3, AcquiredTables, GraphAssumption
<1>5. (world \in Worlds)' /\ ListingsAreTrue'
    BY <1>1, <1>2 DEF IInv, ListingsAreTrue
<1>6. TriesLoad'
    <2>1. aliases' = aliases
        BY <1>1 DEF acquireDocument
    <2> QED BY <1>1, <1>2, <1>4, <2>1 DEF IInv, TriesLoad, Clean, canonicalUri
<1>7. CASE documents' = {}
    <2>1. StackIsOfDocuments'
        BY <1>1, <1>2, <1>7 DEF IInv, StackIsOfDocuments
    <2>2. EntryIsLoaded'
        BY <1>1, <1>4, <1>7 DEF EntryIsLoaded, Clean
    <2>3. AllSettledOrAhead' /\ NoMoreThanReachable'
        BY <1>7 DEF AllSettledOrAhead, NoMoreThanReachable
    <2> QED BY <1>3, <1>4, <1>5, <1>6, <2>1, <2>2, <2>3 DEF IInv
<1>8. CASE documents' # {}
    <2>1. /\ result.doc = world.source[Entry] /\ result.doc \in Docs
          /\ documents' = documents \cup {result.doc}
        BY <1>2, <1>4, <1>8
    <2>2. stack' = Append(stack, Walk(result.doc, 0)) /\ phase' = "walk"
        BY <1>1, <1>2, <1>8
    <2>3. /\ StackIsOfDocuments' /\ AllSettledOrAhead' /\ EntryIsLoaded'
          /\ ListingsAreTrue' /\ NoMoreThanReachable'
        BY <1>1, <2>1, <2>2, NewWalkKeeps
    <2> QED BY <1>3, <1>4, <1>5, <1>6, <2>3 DEF IInv
<1> QED BY <1>7, <1>8

(* The walk that ends is taken off the stack.                              *)
LEMMA WalkEndsIsPop ==
    ASSUME IInv, WalkEnds
    PROVE  /\ stack \in Seq(Frames) /\ Len(stack) \in Nat \ {0}
           /\ \A p \in 1 .. Len(stack) : stack[p] \in Frames
           /\ stack' \in Seq(Frames) /\ Len(stack') = Len(stack) - 1
           /\ \A p \in 1 .. Len(stack) - 1 : stack'[p] = stack[p]
<1> DEFINE n == Len(stack)
<1>1. phase = "walk" /\ stack' = SubSeq(stack, 1, n - 1)
    BY DEF WalkEnds
<1>2. stack \in Seq(Frames) /\ n \in Nat \ {0}
    BY <1>1, EmptySeq DEF IInv, StackIsOfDocuments
<1>3. \A p \in 1 .. n : stack[p] \in Frames
    BY <1>2, ElementOfSeq
<1>4. /\ stack' \in Seq(Frames) /\ Len(stack') = n - 1
      /\ \A p \in 1 .. n - 1 : stack'[p] = stack[p]
    <2>1. \A p \in 1 .. n - 1 : stack[p] \in Frames
        BY <1>2, <1>3
    <2>2. 1 \in Int /\ n - 1 \in Int
        BY <1>2
    <2> DEFINE s == SubSeq(stack, 1, n - 1)
    <2>3. /\ s \in Seq(Frames)
          /\ Len(s) = IF 1 <= n - 1 THEN (n - 1) - 1 + 1 ELSE 0
          /\ \A p \in 1 .. (n - 1) - 1 + 1 : s[p] = stack[1 + p - 1]
        BY <2>1, <2>2, SubSeqProperties
    <2>4. stack' = s
        BY <1>1
    <2> HIDE DEF s, n
    <2>5. Len(s) = n - 1
        BY <1>2, <2>3
    <2>6. ASSUME NEW p \in 1 .. n - 1
          PROVE  s[p] = stack[p]
        <3>1. p \in 1 .. (n - 1) - 1 + 1 /\ 1 + p - 1 = p
            BY <1>2
        <3> QED BY <2>3, <3>1
    <2> QED BY <2>3, <2>4, <2>5, <2>6
<1> QED BY <1>2, <1>3, <1>4

(* A walk ends when none of its references is ahead of it.                 *)
LEMMA WalkEndsKeeps ==
    ASSUME IInv, WalkEnds
    PROVE  IInv'
<1> DEFINE n == Len(stack)
<1>1. /\ phase = "walk" /\ Top.next > Len(world.refs[Top.doc])
      /\ stack' = SubSeq(stack, 1, n - 1)
      /\ phase' = IF n = 1 THEN "done" ELSE "walk"
      /\ UNCHANGED <<world, spent, tables, references, diagnostics>>
    BY DEF WalkEnds
<1>2. /\ stack \in Seq(Frames) /\ n \in Nat \ {0}
      /\ \A p \in 1 .. n : stack[p] \in Frames
      /\ stack' \in Seq(Frames) /\ Len(stack') = n - 1
      /\ \A p \in 1 .. n - 1 : stack'[p] = stack[p]
    BY WalkEndsIsPop
<1>3. StackIsOfDocuments'
    <2>1. \A p \in 1 .. Len(stack') : stack'[p].doc \in documents' /\ stack'[p].next >= 1
        BY <1>1, <1>2 DEF IInv, StackIsOfDocuments, tables
    <2>2. phase' = "walk" <=> stack' # <<>>
        <3>1. stack' = <<>> <=> Len(stack') = 0
            BY EmptySeq
        <3> QED BY <1>1, <1>2, <3>1
    <2>3. phase' \notin {"probe", "entry"}
        BY <1>1
    <2> QED BY <1>2, <2>1, <2>2, <2>3 DEF StackIsOfDocuments
<1>4. AllSettledOrAhead'
    <2> SUFFICES ASSUME diagnostics' = {}, NEW d \in documents,
                        NEW i \in 1 .. Len(world.refs[d])
                 PROVE  Settled(d, i)' \/ Ahead(d, i)'
        BY <1>1 DEF AllSettledOrAhead, Clean, tables
    <2>1. Settled(d, i) \/ Ahead(d, i)
        BY <1>1 DEF IInv, AllSettledOrAhead, Clean
    <2>2. Settled(d, i) => Settled(d, i)'
        BY <1>1 DEF Settled, tables
    <2>3. Ahead(d, i) => Ahead(d, i)'
        <3> SUFFICES ASSUME NEW p \in 1 .. n, stack[p].doc = d, i >= stack[p].next
                     PROVE  Ahead(d, i)'
            BY DEF Ahead
        <3>1. p # n
            <4>1. Len(world.refs[d]) \in Nat
                BY WorldIsSane, LenProperties DEF IInv, TablesAreTrue
            <4>2. stack[p].next \in Nat
                BY <1>2 DEF Frames
            <4> QED BY <1>1, <4>1, <4>2 DEF Top
        <3> QED BY <1>2, <3>1 DEF Ahead
    <2> QED BY <2>1, <2>2, <2>3
<1>5. (world \in Worlds)' /\ CacheIsTrue' /\ TablesAreTrue'
    BY <1>1 DEF IInv, CacheIsTrue, TablesAreTrue, tables
<1>6. TriesLoad' /\ EntryIsLoaded'
    BY <1>1 DEF IInv, TriesLoad, EntryIsLoaded, Clean, canonicalUri, tables
<1>7. ListingsAreTrue' /\ NoMoreThanReachable'
    BY <1>1 DEF IInv, ListingsAreTrue, NoMoreThanReachable, Closed, Clean, tables
<1> QED BY <1>3, <1>4, <1>5, <1>6, <1>7 DEF IInv
-----------------------------------------------------------------------------
LEMMA InitIsTrue ==
    ASSUME Init
    PROVE  IInv
<1>1. CacheIsTrue
    <2>1. NothingSpent \in Spendings
        <3>1. [documentCount |-> 0, totalBytes |-> 0] \in [documentCount : Nat, totalBytes : Nat]
            OBVIOUS
        <3>2. [b \in Budgets |-> [documentCount |-> 0, totalBytes |-> 0]]
                  \in [Budgets -> [documentCount : Nat, totalBytes : Nat]]
            BY <3>1
        <3>3. /\ [u \in Uris |-> Unread] \in [Uris -> Results \cup {Unread}]
              /\ [u \in Uris |-> {}] \in [Uris -> SUBSET Budgets]
            OBVIOUS
        <3> QED BY <3>2, <3>3 DEF NothingSpent, Spendings
    <2>2. \A u \in Uris : NothingSpent.cache[u] = Unread
        BY DEF NothingSpent
    <2> QED BY <2>1, <2>2 DEF Init, CacheIsTrue
<1>2. TablesAreTrue
    BY DEF Init, TablesAreTrue
<1>3. StackIsOfDocuments
    BY EmptySeq DEF Init, StackIsOfDocuments
<1>4. TriesLoad /\ AllSettledOrAhead /\ EntryIsLoaded /\ NoMoreThanReachable
    BY DEF Init, TriesLoad, AllSettledOrAhead, EntryIsLoaded, NoMoreThanReachable
<1>5. ListingsAreTrue
    BY EmptySeq DEF Init, ListingsAreTrue
<1> QED BY <1>1, <1>2, <1>3, <1>4, <1>5 DEF Init, IInv

LEMMA StutterKeeps ==
    ASSUME IInv, UNCHANGED vars
    PROVE  IInv'
<1> USE DEF vars, tables
<1>1. (world \in Worlds)' /\ CacheIsTrue' /\ TablesAreTrue' /\ StackIsOfDocuments'
    BY DEF IInv, CacheIsTrue, TablesAreTrue, StackIsOfDocuments
<1>2. TriesLoad' /\ EntryIsLoaded' /\ ListingsAreTrue' /\ NoMoreThanReachable'
    BY DEF IInv, TriesLoad, EntryIsLoaded, ListingsAreTrue, NoMoreThanReachable,
           Clean, canonicalUri, Closed
<1>3. AllSettledOrAhead'
    BY DEF IInv, AllSettledOrAhead, Settled, Ahead, Clean
<1> QED BY <1>1, <1>2, <1>3 DEF IInv

LEMMA InvariantHolds == Spec => []IInv
<1>1. ASSUME IInv, [Next]_vars
      PROVE  IInv'
    BY <1>1, ProbeKeeps, EntryKeeps, InvalidKeeps, LoadedKeeps, GivenUpKeeps,
       UnlocatedKeeps, AcquireKeeps, WalkEndsKeeps, StutterKeeps DEF Next
<1> QED BY <1>1, InitIsTrue, PTL DEF Spec

(* A graph without a diagnostic is exactly what the entry leads to.        *)
THEOREM CompleteGraph == Spec => []CompleteWhenClean
<1>1. ASSUME IInv
      PROVE  CompleteWhenClean
    <2> SUFFICES ASSUME phase = "done", diagnostics = {}
                 PROVE  /\ world.source[Entry] \in documents /\ Closed(documents)
                        /\ \A S \in SUBSET Docs :
                              world.source[Entry] \in S /\ Closed(S) => documents \subseteq S
        BY DEF CompleteWhenClean
    <2>1. Len(stack) = 0
        BY <1>1, EmptySeq DEF IInv, StackIsOfDocuments
    <2>2. \A d \in documents : \A i \in 1 .. Len(world.refs[d]) : Settled(d, i)
        BY <1>1, <2>1 DEF IInv, AllSettledOrAhead, Ahead, Clean
    <2>3. Closed(documents)
        BY <2>2 DEF Closed, Settled
    <2> QED BY <1>1, <2>3 DEF IInv, EntryIsLoaded, NoMoreThanReachable, Clean
<1> QED BY <1>1, InvariantHolds, PTL

(* Nothing is left unresolved without a diagnostic.                        *)
THEOREM NoSilentLoss == Spec => []NothingSilent
<1>1. ASSUME IInv
      PROVE  NothingSilent
    <2>1. references \in Seq(Listings) /\ DOMAIN references = 1 .. Len(references)
        BY <1>1, LenProperties DEF IInv, ListingsAreTrue
    <2> QED BY <1>1, <2>1 DEF NothingSilent, IInv, ListingsAreTrue, EntryIsLoaded, Clean
<1> QED BY <1>1, InvariantHolds, PTL

(* A resolved reference points to the loaded document its URI leads to.    *)
THEOREM ResolvedTruly == Spec => []ResolvedIsRight
<1>1. ASSUME IInv
      PROVE  ResolvedIsRight
    <2>1. references \in Seq(Listings) /\ DOMAIN references = 1 .. Len(references)
        BY <1>1, LenProperties DEF IInv, ListingsAreTrue
    <2> QED BY <1>1, <2>1 DEF ResolvedIsRight, IInv, ListingsAreTrue
<1> QED BY <1>1, InvariantHolds, PTL
-----------------------------------------------------------------------------
(***************************************************************************)
(* The tables, the list of references and the budget.  A reference of a    *)
(* loaded document is ahead of a walk or it is listed, never both, and no  *)
(* two walks are of one document.  A document is loaded exactly when the   *)
(* walk's budget has paid for a location that leads to it and it parses;   *)
(* so a document that is walked anew has been paid for anew, and with that *)
(* its depth has been looked at.                                           *)
(***************************************************************************)
Paid == {u \in Uris : HasSource(spent.cache[u]) /\ "walk" \in spent.accounted[u]}

BudgetsKept ==
    \A b \in Budgets : /\ spent.budget[b].documentCount <= MaxDocuments
                       /\ spent.budget[b].totalBytes <= MaxTotalBytes

UnreadIsUnpaid == \A u \in Uris : spent.cache[u] = Unread => spent.accounted[u] = {}

PaidOnce == spent.budget["walk"].documentCount = Cardinality(Paid)

LoadedIsPaid == \A d \in documents : \E u \in Paid : spent.cache[u].doc = d

PaidIsLoaded ==
    \A u \in Paid : spent.cache[u].doc \in world.parses => spent.cache[u].doc \in documents

TablesAreTyped ==
    /\ phase \in {"probe", "entry", "walk", "done"}
    /\ documents \subseteq world.parses
    /\ attemptedDocuments \subseteq Uris /\ failedDocuments \subseteq Uris
    /\ diagnostics \subseteq Reasons

WalksAreBounded ==
    \A p \in 1 .. Len(stack) :
        /\ stack[p].next <= Len(world.refs[stack[p].doc]) + 1
        /\ stack[p].depth <= MaxReferenceDepth

WalksAreApart ==
    \A p, q \in 1 .. Len(stack) : stack[p].doc = stack[q].doc => p = q

Listed(d, i) ==
    \E k \in 1 .. Len(references) : references[k].doc = d /\ references[k].at = i

AheadOrListed ==
    \A d \in documents : \A i \in 1 .. Len(world.refs[d]) : Ahead(d, i) \/ Listed(d, i)

ListedIsBehind ==
    \A k \in 1 .. Len(references) :
        \E d \in documents : \E i \in 1 .. Len(world.refs[d]) :
            references[k].doc = d /\ references[k].at = i /\ ~Ahead(d, i)

ListedApart ==
    \A k, l \in 1 .. Len(references) :
        references[k].doc = references[l].doc /\ references[k].at = references[l].at
            => k = l

BudgetAgrees ==
    BudgetsKept /\ UnreadIsUnpaid /\ PaidOnce /\ LoadedIsPaid /\ PaidIsLoaded

ListAgrees ==
    /\ WalksAreBounded /\ WalksAreApart
    /\ AheadOrListed /\ ListedIsBehind /\ ListedApart

TablesInv == TablesAreTyped /\ BudgetAgrees /\ ListAgrees
-----------------------------------------------------------------------------
LEMMA OverdraftMeans ==
    ASSUME NEW budget \in [documentCount : Nat, totalBytes : Nat], NEW doc \in Docs,
           Overdraft(budget, doc) = "none"
    PROVE  /\ budget.documentCount + 1 <= MaxDocuments
           /\ budget.totalBytes + Bytes[doc] <= MaxTotalBytes
<1>1. /\ budget.documentCount \in Nat /\ budget.totalBytes \in Nat
      /\ Bytes[doc] \in Nat /\ MaxDocuments \in Nat /\ MaxTotalBytes \in Nat
    BY AcquisitionAssumption
<1>2. /\ ~(budget.documentCount + 1 > MaxDocuments)
      /\ ~(budget.totalBytes + Bytes[doc] > MaxTotalBytes)
    BY DEF Overdraft
<1> QED BY <1>1, <1>2

(* Consuming what the budget suffices for leaves it within its limits.     *)
LEMMA ConsumedIsKept ==
    ASSUME CacheIsTrue, BudgetsKept, NEW b \in Budgets, NEW doc \in Docs,
           Overdraft(spent.budget[b], doc) = "none",
           spent'.budget = Consumed(spent, b, doc)
    PROVE  /\ BudgetsKept'
           /\ spent'.budget["walk"].documentCount =
                 IF b = "walk" THEN spent.budget["walk"].documentCount + 1
                 ELSE spent.budget["walk"].documentCount
<1> DEFINE old == spent.budget[b]
           new == [old EXCEPT !.documentCount = @ + 1, !.totalBytes = @ + Bytes[doc]]
<1>1. /\ old \in [documentCount : Nat, totalBytes : Nat]
      /\ spent.budget \in [Budgets -> [documentCount : Nat, totalBytes : Nat]]
    BY DEF CacheIsTrue, Spendings
<1>2. /\ new.documentCount = old.documentCount + 1
      /\ new.totalBytes = old.totalBytes + Bytes[doc]
    BY <1>1
<1>3. new.documentCount <= MaxDocuments /\ new.totalBytes <= MaxTotalBytes
    BY <1>1, <1>2, OverdraftMeans
<1>4. spent'.budget = [spent.budget EXCEPT ![b] = new]
    BY <1>1 DEF Consumed
<1> HIDE DEF new
<1>5. \A c \in Budgets : spent'.budget[c] = IF c = b THEN new ELSE spent.budget[c]
    BY <1>1, <1>4
<1>6. "walk" \in Budgets
    BY GraphAssumption
<1> QED BY <1>2, <1>3, <1>5, <1>6 DEF BudgetsKept

(* A location is paid for once, and its depth is looked at when it is.     *)
LEMMA AcquireIsPaid ==
    ASSUME world \in Worlds, CacheIsTrue, BudgetsKept, UnreadIsUnpaid, PaidOnce,
           NEW u \in Uris, NEW b \in Budgets, NEW depth,
           spent' = acquire(spent, u, b, world.source[u], depth).spent,
           world' = world
    PROVE  LET result == acquire(spent, u, b, world.source[u], depth).result
               paid == b = "walk" /\ HasSource(result)
           IN  /\ BudgetsKept' /\ UnreadIsUnpaid' /\ PaidOnce'
               /\ Paid' = Paid \cup (IF paid THEN {u} ELSE {})
               /\ \A v \in Paid : spent'.cache[v] = spent.cache[v]
               /\ paid => spent'.cache[u] = result
               /\ paid /\ u \notin Paid => checkReferenceDepth(depth)
               /\ result \in Results
<1> DEFINE doc == world.source[u]
           a == acquire(spent, u, b, doc, depth)
           paid == b = "walk" /\ HasSource(a.result)
<1>0. doc \in Docs \cup {Unread} /\ IsFiniteSet(Paid) /\ Paid \subseteq Uris
    <2>1. IsFiniteSet(Uris) /\ Paid \subseteq Uris
        BY AcquisitionAssumption DEF Paid
    <2> QED BY <2>1, FS_Subset, GraphAssumption
<1>r. a.result \in Results
    BY AcquireIsTrue
<1>s. /\ spent \in Spendings /\ spent.cache \in [Uris -> Results \cup {Unread}]
      /\ spent.accounted \in [Uris -> SUBSET Budgets]
    BY DEF CacheIsTrue, Spendings
<1>n. "walk" \in Budgets /\ Cardinality(Paid) = spent.budget["walk"].documentCount
    BY GraphAssumption DEF PaidOnce
<1>1. CASE spent.cache[u] = Unread
    <2> DEFINE result == BaseResult(spent, b, doc, depth)
    <2>1. a = FirstAcquire(spent, u, b, doc, depth)
        BY <1>1 DEF acquire
    <2>2. /\ a.result = result
          /\ a.spent = [budget |-> IF HasSource(result) THEN Consumed(spent, b, doc)
                                   ELSE spent.budget,
                        cache |-> [spent.cache EXCEPT ![u] = result],
                        accounted |-> [spent.accounted EXCEPT ![u] = {b}]]
        BY <2>1 DEF FirstAcquire
    <2>3. ASSUME HasSource(result)
          PROVE  /\ checkReferenceDepth(depth) /\ doc \in Docs
                 /\ Overdraft(spent.budget[b], doc) = "none"
        BY <2>3, <1>0, RefusedHasNone DEF BaseResult
    <2> HIDE DEF result
    <2>4. u \notin Paid
        BY <1>1 DEF Paid, UnreadIsUnpaid
    <2>5. /\ spent'.budget = IF HasSource(result) THEN Consumed(spent, b, doc)
                             ELSE spent.budget
          /\ \A v \in Uris : /\ spent'.cache[v] = IF v = u THEN result ELSE spent.cache[v]
                             /\ spent'.accounted[v] = IF v = u THEN {b}
                                                      ELSE spent.accounted[v]
        <3>1. spent' = a.spent
            OBVIOUS
        <3> HIDE DEF a
        <3> QED BY <2>2, <3>1, <1>s
    <2>6. UnreadIsUnpaid'
        BY <2>2, <2>5, <1>r, UnreadAssumption DEF UnreadIsUnpaid
    <2>7. Paid' = Paid \cup (IF paid THEN {u} ELSE {})
        <3> HIDE DEF a
        <3> QED BY <2>2, <2>4, <2>5 DEF Paid
    <2>8. BudgetsKept' /\ PaidOnce'
        <3>1. CASE HasSource(result)
            <4>1. BudgetsKept' /\ spent'.budget["walk"].documentCount =
                     IF b = "walk" THEN spent.budget["walk"].documentCount + 1
                     ELSE spent.budget["walk"].documentCount
                BY <2>3, <2>5, <3>1, ConsumedIsKept
            <4>2. Paid' = IF b = "walk" THEN Paid \cup {u} ELSE Paid
                BY <2>2, <2>7, <3>1
            <4>3. Cardinality(Paid \cup {u}) = Cardinality(Paid) + 1
                BY <1>0, <2>4, FS_AddElement
            <4> QED BY <1>n, <4>1, <4>2, <4>3 DEF PaidOnce
        <3>2. CASE ~HasSource(result)
            BY <1>n, <2>2, <2>5, <2>7, <3>2 DEF PaidOnce, BudgetsKept
        <3> QED BY <3>1, <3>2
    <2>9. /\ \A v \in Paid : spent'.cache[v] = spent.cache[v]
          /\ paid => spent'.cache[u] = a.result
          /\ paid /\ u \notin Paid => checkReferenceDepth(depth)
        BY <1>0, <2>2, <2>3, <2>4, <2>5
    <2> QED BY <1>r, <2>6, <2>7, <2>8, <2>9
<1>2. CASE spent.cache[u] # Unread
    <2> DEFINE result == spent.cache[u]
    <2>1. a = LaterAcquire(spent, u, b, depth) /\ result \in Results
        BY <1>2, <1>s DEF acquire
    <2>2. CASE ~HasSource(result) \/ b \in spent.accounted[u]
        <3>1. a.result = result /\ a.spent = spent
            BY <2>1, <2>2 DEF LaterAcquire
        <3>2. spent' = spent
            BY <3>1
        <3>3. paid => u \in Paid
            BY <2>2, <3>1 DEF Paid
        <3>4. Paid' = Paid \cup (IF paid THEN {u} ELSE {})
            BY <3>2, <3>3 DEF Paid
        <3>5. BudgetsKept' /\ UnreadIsUnpaid' /\ PaidOnce'
            BY <3>2 DEF BudgetsKept, UnreadIsUnpaid, PaidOnce, Paid
        <3> QED BY <1>r, <3>1, <3>2, <3>3, <3>4, <3>5
    <2>3. CASE /\ HasSource(result) /\ b \notin spent.accounted[u]
               /\ \/ ~checkReferenceDepth(depth)
                  \/ Overdraft(spent.budget[b], result.doc) # "none"
        <3>1. a.spent = spent /\ \E why : a.result = Refused(why)
            BY <2>1, <2>3 DEF LaterAcquire
        <3>2. spent' = spent /\ ~paid
            BY <3>1, RefusedHasNone
        <3>3. BudgetsKept' /\ UnreadIsUnpaid' /\ PaidOnce' /\ Paid' = Paid
            BY <3>2 DEF BudgetsKept, UnreadIsUnpaid, PaidOnce, Paid
        <3> QED BY <1>r, <3>2, <3>3
    <2>4. CASE /\ HasSource(result) /\ b \notin spent.accounted[u]
               /\ checkReferenceDepth(depth)
               /\ Overdraft(spent.budget[b], result.doc) = "none"
        <3>1. /\ a.result = result
              /\ a.spent = [spent EXCEPT !.budget = Consumed(spent, b, result.doc),
                                         !.accounted[u] = @ \cup {b}]
            BY <2>1, <2>4 DEF LaterAcquire
        <3>2. /\ spent'.budget = Consumed(spent, b, result.doc)
              /\ spent'.cache = spent.cache
              /\ \A v \in Uris : spent'.accounted[v] =
                    IF v = u THEN spent.accounted[u] \cup {b} ELSE spent.accounted[v]
            <4>1. spent' = a.spent
                OBVIOUS
            <4> HIDE DEF a
            <4> DEFINE paidBy == [spent.accounted EXCEPT ![u] = @ \cup {b}]
            <4>2. spent' = [budget |-> Consumed(spent, b, result.doc),
                            cache |-> spent.cache, accounted |-> paidBy]
                BY <3>1, <4>1, <1>s DEF Spendings
            <4>3. \A v \in Uris : paidBy[v] =
                      IF v = u THEN spent.accounted[u] \cup {b} ELSE spent.accounted[v]
                BY <1>s
            <4> HIDE DEF paidBy
            <4> QED BY <4>2, <4>3
        <3>3. result.doc \in Docs
            BY <2>1, <2>4, ResultsDiffer
        <3>4. BudgetsKept' /\ spent'.budget["walk"].documentCount =
                 IF b = "walk" THEN spent.budget["walk"].documentCount + 1
                 ELSE spent.budget["walk"].documentCount
            BY <2>4, <3>2, <3>3, ConsumedIsKept
        <3>5. UnreadIsUnpaid'
            BY <1>2, <3>2 DEF UnreadIsUnpaid
        <3>6. Paid' = Paid \cup (IF paid THEN {u} ELSE {})
            <4> HIDE DEF a
            <4> QED BY <2>4, <3>1, <3>2 DEF Paid
        <3>7. b = "walk" => u \notin Paid
            BY <2>4 DEF Paid
        <3>8. Paid' = IF b = "walk" THEN Paid \cup {u} ELSE Paid
            BY <2>4, <3>1, <3>6
        <3>9. PaidOnce'
            <4>1. b = "walk" => Cardinality(Paid \cup {u}) = Cardinality(Paid) + 1
                BY <1>0, <3>7, FS_AddElement
            <4> QED BY <1>n, <3>4, <3>8, <4>1 DEF PaidOnce
        <3> QED BY <1>r, <2>4, <3>1, <3>2, <3>4, <3>5, <3>6, <3>9
    <2> QED BY <2>2, <2>3, <2>4
<1> QED BY <1>1, <1>2
-----------------------------------------------------------------------------
(* A reference that is listed is no longer ahead, and the others are as     *)
(* they were.                                                              *)
LEMMA PushLists ==
    ASSUME IInv, ListAgrees, Walking, NEW resolved \in Docs \cup {Unread}, Push(resolved),
           world' = world, documents' = documents
    PROVE  ListAgrees'
<1> DEFINE n == Len(stack)
           m == Len(references)
           listing == [doc |-> Top.doc, at |-> Top.next, resolved |-> resolved]
<1>1. /\ stack' \in Seq(Frames) /\ Len(stack') = n
      /\ \A p \in 1 .. n :
            /\ stack'[p].doc = stack[p].doc
            /\ stack'[p].next = IF p = n THEN stack[p].next + 1 ELSE stack[p].next
      /\ references' \in Seq(Listings) /\ Len(references') = m + 1
      /\ \A k \in 1 .. m : references'[k] = references[k]
      /\ references'[m + 1] = listing
    BY PushIsAppend
<1>2. /\ n \in Nat \ {0} /\ Top.doc \in documents /\ Top.doc \in Docs
      /\ Top.next \in 1 .. Len(world.refs[Top.doc])
    BY PendingIsReference
<1>3. m \in Nat /\ stack \in Seq(Frames) /\ \A p \in 1 .. n : stack[p] \in Frames
    BY LenProperties, ElementOfSeq DEF IInv, ListingsAreTrue, StackIsOfDocuments
<1>4. \A p \in 1 .. n : stack[p].next \in Nat /\ stack[p].doc \in Docs
    BY <1>3 DEF Frames
<1>5. Top.doc = stack[n].doc /\ Top.next = stack[n].next
    BY DEF Top
<1>6. \A d \in documents : Len(world.refs[d]) \in Nat
    BY WorldIsSane, LenProperties DEF IInv, TablesAreTrue
<1>7. \A p \in 1 .. n : stack'[p].depth = stack[p].depth
    <2>1. stack' = [stack EXCEPT ![n].next = @ + 1]
        BY DEF Push
    <2>2. n \in 1 .. n /\ n \in DOMAIN stack /\ DOMAIN stack = 1 .. n
        BY <1>2, <1>3, LenProperties
    <2>3. stack' = [stack EXCEPT ![n] = [stack[n] EXCEPT !.next = @ + 1]]
        BY <2>1
    <2>4. [stack[n] EXCEPT !.next = @ + 1].depth = stack[n].depth
        BY <1>3, <2>2 DEF Frames
    <2> QED BY <1>3, <2>2, <2>3, <2>4
<1>8. \A p, q \in 1 .. n : stack[p].doc = stack[q].doc => p = q
    BY DEF ListAgrees, WalksAreApart
<1>9. ASSUME NEW d, NEW i \in Nat
      PROVE  Ahead(d, i)' <=> Ahead(d, i) /\ ~(d = Top.doc /\ i = Top.next)
    <2>1. ASSUME NEW p \in 1 .. n
          PROVE  stack'[p].doc = d /\ i >= stack'[p].next
                     <=> /\ stack[p].doc = d /\ i >= stack[p].next
                         /\ ~(d = Top.doc /\ i = Top.next)
        <3>1. CASE p = n
            <4>1. stack'[p].doc = stack[p].doc /\ stack'[p].next = stack[p].next + 1
                BY <1>1, <3>1
            <4>2. stack[p].next \in Nat /\ stack[p].doc = Top.doc /\ stack[p].next = Top.next
                BY <1>4, <1>5, <3>1
            <4> QED BY <4>1, <4>2
        <3>2. CASE p # n
            <4>1. stack'[p].doc = stack[p].doc /\ stack'[p].next = stack[p].next
                BY <1>1, <3>2
            <4>2. stack[p].doc # Top.doc
                BY <1>2, <1>5, <1>8, <3>2
            <4> QED BY <4>1, <4>2
        <3> QED BY <3>1, <3>2
    <2>2. Ahead(d, i)' <=> \E p \in 1 .. n : stack'[p].doc = d /\ i >= stack'[p].next
        BY <1>1 DEF Ahead
    <2> QED BY <2>1, <2>2 DEF Ahead
<1>10. Ahead(Top.doc, Top.next)
    <2>1. n \in 1 .. Len(stack) /\ stack[n].next >= stack[n].next
        BY <1>2, <1>4
    <2> QED BY <1>5, <2>1 DEF Ahead
<1>11. Top.next \in Nat
    BY <1>2, <1>4, <1>5
<1>12. listing.doc = Top.doc /\ listing.at = Top.next
    OBVIOUS
<1> HIDE DEF listing, n, m
<1>13. WalksAreBounded'
    <2> SUFFICES ASSUME NEW p \in 1 .. n
                 PROVE  /\ stack'[p].next <= Len(world.refs[stack'[p].doc]) + 1
                        /\ stack'[p].depth <= MaxReferenceDepth
        BY <1>1 DEF WalksAreBounded
    <2>1. /\ stack[p].next <= Len(world.refs[stack[p].doc]) + 1
          /\ stack[p].depth <= MaxReferenceDepth
        BY DEF ListAgrees, WalksAreBounded, n
    <2>2. CASE p = n
        <3>1. Len(world.refs[Top.doc]) \in Nat
            BY <1>2, <1>6
        <3>2. Top.next + 1 <= Len(world.refs[Top.doc]) + 1
            BY <1>2, <3>1
        <3>3. stack'[p].doc = Top.doc /\ stack'[p].next = Top.next + 1
            BY <1>1, <1>5, <2>2
        <3>4. stack'[p].depth <= MaxReferenceDepth
            BY <1>7, <2>1
        <3> QED BY <3>2, <3>3, <3>4
    <2>3. CASE p # n
        BY <1>1, <1>7, <2>1, <2>3
    <2> QED BY <2>2, <2>3
<1>14. WalksAreApart'
    BY <1>1, <1>8 DEF WalksAreApart
<1>15. ASSUME NEW d \in documents, NEW i \in 1 .. Len(world.refs[d])
       PROVE  Ahead(d, i)' \/ Listed(d, i)'
    <2>1. i \in Nat
        BY <1>6
    <2>2. CASE d = Top.doc /\ i = Top.next
        BY <1>1, <1>3, <1>12, <2>2 DEF Listed
    <2>3. CASE Ahead(d, i) /\ ~(d = Top.doc /\ i = Top.next)
        BY <1>9, <2>1, <2>3
    <2>4. CASE Listed(d, i)
        BY <1>1, <1>3, <2>4 DEF Listed, m
    <2>5. Ahead(d, i) \/ Listed(d, i)
        BY DEF ListAgrees, AheadOrListed
    <2> QED BY <2>2, <2>3, <2>4, <2>5
<1>16. AheadOrListed'
    BY <1>15 DEF AheadOrListed
<1>17. \A k \in 1 .. m : \E d \in documents : \E i \in 1 .. Len(world.refs[d]) :
           references[k].doc = d /\ references[k].at = i /\ ~Ahead(d, i)
    BY DEF ListAgrees, ListedIsBehind, m
<1>18. ListedIsBehind'
    <2> SUFFICES ASSUME NEW k \in 1 .. m + 1
                 PROVE  \E d \in documents : \E i \in 1 .. Len(world.refs[d]) :
                            references'[k].doc = d /\ references'[k].at = i /\ ~Ahead(d, i)'
        BY <1>1 DEF ListedIsBehind
    <2>1. CASE k \in 1 .. m
        <3>1. PICK d \in documents : \E i \in 1 .. Len(world.refs[d]) :
                  references[k].doc = d /\ references[k].at = i /\ ~Ahead(d, i)
            BY <1>17, <2>1
        <3>2. PICK i \in 1 .. Len(world.refs[d]) :
                  references[k].doc = d /\ references[k].at = i /\ ~Ahead(d, i)
            BY <3>1
        <3>3. i \in Nat
            BY <1>6
        <3>4. ~Ahead(d, i)'
            BY <1>9, <3>2, <3>3
        <3> QED BY <1>1, <2>1, <3>2, <3>4
    <2>2. CASE k = m + 1
        <3>1. PICK d \in documents : d = Top.doc
            BY <1>2
        <3>2. PICK i \in 1 .. Len(world.refs[d]) : i = Top.next
            BY <1>2, <3>1
        <3>3. ~Ahead(d, i)'
            BY <1>6, <1>9, <3>1, <3>2
        <3> QED BY <1>1, <1>12, <2>2, <3>1, <3>2, <3>3
    <2> QED BY <1>3, <2>1, <2>2
<1>19. ListedApart'
    <2> SUFFICES ASSUME NEW k \in 1 .. m + 1, NEW l \in 1 .. m + 1,
                        references'[k].doc = references'[l].doc,
                        references'[k].at = references'[l].at
                 PROVE  k = l
        BY <1>1 DEF ListedApart
    <2>1. \A j \in 1 .. m : ~(references[j].doc = Top.doc /\ references[j].at = Top.next)
        BY <1>10, <1>17
    <2>2. CASE k \in 1 .. m /\ l \in 1 .. m
        BY <1>1, <2>2 DEF ListAgrees, ListedApart, m
    <2>3. CASE k = m + 1 /\ l \in 1 .. m
        BY <1>1, <1>12, <2>1, <2>3
    <2>4. CASE k \in 1 .. m /\ l = m + 1
        BY <1>1, <1>12, <2>1, <2>4
    <2> QED BY <1>3, <2>2, <2>3, <2>4
<1> QED BY <1>13, <1>14, <1>16, <1>18, <1>19 DEF ListAgrees

(* A new document has no walk and no listed reference yet.                 *)
LEMMA NewWalkLists ==
    ASSUME IInv, ListAgrees, NEW doc \in Docs, NEW depth \in Nat, doc \notin documents,
           depth <= MaxReferenceDepth, stack' = Append(stack, Walk(doc, depth)),
           documents' = documents \cup {doc}, world' = world, references' = references
    PROVE  ListAgrees'
<1> DEFINE walk == Walk(doc, depth)
           n == Len(stack)
<1>1. walk \in Frames /\ walk.doc = doc /\ walk.next = 1 /\ walk.depth = depth
    BY DEF Walk, Frames
<1>2. stack \in Seq(Frames) /\ n \in Nat
    BY LenProperties DEF IInv, StackIsOfDocuments
<1> HIDE DEF walk
<1>3. /\ stack' \in Seq(Frames) /\ Len(stack') = n + 1
      /\ \A p \in 1 .. n : stack'[p] = stack[p]
      /\ stack'[n + 1] = walk
    <2>1. stack' = Append(stack, walk)
        BY DEF walk
    <2> QED BY <1>1, <1>2, <2>1, AppendProperties
<1>4. \A p \in 1 .. n : stack[p].doc \in documents
    BY DEF IInv, StackIsOfDocuments
<1>5. Len(world.refs[doc]) \in Nat
    BY WorldIsSane, LenProperties DEF IInv
<1>6. ASSUME NEW d \in documents, NEW i
      PROVE  Ahead(d, i)' <=> Ahead(d, i)
    <2>1. d # doc
        OBVIOUS
    <2> QED BY <1>1, <1>2, <1>3, <2>1 DEF Ahead
<1>7. ASSUME NEW i \in 1 .. Len(world.refs[doc])
      PROVE  Ahead(doc, i)'
    <2>1. stack'[n + 1].doc = doc /\ i >= stack'[n + 1].next /\ n + 1 \in 1 .. Len(stack')
        BY <1>1, <1>2, <1>3, <1>5
    <2> QED BY <2>1 DEF Ahead
<1>8. WalksAreBounded'
    <2> SUFFICES ASSUME NEW p \in 1 .. n + 1
                 PROVE  /\ stack'[p].next <= Len(world.refs[stack'[p].doc]) + 1
                        /\ stack'[p].depth <= MaxReferenceDepth
        BY <1>3 DEF WalksAreBounded
    <2>1. CASE p \in 1 .. n
        BY <1>3, <2>1 DEF ListAgrees, WalksAreBounded
    <2>2. CASE p = n + 1
        BY <1>1, <1>3, <1>5, <2>2
    <2> QED BY <1>2, <2>1, <2>2
<1>9. WalksAreApart'
    <2> SUFFICES ASSUME NEW p \in 1 .. n + 1, NEW q \in 1 .. n + 1,
                        stack'[p].doc = stack'[q].doc
                 PROVE  p = q
        BY <1>3 DEF WalksAreApart
    <2>1. CASE p \in 1 .. n /\ q \in 1 .. n
        BY <1>3, <2>1 DEF ListAgrees, WalksAreApart
    <2>2. CASE (p = n + 1 /\ q \in 1 .. n) \/ (p \in 1 .. n /\ q = n + 1)
        BY <1>1, <1>3, <1>4, <2>2
    <2> QED BY <1>2, <2>1, <2>2
<1>10. AheadOrListed'
    <2>1. \A d \in documents : \A i \in 1 .. Len(world.refs[d]) :
              Ahead(d, i)' \/ Listed(d, i)'
        BY <1>6 DEF ListAgrees, AheadOrListed, Listed
    <2> QED BY <1>7, <2>1 DEF AheadOrListed
<1>11. ListedIsBehind' /\ ListedApart'
    <2>1. ListedIsBehind'
        <3>1. \A k \in 1 .. Len(references) :
                  \E d \in documents : \E i \in 1 .. Len(world.refs[d]) :
                      references[k].doc = d /\ references[k].at = i /\ ~Ahead(d, i)'
            BY <1>6 DEF ListAgrees, ListedIsBehind
        <3> QED BY <3>1 DEF ListedIsBehind
    <2> QED BY <2>1 DEF ListAgrees, ListedApart
<1> QED BY <1>8, <1>9, <1>10, <1>11 DEF ListAgrees

(* The walk that ends had no reference ahead.                              *)
LEMMA WalkEndsLists ==
    ASSUME IInv, ListAgrees, WalkEnds
    PROVE  ListAgrees'
<1> DEFINE n == Len(stack)
<1>1. /\ Top.next > Len(world.refs[Top.doc])
      /\ UNCHANGED <<world, documents, references>>
    BY DEF WalkEnds, tables
<1>2. /\ n \in Nat \ {0} /\ \A p \in 1 .. n : stack[p] \in Frames
      /\ Len(stack') = n - 1 /\ \A p \in 1 .. n - 1 : stack'[p] = stack[p]
    BY WalkEndsIsPop
<1>3. ASSUME NEW d \in documents, NEW i \in 1 .. Len(world.refs[d])
      PROVE  Ahead(d, i)' <=> Ahead(d, i)
    <2>1. Len(world.refs[d]) \in Nat
        BY WorldIsSane, LenProperties DEF IInv, TablesAreTrue
    <2>2. stack[n].next \in Nat
        BY <1>2 DEF Frames
    <2>3. ~(stack[n].doc = d /\ i >= stack[n].next)
        BY <1>1, <2>1, <2>2 DEF Top
    <2> QED BY <1>2, <2>3 DEF Ahead
<1>4. \A p \in 1 .. n - 1 : p \in 1 .. n /\ stack'[p] = stack[p]
    BY <1>2
<1>5. WalksAreBounded' /\ WalksAreApart'
    <2>1. WalksAreBounded'
        BY <1>1, <1>2, <1>4 DEF ListAgrees, WalksAreBounded
    <2>2. WalksAreApart'
        BY <1>1, <1>2, <1>4 DEF ListAgrees, WalksAreApart
    <2> QED BY <2>1, <2>2
<1>6. AheadOrListed'
    <2>1. \A d \in documents : \A i \in 1 .. Len(world.refs[d]) :
              Ahead(d, i)' \/ Listed(d, i)'
        BY <1>1, <1>3 DEF ListAgrees, AheadOrListed, Listed
    <2> QED BY <1>1, <2>1 DEF AheadOrListed
<1>7. ListedIsBehind'
    <2>1. \A k \in 1 .. Len(references) :
              \E d \in documents : \E i \in 1 .. Len(world.refs[d]) :
                  references[k].doc = d /\ references[k].at = i /\ ~Ahead(d, i)'
        BY <1>3 DEF ListAgrees, ListedIsBehind
    <2> QED BY <1>1, <2>1 DEF ListedIsBehind
<1>8. ListedApart'
    BY <1>1 DEF ListAgrees, ListedApart
<1> QED BY <1>5, <1>6, <1>7, <1>8 DEF ListAgrees
-----------------------------------------------------------------------------
(* What acquireDocument adds to the tables has been paid for, and a new     *)
(* document's depth has been looked at.                                    *)
LEMMA AcquiredPays ==
    ASSUME IInv, TablesAreTyped, BudgetAgrees, NEW u \in Uris, NEW depth,
           NEW requested \in SUBSET Uris, NEW result, result = acquired(u, depth).result,
           spent' = acquired(u, depth).spent,
           acquireDocument(u, result, requested), world' = world
    PROVE  /\ BudgetAgrees'
           /\ documents' \subseteq world.parses /\ failedDocuments' \subseteq Uris
           /\ Complaints(result) \subseteq Reasons
           /\ New(result) \cap world.parses # {} => checkReferenceDepth(depth)
<1> DEFINE paid == HasSource(result)
<1>1. /\ BudgetsKept' /\ UnreadIsUnpaid' /\ PaidOnce'
      /\ Paid' = Paid \cup (IF paid THEN {u} ELSE {})
      /\ \A v \in Paid : spent'.cache[v] = spent.cache[v]
      /\ paid => spent'.cache[u] = result
      /\ paid /\ u \notin Paid => checkReferenceDepth(depth)
      /\ result \in Results
    <2>1. "walk" \in Budgets /\ world \in Worlds /\ CacheIsTrue
        BY GraphAssumption DEF IInv
    <2>2. spent' = acquire(spent, u, "walk", world.source[u], depth).spent
        BY DEF acquired
    <2>3. result = acquire(spent, u, "walk", world.source[u], depth).result
        BY DEF acquired
    <2> QED BY <2>1, <2>2, <2>3, AcquireIsPaid DEF BudgetAgrees
<1>2. documents' = documents \cup (New(result) \cap world.parses)
    BY DEF acquireDocument
<1>3. New(result) = IF paid THEN {result.doc} \ documents ELSE {}
    BY DEF New
<1>4. LoadedIsPaid'
    <2> SUFFICES ASSUME NEW d \in documents'
                 PROVE  \E v \in Paid' : spent'.cache[v].doc = d
        BY DEF LoadedIsPaid
    <2>1. CASE d \in documents
        BY <1>1, <2>1 DEF BudgetAgrees, LoadedIsPaid
    <2>2. CASE d \in New(result)
        BY <1>1, <1>3, <2>2
    <2> QED BY <1>2, <2>1, <2>2
<1>5. PaidIsLoaded'
    <2> SUFFICES ASSUME NEW v \in Paid', spent'.cache[v].doc \in world.parses
                 PROVE  spent'.cache[v].doc \in documents'
        BY DEF PaidIsLoaded
    <2>1. CASE v \in Paid
        BY <1>1, <1>2, <2>1 DEF BudgetAgrees, PaidIsLoaded
    <2>2. CASE v = u /\ paid
        BY <1>1, <1>2, <1>3, <2>2
    <2> QED BY <1>1, <2>1, <2>2
<1>6. ASSUME New(result) \cap world.parses # {}
      PROVE  checkReferenceDepth(depth)
    <2>1. paid /\ result.doc \notin documents /\ result.doc \in world.parses
        BY <1>3, <1>6
    <2>2. u \notin Paid
        BY <1>1, <2>1 DEF BudgetAgrees, PaidIsLoaded
    <2> QED BY <1>1, <2>1, <2>2
<1>7. Complaints(result) \subseteq Reasons
    <2>1. ~paid => result.why \in Failures
        BY <1>1 DEF Results, HasSource, Refused
    <2> QED BY <2>1 DEF Complaints, Reasons
<1>8. New(result) \subseteq Uris
    <2>1. paid => result.doc \in Docs
        BY <1>1, ResultsDiffer
    <2> QED BY <1>3, <2>1, AcquisitionAssumption
<1>9. documents' \subseteq world.parses /\ failedDocuments' \subseteq Uris
    BY <1>2, <1>8 DEF TablesAreTyped, acquireDocument
<1> QED BY <1>1, <1>4, <1>5, <1>6, <1>7, <1>9 DEF BudgetAgrees

(* What they depend on.                                                    *)
LEMMA ListUnchanged ==
    ASSUME ListAgrees, UNCHANGED <<world, stack, documents, references>>
    PROVE  ListAgrees'
<1>1. WalksAreBounded' /\ WalksAreApart'
    BY DEF ListAgrees, WalksAreBounded, WalksAreApart
<1>2. AheadOrListed'
    BY DEF ListAgrees, AheadOrListed, Ahead, Listed
<1>3. ListedIsBehind'
    BY DEF ListAgrees, ListedIsBehind, Ahead
<1>4. ListedApart'
    BY DEF ListAgrees, ListedApart
<1> QED BY <1>1, <1>2, <1>3, <1>4 DEF ListAgrees

LEMMA BudgetUnchanged ==
    ASSUME BudgetAgrees, UNCHANGED <<world, spent, documents>>
    PROVE  BudgetAgrees'
<1>1. Paid' = Paid
    BY DEF Paid
<1>2. BudgetsKept' /\ UnreadIsUnpaid' /\ PaidOnce'
    BY <1>1 DEF BudgetAgrees, BudgetsKept, UnreadIsUnpaid, PaidOnce
<1>3. LoadedIsPaid' /\ PaidIsLoaded'
    BY <1>1 DEF BudgetAgrees, LoadedIsPaid, PaidIsLoaded
<1> QED BY <1>2, <1>3 DEF BudgetAgrees

LEMMA ProbeKeepsTables ==
    ASSUME IInv, TablesInv, Probe
    PROVE  TablesInv'
<1> DEFINE a == acquire(spent, Entry, "probe", world.source[Entry], 0)
<1>1. /\ phase' \in {"entry", "done"} /\ spent' = a.spent /\ world' = world
      /\ UNCHANGED <<stack, tables, references>>
      /\ \/ diagnostics' = diagnostics
         \/ ~HasSource(a.result) /\ diagnostics' = {a.result.why}
    <2> HIDE DEF a
    <2>1. /\ spent' = a.spent
          /\ IF HasSource(a.result)
             THEN phase' = "entry" /\ UNCHANGED diagnostics
             ELSE phase' = "done" /\ diagnostics' = {a.result.why}
          /\ UNCHANGED <<world, stack, tables, references>>
        BY DEF Probe, a
    <2> QED BY <2>1
<1>2. /\ BudgetsKept' /\ UnreadIsUnpaid' /\ PaidOnce' /\ Paid' = Paid
      /\ \A v \in Paid : spent'.cache[v] = spent.cache[v]
      /\ a.result \in Results
    <2>1. world \in Worlds /\ CacheIsTrue /\ Entry \in Uris /\ "probe" \in Budgets
        BY GraphAssumption DEF IInv
    <2>2. BudgetsKept /\ UnreadIsUnpaid /\ PaidOnce
        BY DEF TablesInv, BudgetAgrees
    <2>3. LET paid == "probe" = "walk" /\ HasSource(a.result)
          IN  /\ BudgetsKept' /\ UnreadIsUnpaid' /\ PaidOnce'
              /\ Paid' = Paid \cup (IF paid THEN {Entry} ELSE {})
              /\ \A v \in Paid : spent'.cache[v] = spent.cache[v]
              /\ a.result \in Results
        BY <1>1, <2>1, <2>2, AcquireIsPaid
    <2> HIDE DEF a
    <2> QED BY <2>3
<1> HIDE DEF a
<1>3. diagnostics' \subseteq Reasons
    <2>1. ~HasSource(a.result) => a.result.why \in Failures
        BY <1>2 DEF Results, HasSource, Refused
    <2> QED BY <1>1, <2>1 DEF TablesInv, TablesAreTyped, Reasons
<1>4. TablesAreTyped'
    BY <1>1, <1>3 DEF TablesInv, TablesAreTyped, tables
<1>5. BudgetAgrees'
    BY <1>1, <1>2 DEF TablesInv, BudgetAgrees, LoadedIsPaid, PaidIsLoaded, tables
<1>6. ListAgrees'
    BY <1>1, ListUnchanged DEF TablesInv, tables
<1> QED BY <1>4, <1>5, <1>6 DEF TablesInv

LEMMA EntryKeepsTables ==
    ASSUME IInv, TablesInv, AcquireEntry
    PROVE  TablesInv'
<1> DEFINE result == acquired(Entry, 0).result
<1>1. /\ phase = "entry" /\ world' = world /\ spent' = acquired(Entry, 0).spent
      /\ acquireDocument(Entry, result, {})
      /\ diagnostics' = diagnostics \cup Complaints(result)
      /\ attemptedDocuments' = attemptedDocuments /\ references' = references
      /\ IF documents' = {}
         THEN phase' = "done" /\ UNCHANGED stack
         ELSE phase' = "walk" /\ stack' = <<Walk(result.doc, 0)>>
    BY DEF AcquireEntry
<1>2. stack = <<>> /\ documents = {} /\ references = <<>> /\ Entry \in Uris
    BY <1>1, GraphAssumption DEF IInv, StackIsOfDocuments
<1>3. /\ BudgetAgrees' /\ documents' \subseteq world.parses /\ failedDocuments' \subseteq Uris
      /\ Complaints(result) \subseteq Reasons
    BY <1>1, <1>2, AcquiredPays DEF TablesInv
<1>4. result \in Results
    <2>1. world \in Worlds /\ CacheIsTrue /\ "walk" \in Budgets
        BY GraphAssumption DEF IInv
    <2> QED BY <1>1, <1>2, <2>1, AcquireIsTrue DEF acquired
<1> HIDE DEF result
<1>5. TablesAreTyped'
    BY <1>1, <1>3 DEF TablesInv, TablesAreTyped
<1>6. CASE documents' = {}
    <2>1. ListAgrees'
        BY <1>1, <1>2, <1>6, ListUnchanged DEF TablesInv
    <2> QED BY <1>3, <1>5, <2>1 DEF TablesInv
<1>7. CASE documents' # {}
    <2>1. result.doc \in Docs /\ documents' = documents \cup {result.doc}
        BY <1>1, <1>2, <1>4, <1>7, ResultsDiffer DEF acquireDocument, New
    <2>2. stack' = Append(stack, Walk(result.doc, 0)) /\ 0 <= MaxReferenceDepth
        BY <1>1, <1>2, <1>7, AcquisitionAssumption
    <2>3. ListAgrees'
        BY <1>1, <1>2, <2>1, <2>2, NewWalkLists DEF TablesInv
    <2> QED BY <1>3, <1>5, <2>3 DEF TablesInv
<1> QED BY <1>6, <1>7

(* The references that acquire nothing.                                    *)
LEMMA PushKeepsTables ==
    ASSUME IInv, TablesInv, NEW resolved \in Docs \cup {Unread}, Walking, Push(resolved),
           UNCHANGED <<world, spent, phase, documents>>, TablesAreTyped'
    PROVE  TablesInv'
<1>1. ListAgrees'
    BY PushLists DEF TablesInv
<1>2. BudgetAgrees'
    BY BudgetUnchanged DEF TablesInv
<1> QED BY <1>1, <1>2 DEF TablesInv

LEMMA QuietKeepsTables ==
    ASSUME IInv, TablesInv,
           InvalidReference \/ LoadedReference \/ GivenUpReference \/ UnlocatedReference
    PROVE  TablesInv'
<1>1. CASE InvalidReference
    <2>1. /\ Walking /\ Push(Unread) /\ UNCHANGED <<world, spent, phase, tables>>
          /\ diagnostics' = diagnostics \cup {"missing"}
        BY <1>1 DEF InvalidReference
    <2>2. TablesAreTyped'
        BY <2>1 DEF TablesInv, TablesAreTyped, tables, Reasons
    <2> QED BY <2>1, <2>2, PushKeepsTables DEF tables
<1>2. CASE LoadedReference
    <2> DEFINE resolved == IF Pending.found THEN canonicalUri(Pending.to) ELSE Unread
    <2>1. /\ Walking /\ Push(resolved) /\ UNCHANGED <<world, spent, phase, tables>>
          /\ diagnostics' \subseteq diagnostics \cup {"missing"}
          /\ canonicalUri(Pending.to) \in documents
        BY <1>2 DEF LoadedReference
    <2>2. resolved \in Docs \cup {Unread}
        BY <2>1 DEF IInv, TablesAreTrue
    <2>3. TablesAreTyped'
        BY <2>1 DEF TablesInv, TablesAreTyped, tables, Reasons
    <2> HIDE DEF resolved
    <2> QED BY <2>1, <2>2, <2>3, PushKeepsTables DEF tables
<1>3. CASE GivenUpReference
    <2>1. Walking /\ Push(Unread) /\ UNCHANGED <<world, spent, phase, tables, diagnostics>>
        BY <1>3 DEF GivenUpReference, NotLoaded
    <2>2. TablesAreTyped'
        BY <2>1 DEF TablesInv, TablesAreTyped, tables
    <2> QED BY <2>1, <2>2, PushKeepsTables DEF tables
<1>4. CASE UnlocatedReference
    <2>1. /\ Walking /\ Push(Unread) /\ Pending.to # Invalid
          /\ UNCHANGED <<world, spent, phase, documents, aliases>>
          /\ attemptedDocuments' = attemptedDocuments \cup {Pending.to}
          /\ failedDocuments' = failedDocuments \cup {Pending.to}
          /\ diagnostics' = diagnostics \cup {"location"}
        BY <1>4 DEF UnlocatedReference, Untried, NotLoaded
    <2>2. Pending.to \in Uris
        BY <2>1, PendingIsReference DEF Targets
    <2>3. TablesAreTyped'
        BY <2>1, <2>2 DEF TablesInv, TablesAreTyped, Reasons
    <2> QED BY <2>1, <2>3, PushKeepsTables
<1> QED BY <1>1, <1>2, <1>3, <1>4

LEMMA AcquireKeepsTables ==
    ASSUME IInv, TablesInv, AcquireReference
    PROVE  TablesInv'
<1> DEFINE to == Pending.to
           result == acquired(to, Top.depth + 1).result
           isNew == New(result) \cap world.parses # {}
           known == HasSource(result) /\ result.doc \in documents
           resolved == IF known /\ Pending.found THEN result.doc ELSE Unread
<1>1. /\ Walking /\ to # Invalid
      /\ world' = world /\ phase' = phase
      /\ spent' = acquired(to, Top.depth + 1).spent
      /\ acquireDocument(to, result, {to})
      /\ attemptedDocuments' = attemptedDocuments \cup {to}
    BY DEF AcquireReference, Untried, NotLoaded
<1>2. /\ diagnostics' = diagnostics \cup Complaints(result)
            \cup (IF known /\ ~Pending.found THEN {"missing"} ELSE {})
      /\ isNew => /\ stack' = Append(stack, Walk(result.doc, Top.depth + 1))
                  /\ references' = references
      /\ ~isNew => Push(resolved)
    BY DEF AcquireReference
<1>3. Pending \in Targets /\ to \in Uris /\ Top.depth \in Nat
    <2>1. stack[Len(stack)] \in Frames /\ Pending \in Targets
        BY <1>1, PendingIsReference
    <2> QED BY <1>1, <2>1 DEF Frames, Targets, Top
<1>4. /\ BudgetAgrees' /\ documents' \subseteq world.parses /\ failedDocuments' \subseteq Uris
      /\ Complaints(result) \subseteq Reasons
      /\ isNew => checkReferenceDepth(Top.depth + 1)
    BY <1>1, <1>3, AcquiredPays DEF TablesInv
<1>5. result \in Results
    <2>1. world \in Worlds /\ CacheIsTrue /\ "walk" \in Budgets
        BY GraphAssumption DEF IInv
    <2>2. result = acquire(spent, to, "walk", world.source[to], Top.depth + 1).result
        BY DEF acquired
    <2>3. spent' = acquire(spent, to, "walk", world.source[to], Top.depth + 1).spent
        BY <1>1 DEF acquired
    <2> HIDE DEF to, result
    <2> QED BY <1>1, <1>3, <2>1, <2>2, <2>3, AcquireIsTrue
<1> HIDE DEF result, to
<1>6. TablesAreTyped'
    BY <1>1, <1>2, <1>3, <1>4 DEF TablesInv, TablesAreTyped, Reasons
<1>7. ListAgrees'
    <2>1. CASE isNew
        <3>1. /\ result.doc \in Docs /\ result.doc \notin documents
              /\ documents' = documents \cup {result.doc}
            BY <1>1, <1>5, <2>1, ResultsDiffer DEF acquireDocument, New
        <3>2. Top.depth + 1 <= MaxReferenceDepth /\ Top.depth + 1 \in Nat
            BY <1>3, <1>4, <2>1 DEF checkReferenceDepth
        <3> QED BY <1>1, <1>2, <2>1, <3>1, <3>2, NewWalkLists DEF TablesInv
    <2>2. CASE ~isNew
        <3>1. documents' = documents
            BY <1>1, <2>2 DEF acquireDocument
        <3>2. resolved \in Docs \cup {Unread} /\ Push(resolved)
            BY <1>2, <1>5, <2>2, ResultsDiffer
        <3> HIDE DEF resolved
        <3> QED BY <1>1, <3>1, <3>2, PushLists DEF TablesInv
    <2> QED BY <2>1, <2>2
<1> QED BY <1>4, <1>6, <1>7 DEF TablesInv

LEMMA WalkEndsKeepsTables ==
    ASSUME IInv, TablesInv, WalkEnds
    PROVE  TablesInv'
<1>1. /\ phase' \in {"done", "walk"}
      /\ UNCHANGED <<world, spent, tables, references, diagnostics>>
    BY DEF WalkEnds
<1>2. TablesAreTyped'
    BY <1>1 DEF TablesInv, TablesAreTyped, tables
<1>3. BudgetAgrees'
    BY <1>1, BudgetUnchanged DEF TablesInv, tables
<1> QED BY <1>2, <1>3, WalkEndsLists DEF TablesInv

LEMMA InitTables ==
    ASSUME Init
    PROVE  TablesInv
<1>1. TablesAreTyped
    BY DEF Init, TablesAreTyped
<1>2. \A u \in Uris : spent.cache[u] = Unread /\ spent.accounted[u] = {}
    BY DEF Init, NothingSpent
<1>3. \A b \in Budgets : /\ spent.budget[b].documentCount = 0
                         /\ spent.budget[b].totalBytes = 0
    BY DEF Init, NothingSpent
<1>4. Paid = {}
    BY <1>2 DEF Paid
<1>5. BudgetAgrees
    <2>1. BudgetsKept
        BY <1>3, AcquisitionAssumption DEF BudgetsKept
    <2>2. PaidOnce
        BY <1>3, <1>4, FS_EmptySet, GraphAssumption DEF PaidOnce
    <2> QED BY <1>2, <1>4, <2>1, <2>2
            DEF Init, BudgetAgrees, UnreadIsUnpaid, LoadedIsPaid, PaidIsLoaded
<1>6. ListAgrees
    BY DEF Init, ListAgrees, WalksAreBounded, WalksAreApart, AheadOrListed, ListedIsBehind,
           ListedApart
<1> QED BY <1>1, <1>5, <1>6 DEF TablesInv

LEMMA StutterKeepsTables ==
    ASSUME IInv, TablesInv, UNCHANGED vars
    PROVE  TablesInv'
<1> USE DEF vars, tables
<1>1. TablesAreTyped'
    BY DEF TablesInv, TablesAreTyped
<1>2. BudgetAgrees' /\ ListAgrees'
    BY BudgetUnchanged, ListUnchanged DEF TablesInv
<1> QED BY <1>1, <1>2 DEF TablesInv

LEMMA TablesInvariantHolds == Spec => []TablesInv
<1>1. ASSUME IInv, TablesInv, [Next]_vars
      PROVE  TablesInv'
    BY <1>1, ProbeKeepsTables, EntryKeepsTables, QuietKeepsTables, AcquireKeepsTables,
       WalkEndsKeepsTables, StutterKeepsTables DEF Next
<1> QED BY <1>1, InitTables, InvariantHolds, PTL DEF Spec

(* Each reference of the graph is listed once, each document is paid for,   *)
(* and no limit is exceeded.                                               *)
THEOREM TablesAlwaysAgree == Spec => []TablesAgree
<1>1. ASSUME IInv, TablesInv
      PROVE  TablesAgree
    <2>1. /\ DOMAIN stack = 1 .. Len(stack) /\ DOMAIN references = 1 .. Len(references)
          /\ Len(stack) \in Nat /\ Len(references) \in Nat
          /\ \A p \in 1 .. Len(stack) : stack[p] \in Frames
        BY <1>1, LenProperties, ElementOfSeq DEF IInv, StackIsOfDocuments, ListingsAreTrue
    <2>2. TypeOK
        <3>1. ASSUME NEW p \in 1 .. Len(stack)
              PROVE  /\ stack[p].doc \in documents
                     /\ stack[p].next \in 1 .. Len(world.refs[stack[p].doc]) + 1
                     /\ stack[p].depth \in 0 .. MaxReferenceDepth
            <4>1. stack[p].doc \in documents /\ stack[p].next >= 1
                BY <1>1 DEF IInv, StackIsOfDocuments
            <4>2. /\ stack[p].next <= Len(world.refs[stack[p].doc]) + 1
                  /\ stack[p].depth <= MaxReferenceDepth
                BY <1>1 DEF TablesInv, ListAgrees, WalksAreBounded
            <4>3. stack[p].next \in Nat /\ stack[p].depth \in Nat
                BY <2>1 DEF Frames
            <4>4. Len(world.refs[stack[p].doc]) \in Nat
                BY <1>1, <4>1, WorldIsSane, LenProperties DEF IInv, TablesAreTrue
            <4>5. MaxReferenceDepth \in Nat
                BY AcquisitionAssumption
            <4> QED BY <4>1, <4>2, <4>3, <4>4, <4>5
        <3> QED BY <1>1, <2>1, <3>1
                DEF TypeOK, TablesInv, TablesAreTyped, BudgetAgrees, BudgetsKept, IInv,
                    TablesAreTrue
    <2>3. ListedOnce
        <3> SUFFICES ASSUME phase = "done"
                     PROVE  /\ \A d \in documents : \A i \in 1 .. Len(world.refs[d]) :
                                  Cardinality(Entries(d, i)) = 1
                            /\ \A k \in DOMAIN references : references[k].doc \in documents
            BY DEF ListedOnce
        <3>1. Len(stack) = 0
            BY <1>1, EmptySeq DEF IInv, StackIsOfDocuments
        <3>2. ASSUME NEW d \in documents, NEW i \in 1 .. Len(world.refs[d])
              PROVE  Cardinality(Entries(d, i)) = 1
            <4>1. ~Ahead(d, i)
                BY <3>1 DEF Ahead
            <4>2. PICK k \in 1 .. Len(references) :
                      references[k].doc = d /\ references[k].at = i
                BY <1>1, <4>1 DEF TablesInv, ListAgrees, AheadOrListed, Listed
            <4>3. Entries(d, i) = {k}
                BY <1>1, <2>1, <4>2 DEF Entries, TablesInv, ListAgrees, ListedApart
            <4> QED BY <4>3, FS_Singleton
        <3>3. \A k \in 1 .. Len(references) : references[k].doc \in documents
            BY <1>1 DEF TablesInv, ListAgrees, ListedIsBehind
        <3> QED BY <2>1, <3>2, <3>3
    <2>4. PaidInFull
        <3>1. \A d \in documents : d \in {spent.cache[u].doc : u \in Paid}
            BY <1>1 DEF TablesInv, BudgetAgrees, LoadedIsPaid
        <3> QED BY <1>1, <3>1 DEF PaidInFull, TablesInv, BudgetAgrees, PaidOnce, Paid
    <2> QED BY <2>2, <2>3, <2>4 DEF TablesAgree
<1> QED BY <1>1, InvariantHolds, TablesInvariantHolds, PTL
====
