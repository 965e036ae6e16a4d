---- MODULE ReferenceGraph ----
(***************************************************************************)
(* loadOpenApiSourceGraph (packages/openapi/src/reference-graph.ts) inside *)
(* a command of the CLI: the documents an OpenAPI file refers to are       *)
(* acquired depth first, each walked for its references in order.  The     *)
(* validate command has read the entry before, on a budget of its own.     *)
(*                                                                         *)
(* The calls of acquireDocument and walkDocument that wait for each other  *)
(* are a stack of walks.  A reference whose document has to be acquired    *)
(* first stays the next one of its walk until that has been walked.        *)
(***************************************************************************)
EXTENDS SourceAcquisition, Sequences

CONSTANTS
    Entry,      \* the location given to the command
    Invalid,    \* a reference that makes no URI
    Worlds      \* what can be at the locations and in the documents

VARIABLES
    world,        \* what is there; it does not change meanwhile
    spent,        \* the memoized acquirer and the budgets
    phase,        \* "probe", "entry", "walk" or "done"
    stack,        \* the walks under way
    documents, aliases, attemptedDocuments, failedDocuments,
    references,   \* in the order in which they were pushed
    diagnostics

tables == <<documents, aliases, attemptedDocuments, failedDocuments>>
vars == <<world, spent, phase, stack, tables, references, diagnostics>>

Targets == [to : Uris \cup {Invalid}, found : BOOLEAN]

(* The document a location leads to; which documents parse; the locations  *)
(* resolveLocation accepts; and the references of a document, in order,    *)
(* with whether their pointer is found in the target.                      *)
ASSUME GraphAssumption ==
    /\ Entry \in Uris /\ Invalid \notin Uris /\ Unread \notin Docs
    /\ Budgets = {"probe", "walk"}
    /\ \A w \in Worlds :
          /\ w.source \in [Uris -> Docs \cup {Unread}]
          /\ \A u \in Uris : w.source[u] # Unread =>
                w.source[w.source[u]] = w.source[u]
          /\ w.parses \subseteq Docs /\ w.located \subseteq Uris
          /\ w.refs \in [Docs -> Seq(Targets)]

(* A location nothing was asked for is told from every result.             *)
ASSUME UnreadAssumption == Unread \notin Results

Reasons == Failures \cup {"parse", "location", "missing"}

TypeOK ==
    /\ phase \in {"probe", "entry", "walk", "done"}
    /\ \A i \in DOMAIN stack : /\ stack[i].doc \in documents
                               /\ stack[i].next \in 1 .. Len(world.refs[stack[i].doc]) + 1
                               /\ stack[i].depth \in 0 .. MaxReferenceDepth
    /\ documents \subseteq world.parses
    /\ aliases \in [Uris -> Docs \cup {Unread}]
    /\ attemptedDocuments \subseteq Uris /\ failedDocuments \subseteq Uris
    /\ diagnostics \subseteq Reasons
    /\ \A b \in Budgets : /\ spent.budget[b].documentCount <= MaxDocuments
                          /\ spent.budget[b].totalBytes <= MaxTotalBytes
-----------------------------------------------------------------------------
(* Mutant: aliases are not consulted.                                      *)
canonicalUriAsIs(u) == u

canonicalUri(u) == IF aliases[u] = Unread THEN u ELSE aliases[u]

Top == stack[Len(stack)]

(* The reference that comes next.                                          *)
Walking == phase = "walk" /\ stack # <<>> /\ Top.next <= Len(world.refs[Top.doc])

Pending == world.refs[Top.doc][Top.next]

Push(resolved) ==
    /\ references' = Append(references, [doc |-> Top.doc, at |-> Top.next,
                                         resolved |-> resolved])
    /\ stack' = [stack EXCEPT ![Len(stack)].next = @ + 1]

Init ==
    /\ world \in Worlds
    /\ spent = NothingSpent
    /\ phase \in {"probe", "entry"}
    /\ stack = <<>>
    /\ documents = {} /\ aliases = [u \in Uris |-> Unread]
    /\ attemptedDocuments = {} /\ failedDocuments = {}
    /\ references = <<>> /\ diagnostics = {}

(* The validate command finds out which kind of document it has.           *)
Probe ==
    /\ phase = "probe"
    /\ LET a == acquire(spent, Entry, "probe", world.source[Entry], 0)
       IN  /\ spent' = a.spent
           /\ IF HasSource(a.result)
              THEN phase' = "entry" /\ UNCHANGED diagnostics
              ELSE phase' = "done" /\ diagnostics' = {a.result.why}
    /\ UNCHANGED <<world, stack, tables, references>>

acquired(u, depth) == acquire(spent, u, "walk", world.source[u], depth)

(* Mutant: the document is walked whether it is there or not.              *)
NewOrNot(result) == IF HasSource(result) THEN {result.doc} ELSE {}

(* Documents that are walked, once they are in the table.                  *)
New(result) == IF HasSource(result) THEN {result.doc} \ documents ELSE {}

(* Mutant: a document that does not parse is left out without a word.      *)
ComplaintsButParse(result) ==
    IF HasSource(result) THEN {} ELSE {result.why}

Complaints(result) ==
    IF ~HasSource(result) THEN {result.why}
    ELSE IF New(result) \subseteq world.parses THEN {} ELSE {"parse"}

(* acquireDocument, to where it waits for the walk of a new document; the  *)
(* entry is asked for without a URI.                                       *)
acquireDocument(u, result, requested) ==
    /\ aliases' = IF HasSource(result) /\ u \in requested /\ u # result.doc
                  THEN [aliases EXCEPT ![u] = result.doc] ELSE aliases
    /\ documents' = documents \cup (New(result) \cap world.parses)
    /\ failedDocuments' = failedDocuments \cup
          (IF HasSource(result) THEN New(result) \ world.parses ELSE requested)

Walk(doc, depth) == [doc |-> doc, next |-> 1, depth |-> depth]

AcquireEntry ==
    /\ phase = "entry"
    /\ LET a == acquired(Entry, 0)
       IN  /\ spent' = a.spent
           /\ acquireDocument(Entry, a.result, {})
           /\ diagnostics' = diagnostics \cup Complaints(a.result)
           /\ IF documents' = {}
              THEN phase' = "done" /\ UNCHANGED stack
              ELSE phase' = "walk" /\ stack' = <<Walk(a.result.doc, 0)>>
    /\ UNCHANGED <<world, attemptedDocuments, references>>

(* A reference that makes no URI.                                          *)
InvalidReference ==
    /\ Walking /\ Pending.to = Invalid
    /\ Push(Unread)
    /\ diagnostics' = diagnostics \cup {"missing"}
    /\ UNCHANGED <<world, spent, phase, tables>>

(* Mutant: the reference resolves to the URI it names.                     *)
LoadedReferenceAsNamed ==
    /\ Walking /\ Pending.to # Invalid
    /\ canonicalUri(Pending.to) \in documents
    /\ Push(IF Pending.found THEN Pending.to ELSE Unread)
    /\ diagnostics' = IF Pending.found THEN diagnostics
                      ELSE diagnostics \cup {"missing"}
    /\ UNCHANGED <<world, spent, phase, tables>>

(* The target has been loaded: only its pointer can still be missing.      *)
LoadedReference ==
    /\ Walking /\ Pending.to # Invalid
    /\ canonicalUri(Pending.to) \in documents
    /\ Push(IF Pending.found THEN canonicalUri(Pending.to) ELSE Unread)
    /\ diagnostics' = IF Pending.found THEN diagnostics
                      ELSE diagnostics \cup {"missing"}
    /\ UNCHANGED <<world, spent, phase, tables>>

NotLoaded == /\ Walking /\ Pending.to # Invalid
             /\ canonicalUri(Pending.to) \notin documents

(* It has been tried before; what went wrong then has been reported.       *)
GivenUpReference ==
    /\ NotLoaded
    /\ Pending.to \in failedDocuments \cup attemptedDocuments
    /\ Push(Unread)
    /\ UNCHANGED <<world, spent, phase, tables, diagnostics>>

Untried == NotLoaded /\ Pending.to \notin failedDocuments \cup attemptedDocuments

UnlocatedReference ==
    /\ Untried /\ Pending.to \notin world.located
    /\ attemptedDocuments' = attemptedDocuments \cup {Pending.to}
    /\ failedDocuments' = failedDocuments \cup {Pending.to}
    /\ diagnostics' = diagnostics \cup {"location"}
    /\ Push(Unread)
    /\ UNCHANGED <<world, spent, phase, documents, aliases>>

(* ensureDocument acquires it.  A new document is walked first, and then   *)
(* the reference is looked at again.                                       *)
AcquireReference ==
    /\ Untried /\ Pending.to \in world.located
    /\ attemptedDocuments' = attemptedDocuments \cup {Pending.to}
    /\ LET a == acquired(Pending.to, Top.depth + 1)
           isNew == New(a.result) \cap world.parses # {}
           known == HasSource(a.result) /\ a.result.doc \in documents
       IN  /\ spent' = a.spent
           /\ acquireDocument(Pending.to, a.result, {Pending.to})
           /\ diagnostics' = diagnostics \cup Complaints(a.result)
                 \cup (IF known /\ ~Pending.found THEN {"missing"} ELSE {})
           /\ IF isNew
              THEN /\ stack' = Append(stack, Walk(a.result.doc, Top.depth + 1))
                   /\ UNCHANGED references
              ELSE Push(IF known /\ Pending.found THEN a.result.doc ELSE Unread)
    /\ UNCHANGED <<world, phase>>

WalkEnds ==
    /\ phase = "walk" /\ Top.next > Len(world.refs[Top.doc])
    /\ stack' = SubSeq(stack, 1, Len(stack) - 1)
    /\ phase' = IF Len(stack) = 1 THEN "done" ELSE "walk"
    /\ UNCHANGED <<world, spent, tables, references, diagnostics>>

Next ==
    \/ Probe \/ AcquireEntry
    \/ InvalidReference \/ LoadedReference \/ GivenUpReference
    \/ UnlocatedReference \/ AcquireReference
    \/ WalkEnds

Spec == Init /\ [][Next]_vars

-----------------------------------------------------------------------------
Entries(d, i) == {k \in DOMAIN references : references[k].doc = d /\ references[k].at = i}

(* When the graph is built, each reference of each of its documents is      *)
(* listed, once, however the documents refer to each other                 *)
(* (reference-graph.ts:126, 147, 192).                                     *)
ListedOnce ==
    phase = "done" =>
        /\ \A d \in documents : \A i \in 1 .. Len(world.refs[d]) :
              Cardinality(Entries(d, i)) = 1
        /\ \A k \in DOMAIN references : references[k].doc \in documents

(* A reference listed without a target has been reported, by itself or by  *)
(* the first attempt at its document; so has an entry that gave no graph   *)
(* (reference-graph.ts:149-151, 200-207).                                  *)
NothingSilent ==
    phase = "done" /\ diagnostics = {} =>
        /\ documents # {}
        /\ \A k \in DOMAIN references : references[k].resolved # Unread

(* A resolved reference points into a document of the graph, the one its   *)
(* URI leads to, through links or not (reference-graph.ts:122-124, 227).   *)
ResolvedIsRight ==
    \A k \in DOMAIN references :
        LET r == references[k] IN
            r.resolved # Unread =>
                /\ r.resolved \in documents
                /\ r.resolved = world.source[world.refs[r.doc][r.at].to]

Closed(S) == \A d \in S : \A i \in 1 .. Len(world.refs[d]) :
                world.refs[d][i].to \in Uris /\ world.source[world.refs[d][i].to] \in S

(* A graph without a diagnostic is the documents the entry leads to, no    *)
(* more and no fewer, whatever the order of the walk and the limits        *)
(* (reference-graph.ts:96-282).                                            *)
CompleteWhenClean ==
    phase = "done" /\ diagnostics = {} =>
        /\ world.source[Entry] \in documents /\ Closed(documents)
        /\ \A S \in SUBSET Docs :
              world.source[Entry] \in S /\ Closed(S) => documents \subseteq S

(* The walk's budget has paid for each location it has a document of, once, *)
(* and so for every document of the graph, though the entry was paid for   *)
(* by another budget before and may be met again under its other name      *)
(* (memoized-source-acquirer.ts:42-59).                                    *)
PaidInFull ==
    LET has == {u \in Uris : HasSource(spent.cache[u]) /\ "walk" \in spent.accounted[u]}
    IN  /\ spent.budget["walk"].documentCount = Cardinality(has)
        /\ documents \subseteq {spent.cache[u].doc : u \in has}

(* The tables of the walk, its list of references and the budget agree.    *)
TablesAgree == TypeOK /\ ListedOnce /\ PaidInFull
====
