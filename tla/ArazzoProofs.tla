---- MODULE ArazzoProofs ----
(***************************************************************************)
(* Proofs about Arazzo documents.  Three things are kept at every step: of *)
(* each workflow the steps ordered so far stand once, each after all that  *)
(* has to be done before it; the workflows left behind have no step that   *)
(* could still be ordered; and what was said to be wrong and what was      *)
(* drawn is what the document and that order give.  What remains unordered *)
(* then is exactly what following the needs of the steps leads around in,  *)
(* which is shown by induction over the places of the order.               *)
(***************************************************************************)
EXTENDS ArazzoWorkflows, FoldProofs, TLAPS

(* A sequence has its entries in order, whatever set they are taken from.  *)
LEMMA SequencesAreInOrder ==
    ASSUME NEW S, NEW s \in Seq(S)
    PROVE  InOrder(s) /\ ToSet(s) \subseteq S /\ Len(s) \in Nat /\ DOMAIN s = 1 .. Len(s)
<1>1. Len(s) \in Nat /\ DOMAIN s = 1 .. Len(s) /\ \A n \in 1 .. Len(s) : s[n] \in S
    OBVIOUS
<1>2. ToSet(s) \subseteq S
    BY <1>1 DEF ToSet
<1>3. s \in Seq(ToSet(s))
    BY <1>1 DEF ToSet
<1>4. QED
    BY <1>1, <1>2, <1>3 DEF InOrder

(* What has its entries in order has them from the first to the last.      *)
LEMMA OrderIsSequence ==
    ASSUME NEW s, InOrder(s)
    PROVE  Len(s) \in Nat /\ DOMAIN s = 1 .. Len(s)
BY DEF InOrder

(* So has what is made of each of them.                                    *)
LEMMA ImagesAreInOrder ==
    ASSUME NEW s, InOrder(s), NEW f, DOMAIN f = DOMAIN s, f = [n \in DOMAIN s |-> f[n]]
    PROVE  InOrder(f) /\ Len(f) = Len(s)
<1>1. Len(s) \in Nat /\ DOMAIN s = 1 .. Len(s)
    BY OrderIsSequence
<1>2. f \in [1 .. Len(s) -> ToSet(f)]
    BY <1>1 DEF ToSet
<1>3. f \in Seq(ToSet(f)) /\ Len(f) = Len(s)
    BY <1>1, <1>2
<1>4. QED
    BY <1>3 DEF InOrder

(* The objects of a sequence, entry by entry.                              *)
KeepsObjects(f, entries, result) ==
    /\ f[0] = <<>> /\ result = f[Len(entries)]
    /\ \A n \in 1 .. Len(entries) : f[n] = WithEntry(f[n - 1], entries[n])

(* Leaving out what is not an object is done entry by entry.               *)
LEMMA ObjectsStepByStep ==
    ASSUME NEW entries, InOrder(entries)
    PROVE  \E f \in [0 .. Len(entries) -> Seq(ToSet(entries) \ {Bad})] :
              KeepsObjects(f, entries, Objects(entries))
<1> DEFINE k == Len(entries)
           O == ToSet(entries) \ {Bad}
           V == Seq(O)
           base == <<>>
           step == [x \in (1 .. k) \X V |-> WithEntry(x[2], entries[x[1]])]
           Folds(f) == f = [s \in SUBSET (1 .. k) |->
                              IF s = {} THEN base
                              ELSE WithEntry(f[s \ {Max(s)}], entries[Max(s)])]
           iter == CHOOSE f : Folds(f)
<1>1. k \in Nat /\ DOMAIN entries = 1 .. k /\ base \in V
    BY OrderIsSequence
<1>2. Objects(entries) = iter[1 .. k]
    BY <1>1 DEF Objects, FoldLeft, MapThenFoldSet
<1>3. step \in [(1 .. k) \X V -> V]
    <2>1. ASSUME NEW n \in 1 .. k, NEW v \in V PROVE WithEntry(v, entries[n]) \in V
        <3>1. entries[n] \in ToSet(entries)
            BY <1>1 DEF ToSet
        <3>2. QED
            BY <3>1 DEF WithEntry
    <2> HIDE DEF V, O
    <2>2. QED
        BY <2>1
<1>4. \A n \in 1 .. k, v \in V : step[<<n, v>>] = WithEntry(v, entries[n])
    OBVIOUS
<1> HIDE DEF k, base, step, V, O
<1>5. PICK f \in [SUBSET (1 .. k) -> V] : FoldsLeft(f, k, V, base, step)
    BY <1>1, <1>3, LeftFoldExists
<1>6. \A T \in (SUBSET (1 .. k)) \ {{}} : Max(T) \in 1 .. k
    BY <1>1, GreatestPicks
<1>7. Folds(f)
    <2>1. ASSUME NEW T \in SUBSET (1 .. k)
          PROVE  f[T] = IF T = {} THEN base ELSE WithEntry(f[T \ {Max(T)}], entries[Max(T)])
        <3>1. f[T \ {Max(T)}] \in V
            BY <1>5
        <3>2. QED
            BY <1>4, <1>5, <1>6, <3>1 DEF FoldsLeft
    <2>2. QED
        BY <1>5, <2>1
<1>8. Folds(iter)
    <2> HIDE DEF Folds
    <2> QED BY <1>7
<1> HIDE DEF iter
<1>9. FoldsLeft(iter, k, V, base, step)
    BY <1>4, <1>6, <1>8 DEF FoldsLeft
<1>10. PICK g \in [0 .. k -> V] : StepsUp(g, k, base, step, iter[1 .. k])
    BY <1>1, <1>3, <1>9, LeftFoldSteps
<1>11. \A n \in 1 .. k : g[n - 1] \in V
    BY <1>1, <1>10
<1>12. \A n \in 1 .. k : g[n] = WithEntry(g[n - 1], entries[n])
    BY <1>4, <1>10, <1>11 DEF StepsUp
<1>13. QED
    BY <1>2, <1>10, <1>12 DEF k, V, O, base, StepsUp, KeepsObjects

(* What is left is in order, and all of it are objects.                    *)
LEMMA ObjectsAreInOrder ==
    ASSUME NEW entries, InOrder(entries)
    PROVE  InOrder(Objects(entries)) /\ ToSet(Objects(entries)) \subseteq ToSet(entries) \ {Bad}
<1>1. PICK f \in [0 .. Len(entries) -> Seq(ToSet(entries) \ {Bad})] :
            KeepsObjects(f, entries, Objects(entries))
    BY ObjectsStepByStep
<1>2. Len(entries) \in 0 .. Len(entries)
    BY OrderIsSequence
<1>3. Objects(entries) \in Seq(ToSet(entries) \ {Bad})
    BY <1>1, <1>2 DEF KeepsObjects
<1>4. QED
    BY <1>3, SequencesAreInOrder

(* The workflows of a document and the steps of each are in order.         *)
Shape(d) ==
    /\ InOrder(d.workflows)
    /\ \A v \in DOMAIN d.workflows : InOrder(d.workflows[v].steps)

(* Reading a workflow keeps its steps in order.                            *)
LEMMA NormalWorkflowInOrder ==
    ASSUME NEW workflow, InOrder(workflow.steps)
    PROVE  InOrder(NormalWorkflow(workflow).steps)
<1> DEFINE steps == Objects(workflow.steps)
           made == [n \in DOMAIN steps |-> NormalStep(steps[n])]
<1>1. NormalWorkflow(workflow).steps = made
    BY DEF NormalWorkflow
<1>2. InOrder(steps)
    BY ObjectsAreInOrder
<1>3. DOMAIN made = DOMAIN steps /\ made = [n \in DOMAIN steps |-> made[n]]
    OBVIOUS
<1> HIDE DEF steps, made
<1>4. InOrder(made)
    BY <1>2, <1>3, ImagesAreInOrder
<1>5. QED
    BY <1>1, <1>4

(* Reading a document keeps its workflows and steps in order.              *)
LEMMA NormalDocumentInOrder ==
    ASSUME NEW given \in Inputs, given.raw # Bad
    PROVE  Shape(NormalDocument(given.raw))
<1> DEFINE workflows == Objects(given.raw.workflows)
           made == [v \in DOMAIN workflows |-> NormalWorkflow(workflows[v])]
<1>1. NormalDocument(given.raw).workflows = made
    BY DEF NormalDocument
<1>2. InOrder(workflows) /\ ToSet(workflows) \subseteq ToSet(given.raw.workflows) \ {Bad}
    BY InputsAssumption, ObjectsAreInOrder
<1>3. ASSUME NEW v \in DOMAIN workflows PROVE InOrder(made[v].steps)
    <2>1. workflows[v] \in ToSet(given.raw.workflows) /\ workflows[v] # Bad
        BY <1>2 DEF ToSet
    <2>2. InOrder(workflows[v].steps)
        BY <2>1, InputsAssumption
    <2>3. QED
        BY <2>2, NormalWorkflowInOrder
<1>4. DOMAIN made = DOMAIN workflows /\ made = [v \in DOMAIN workflows |-> made[v]]
    OBVIOUS
<1> HIDE DEF workflows, made
<1>5. InOrder(made)
    BY <1>2, <1>4, ImagesAreInOrder
<1>6. QED
    BY <1>1, <1>3, <1>4, <1>5 DEF Shape

(* The names of the steps of a workflow, and what has to be done before.   *)
StepNames(v) == {s.stepId : s \in ToSet(StepsOf(v))}
Needs(v, x) == GraphDependencies(document.workflows[v], x)

(* What has to be done before a step is a step of the same workflow.       *)
LEMMA NeedsAreNames ==
    ASSUME NEW v, NEW x
    PROVE  Needs(v, x) \subseteq StepNames(v)
<1>1. ASSUME NEW d, IndexOf(document.workflows[v], d) # 0 PROVE d \in StepNames(v)
    BY <1>1 DEF IndexOf, StepNames, ToSet, StepsOf
<1>2. QED
    BY <1>1 DEF Needs, GraphDependencies

(* What is looked at is there, and an order goes with every workflow.      *)
Shapes ==
    /\ raw # Bad => \E given \in Inputs : raw = given.raw
    /\ \E given \in Inputs : sources = given.sources
    /\ Shape(document)
    /\ at \in {"read", "order", "connect", "done", "refused", "thrown"}
    /\ w \in 1 .. Len(document.workflows) + 1 /\ i \in Nat \ {0} /\ advanced \in BOOLEAN
    /\ DOMAIN order = DOMAIN document.workflows
    /\ at = "read" => order = <<>> /\ document.workflows = <<>> /\ w = 1 /\ i = 1

(* The steps of a workflow are put in order once, each of them after what  *)
(* has to be done before it.                                               *)
InTurn(v) ==
    /\ order[v] \in Seq(StepNames(v)) /\ IsInjective(order[v])
    /\ \A n \in DOMAIN order[v] : \A d \in Needs(v, order[v][n]) :
          \E m \in DOMAIN order[v] : m < n /\ order[v][m] = d

(* No step of a workflow can be ordered any more.                          *)
Exhausted(v) == \A x \in StepNames(v) : ~Ready(v, x)

Ordered ==
    /\ \A v \in DOMAIN order : InTurn(v)
    /\ at = "order" =>
          /\ \A v \in 1 .. w - 1 : Exhausted(v)
          /\ ~advanced /\ w <= Len(document.workflows) =>
                \A j \in DOMAIN StepsOf(w) : j < i => ~Ready(w, StepsOf(w)[j].stepId)
    /\ Judged => \A v \in DOMAIN order : Exhausted(v)

(* The workflows and the steps are numbered.                               *)
LEMMA ShapesOfDocument ==
    ASSUME Shape(document)
    PROVE  /\ Len(document.workflows) \in Nat
           /\ DOMAIN document.workflows = 1 .. Len(document.workflows)
           /\ \A v \in DOMAIN document.workflows :
                 Len(StepsOf(v)) \in Nat /\ DOMAIN StepsOf(v) = 1 .. Len(StepsOf(v))
BY OrderIsSequence DEF Shape, StepsOf

(* The shapes hold at the start, and every step keeps them.                *)
LEMMA InitShapes == Init => Shapes
<1> SUFFICES ASSUME Init PROVE Shapes
    OBVIOUS
<1>2. document.workflows = <<>> /\ order = <<>> /\ w = 1 /\ i = 1 /\ at = "read"
    BY DEF Init
<1>6. advanced \in BOOLEAN
    BY DEF Init
<1>7. /\ raw # Bad => \E given \in Inputs : raw = given.raw
      /\ \E given \in Inputs : sources = given.sources
    BY DEF Init
<1>3. InOrder(<<>>) /\ Len(<<>>) = 0 /\ DOMAIN <<>> = {}
    <2>1. <<>> \in Seq({}) /\ Len(<<>>) = 0 /\ DOMAIN <<>> = {}
        OBVIOUS
    <2>2. QED
        BY <2>1, SequencesAreInOrder
<1>4. Shape(document)
    BY <1>2, <1>3 DEF Shape
<1>5. QED
    BY <1>2, <1>3, <1>4, <1>6, <1>7 DEF Shapes

LEMMA NextShapes == Shapes /\ [Next]_vars => Shapes'
<1> SUFFICES ASSUME Shapes, [Next]_vars PROVE Shapes'
    OBVIOUS
<1> USE DEF Shapes
<1>1. Len(document.workflows) \in Nat
      /\ DOMAIN document.workflows = 1 .. Len(document.workflows)
    BY ShapesOfDocument
<1>2. CASE Read
    <2>1. CASE raw # Bad /\ raw.version = "1.1"
        <3>1. Shape(NormalDocument(raw))
            BY <2>1, NormalDocumentInOrder
        <3>2. document' = NormalDocument(raw) /\ at' = "order" /\ w' = 1 /\ i' = i
              /\ raw' = raw /\ sources' = sources /\ advanced' = advanced
              /\ order' = [v \in DOMAIN document'.workflows |-> <<>>]
            BY <1>2, <2>1 DEF Read, input
        <3>3. Shape(document') /\ Len(document'.workflows) \in Nat
            BY <3>1, <3>2, OrderIsSequence DEF Shape
        <3>4. QED
            BY <3>2, <3>3 DEF Shape
    <2>2. CASE ~(raw # Bad /\ raw.version = "1.1")
        BY <1>2, <2>2 DEF Read, input, Shape
    <2>3. QED
        BY <2>1, <2>2
<1>3. CASE Visit
    <2>1. DOMAIN order' = DOMAIN order
        BY <1>3 DEF Visit
    <2>2. advanced' \in BOOLEAN
        BY <1>3 DEF Visit, Ready
    <2>3. QED
        BY <1>3, <2>1, <2>2 DEF Visit, input, Shape
<1>4. CASE Round
    <2>1. w' \in 1 .. Len(document.workflows) + 1
        BY <1>1, <1>4 DEF Round
    <2>2. ~advanced' /\ i' = 1 /\ at' = at /\ at = "order"
        BY <1>4 DEF Round
    <2>4. document' = document /\ order' = order /\ raw' = raw /\ sources' = sources
        BY <1>4 DEF Round, input
    <2>5. advanced' \in BOOLEAN
        BY <1>4 DEF Round
    <2>3. QED
        BY <2>1, <2>2, <2>4, <2>5 DEF Shape
<1>5. CASE Judge
    BY <1>1, <1>5 DEF Judge, input, Shape
<1>6. CASE Connect
    <2>1. (at' = "thrown" /\ w' = w) \/ (at' = at /\ w' = w + 1 /\ w <= Len(document.workflows))
        BY <1>6 DEF Connect
    <2>4. at = "connect"
        BY <1>6 DEF Connect
    <2>2. advanced' = advanced /\ i' = i /\ document' = document
          /\ order' = order /\ raw' = raw /\ sources' = sources
        BY <1>6 DEF Connect, input
    <2>3. QED
        BY <1>1, <2>1, <2>2, <2>4 DEF Shape
<1>7. CASE Assemble
    BY <1>7 DEF Assemble, input, loop, Shape
<1>8. CASE UNCHANGED vars
    BY <1>8 DEF vars, input, loop, Shape
<1>9. QED
    BY <1>2, <1>3, <1>4, <1>5, <1>6, <1>7, <1>8 DEF Next

(* Another step comes in its turn when what has to be done before it is.   *)
LEMMA NextInTurn ==
    ASSUME NEW N, NEW s \in Seq(N), IsInjective(s), NEW x \in N, x \notin ToSet(s)
    PROVE  LET t == Append(s, x)
           IN /\ t \in Seq(N) /\ IsInjective(t) /\ Len(s) \in Nat
              /\ DOMAIN s = 1 .. Len(s) /\ DOMAIN t = 1 .. Len(s) + 1
              /\ t[Len(s) + 1] = x /\ \A n \in 1 .. Len(s) : t[n] = s[n]
<1> DEFINE t == Append(s, x)
           k == Len(s)
<1>1. k \in Nat /\ DOMAIN s = 1 .. k
    OBVIOUS
<1>2. t \in Seq(N)
    OBVIOUS
<1>3. Len(t) = k + 1 /\ t[k + 1] = x /\ \A n \in 1 .. k : t[n] = s[n]
    OBVIOUS
<1>4. DOMAIN t = 1 .. k + 1
    BY <1>1, <1>2, <1>3
<1>5. \A n \in 1 .. k : s[n] # x
    BY <1>1 DEF ToSet
<1> HIDE DEF t, k
<1>6. IsInjective(t)
    <2>1. ASSUME NEW a \in 1 .. k + 1, NEW b \in 1 .. k + 1, t[a] = t[b] PROVE a = b
        <3>1. CASE a = k + 1 /\ b = k + 1
            BY <3>1
        <3>2. CASE a \in 1 .. k /\ b \in 1 .. k
            BY <1>1, <1>3, <2>1, <3>2 DEF IsInjective
        <3>3. CASE a = k + 1 /\ b \in 1 .. k
            BY <1>3, <1>5, <2>1, <3>3
        <3>4. CASE b = k + 1 /\ a \in 1 .. k
            BY <1>3, <1>5, <2>1, <3>4
        <3>5. QED
            BY <1>1, <3>1, <3>2, <3>3, <3>4
    <2>2. QED
        BY <1>4, <2>1 DEF IsInjective
<1>7. QED
    BY <1>1, <1>2, <1>3, <1>4, <1>6 DEF t, k

(* Looking at a step keeps the order of its workflow one of turns.         *)
LEMMA VisitTurn ==
    ASSUME Shapes, Visit, NEW v, v = w, InTurn(v)
    PROVE  InTurn(v)'
<1> DEFINE x == Step_.stepId
           s == order[v]
<1>1. v \in DOMAIN document.workflows /\ v \in DOMAIN order /\ i \in DOMAIN Workflow.steps
    BY ShapesOfDocument DEF Visit, Shapes, Workflow, StepsOf
<1>2. x \in StepNames(v)
    BY <1>1 DEF StepNames, StepsOf, Step_, Workflow, ToSet
<1>3. document' = document
    BY DEF Visit
<1>4. CASE ~Ready(v, x)
    <2>1. order' = order
        BY <1>4 DEF Visit
    <2>2. QED
        BY <1>3, <2>1 DEF InTurn, StepNames, Needs, StepsOf
<1>5. CASE Ready(v, x)
    <2> DEFINE t == Append(s, x)
    <2>1. order'[v] = t
        BY <1>1, <1>5 DEF Visit
    <2>2. /\ s \in Seq(StepNames(v)) /\ IsInjective(s)
          /\ x \notin ToSet(s) /\ Needs(v, x) \subseteq ToSet(s)
        BY <1>5 DEF InTurn, Ready, Needs
    <2>3. /\ t \in Seq(StepNames(v)) /\ IsInjective(t) /\ Len(s) \in Nat
          /\ DOMAIN s = 1 .. Len(s) /\ DOMAIN t = 1 .. Len(s) + 1
          /\ t[Len(s) + 1] = x /\ \A n \in 1 .. Len(s) : t[n] = s[n]
        BY <1>2, <2>2, NextInTurn
    <2> HIDE DEF t
    <2>4. ASSUME NEW n \in DOMAIN t, NEW d \in Needs(v, t[n])
          PROVE  \E m \in DOMAIN t : m < n /\ t[m] = d
        <3>1. CASE n = Len(s) + 1
            <4>1. d \in ToSet(s)
                BY <2>2, <2>3, <2>4, <3>1
            <4>2. PICK m \in 1 .. Len(s) : s[m] = d
                BY <2>3, <4>1 DEF ToSet
            <4>3. QED
                BY <2>3, <3>1, <4>2
        <3>2. CASE n \in 1 .. Len(s)
            <4>0. t[n] = s[n] /\ n \in DOMAIN s
                BY <2>3, <3>2
            <4>3. d \in Needs(v, s[n])
                BY <2>4, <4>0
            <4>1. PICK m \in DOMAIN s : m < n /\ s[m] = d
                BY <4>0, <4>3 DEF InTurn
            <4>2. QED
                BY <2>3, <4>1
        <3>3. QED
            BY <2>3, <3>1, <3>2
    <2>5. StepNames(v)' = StepNames(v) /\ \A y : Needs(v, y)' = Needs(v, y)
        BY <1>3 DEF StepNames, Needs, StepsOf
    <2>6. QED
        <3>1. order'[v] \in Seq(StepNames(v)') /\ IsInjective(order'[v])
            BY <2>1, <2>3, <2>5
        <3>2. \A n \in DOMAIN order'[v] : \A d \in Needs(v, order'[v][n]) :
                 \E m \in DOMAIN order'[v] : m < n /\ order'[v][m] = d
            BY <2>1, <2>4
        <3>3. QED
            BY <1>3, <2>5, <3>1, <3>2 DEF InTurn, Needs
<1>6. QED
    BY <1>4, <1>5

(* What is said of a workflow stays while its steps and their order do.    *)
LEMMA TurnsStay ==
    ASSUME document' = document, NEW v, order'[v] = order[v]
    PROVE  /\ InTurn(v) => InTurn(v)'
           /\ Exhausted(v) => Exhausted(v)'
           /\ StepsOf(v)' = StepsOf(v)
           /\ \A x : ~Ready(v, x) => ~Ready(v, x)'
<1>1. StepsOf(v)' = StepsOf(v) /\ StepNames(v)' = StepNames(v)
    BY DEF StepsOf, StepNames
<1>2. \A x : ~Ready(v, x) => ~Ready(v, x)'
    BY DEF Ready
<1>3. Exhausted(v) => Exhausted(v)'
    BY <1>1, <1>2 DEF Exhausted
<1>4. InTurn(v) => InTurn(v)'
    BY <1>1 DEF InTurn, Needs
<1>5. QED
    BY <1>1, <1>2, <1>3, <1>4

(* The order is empty at the start, and every step keeps the turns.        *)
LEMMA InitOrdered == Init => Ordered
<1> SUFFICES ASSUME Init PROVE Ordered
    OBVIOUS
<1>1. order = <<>> /\ w = 1 /\ at = "read"
    BY DEF Init
<1>2. QED
    BY <1>1 DEF Ordered, Judged

LEMMA NextOrdered == Shapes /\ Ordered /\ [Next]_vars => Ordered'
<1> SUFFICES ASSUME Shapes, Ordered, [Next]_vars PROVE Ordered'
    OBVIOUS
<1>1. Len(document.workflows) \in Nat
      /\ DOMAIN order = 1 .. Len(document.workflows)
      /\ w \in 1 .. Len(document.workflows) + 1
    BY ShapesOfDocument DEF Shapes
<1>2. CASE Read
    <2>1. CASE raw # Bad /\ raw.version = "1.1"
        <3>1. at' = "order" /\ w' = 1 /\ i' = 1
              /\ order' = [v \in DOMAIN document'.workflows |-> <<>>]
            BY <1>2, <2>1 DEF Read, Shapes
        <3>2. ASSUME NEW v \in DOMAIN order' PROVE InTurn(v)'
            <4>1. order'[v] = <<>>
                BY <3>1
            <4>2. <<>> \in Seq(StepNames(v)') /\ DOMAIN <<>> = {}
                OBVIOUS
            <4>3. QED
                BY <4>1, <4>2 DEF InTurn, IsInjective
        <3>3. \A v \in 1 .. w' - 1 : Exhausted(v)'
            BY <3>1
        <3>4. ASSUME w' <= Len(document'.workflows), NEW j \in DOMAIN StepsOf(w)'
              PROVE  ~(j < i')
            <4>1. InOrder(document'.workflows)
                  /\ \A v \in DOMAIN document'.workflows : InOrder(document'.workflows[v].steps)
                BY NextShapes DEF Shapes, Shape
            <4>2. w' \in DOMAIN document'.workflows
                BY <3>1, <3>4, <4>1, OrderIsSequence
            <4>3. DOMAIN document'.workflows[w'].steps = 1 .. Len(document'.workflows[w'].steps)
                  /\ Len(document'.workflows[w'].steps) \in Nat
                BY <4>1, <4>2, OrderIsSequence
            <4>4. j \in 1 .. Len(document'.workflows[w'].steps)
                BY <3>4, <4>3 DEF StepsOf
            <4>5. QED
                BY <3>1, <4>3, <4>4
        <3>5. QED
            BY <3>1, <3>2, <3>3, <3>4 DEF Ordered, Judged
    <2>2. CASE ~(raw # Bad /\ raw.version = "1.1")
        <3>1. at' = "refused" /\ document' = document /\ order' = order
            BY <1>2, <2>2 DEF Read
        <3>2. QED
            BY <3>1, TurnsStay DEF Ordered, Judged
    <2>3. QED
        BY <2>1, <2>2
<1>3. CASE Visit
    <2>1. w \in DOMAIN order /\ i \in DOMAIN StepsOf(w) /\ i \in Nat
          /\ DOMAIN StepsOf(w) = 1 .. Len(StepsOf(w)) /\ Len(StepsOf(w)) \in Nat
        BY <1>1, <1>3, ShapesOfDocument DEF Visit, Shapes, Workflow, StepsOf
    <2>2. document' = document /\ w' = w /\ at' = "order" /\ at = "order" /\ i' = i + 1
        BY <1>3 DEF Visit
    <2>3. DOMAIN order' = DOMAIN order
          /\ \A v \in DOMAIN order : v # w => order'[v] = order[v]
        BY <1>3 DEF Visit
    <2>4. \A v \in DOMAIN order : InTurn(v)'
        BY <1>3, <2>2, <2>3, VisitTurn, TurnsStay DEF Ordered
    <2>5. \A v \in 1 .. w - 1 : Exhausted(v)'
        BY <1>1, <2>2, <2>3, TurnsStay DEF Ordered
    <2>6. ASSUME ~advanced', NEW j \in DOMAIN StepsOf(w), j < i + 1
          PROVE  ~Ready(w, StepsOf(w)[j].stepId)'
        <3>1. ~Ready(w, Step_.stepId) /\ ~advanced
            BY <1>3, <2>6 DEF Visit
        <3>2. order' = order
            BY <1>3, <3>1 DEF Visit
        <3>3. ~Ready(w, StepsOf(w)[j].stepId)
            <4>1. CASE j = i
                BY <3>1, <4>1 DEF Step_, Workflow, StepsOf
            <4>2. CASE j < i
                BY <1>1, <2>1, <2>2, <3>1, <4>2 DEF Ordered
            <4>3. QED
                BY <2>1, <2>6, <4>1, <4>2
        <3>4. QED
            BY <2>2, <3>2, <3>3 DEF Ready, StepsOf
    <2>7. StepsOf(w)' = StepsOf(w)
        BY <2>2 DEF StepsOf
    <2>8. QED
        BY <2>2, <2>3, <2>4, <2>5, <2>6, <2>7 DEF Ordered, Judged
<1>4. CASE Round
    <2>1. document' = document /\ order' = order /\ at' = "order" /\ at = "order" /\ i' = 1
          /\ w <= Len(document.workflows) /\ i > Len(StepsOf(w))
        BY <1>4 DEF Round, Workflow, StepsOf
    <2>2. \A v \in DOMAIN order : InTurn(v)'
        BY <2>1, TurnsStay DEF Ordered
    <2>3. w \in DOMAIN document.workflows /\ DOMAIN StepsOf(w) = 1 .. Len(StepsOf(w))
          /\ Len(StepsOf(w)) \in Nat /\ i \in Nat
        BY <1>1, <2>1, ShapesOfDocument DEF Shapes
    <2>4. \A v \in 1 .. w' - 1 : Exhausted(v)
        <3>1. CASE advanced
            <4>1. w' = w
                BY <1>4, <3>1 DEF Round, VisitAgain
            <4>2. QED
                BY <2>1, <4>1 DEF Ordered
        <3>2. CASE ~advanced
            <4>1. w' = w + 1
                BY <1>4, <3>2 DEF Round, VisitAgain
            <4>2. \A j \in DOMAIN StepsOf(w) : ~Ready(w, StepsOf(w)[j].stepId)
                BY <2>1, <2>3, <3>2 DEF Ordered
            <4>3. Exhausted(w)
                BY <4>2 DEF Exhausted, StepNames, ToSet
            <4>4. \A v \in 1 .. w : v = w \/ v \in 1 .. w - 1
                BY <1>1
            <4>5. QED
                BY <1>1, <2>1, <4>1, <4>3, <4>4 DEF Ordered
        <3>3. QED
            BY <3>1, <3>2
    <2>5. \A v \in 1 .. w' - 1 : Exhausted(v)'
        BY <2>1, <2>4, TurnsStay
    <2>6. QED
        BY <2>1, <2>2, <2>5 DEF Ordered, Judged
<1>5. CASE Judge
    <2>1. document' = document /\ order' = order /\ at' = "connect" /\ at = "order"
          /\ w > Len(document.workflows)
        BY <1>5 DEF Judge
    <2>2. \A v \in DOMAIN order : Exhausted(v)'
        BY <1>1, <2>1, TurnsStay DEF Ordered
    <2>3. QED
        BY <2>1, <2>2, TurnsStay DEF Ordered
<1>6. CASE Connect \/ Assemble \/ UNCHANGED vars
    <2>1. document' = document /\ order' = order
        BY <1>6 DEF Connect, Assemble, vars, loop
    <2>2. CASE Connect \/ Assemble
        <3>1. at = "connect" /\ at' # "order"
            BY <2>2 DEF Connect, Assemble
        <3>2. QED
            BY <2>1, <3>1, TurnsStay DEF Ordered, Judged
    <2>3. CASE UNCHANGED vars
        <3>1. at' = at /\ w' = w /\ i' = i /\ advanced' = advanced
            BY <2>3 DEF vars, loop
        <3>2. StepsOf(w)' = StepsOf(w) /\ \A v, x : Ready(v, x)' = Ready(v, x)
            BY <2>1, <3>1 DEF StepsOf, Ready
        <3>3. QED
            BY <2>1, <3>1, <3>2, TurnsStay DEF Ordered, Judged
    <2>4. QED
        BY <1>6, <2>2, <2>3
<1>7. QED
    BY <1>2, <1>3, <1>4, <1>5, <1>6 DEF Next

Semantic == SemanticErrors(document, order)

(* What is wrong was said, and how much is supported.                      *)
Verdict ==
    /\ at \in {"read", "order", "refused"} => level[1] = ""
    /\ Judged \/ at = "thrown" =>
          /\ errors = Semantic \cup
                (({0} \X ReadingErrors(raw)) \cup ({0} \X AddressErrors(document)))
          /\ level[1] = DocumentLevel(document, Semantic)
          /\ level[2] = [v \in DOMAIN document.workflows |-> WorkflowLevel(document, Semantic, v)]

(* The workflows before the one that is looked at have been drawn.         *)
Drawn ==
    /\ at \in {"read", "order", "refused"} => edges = <<>> /\ problems = <<>>
    /\ Judged =>
          /\ edges \in Seq({WorkflowEdges(document.workflows[v]) : v \in DOMAIN document.workflows})
          /\ problems \in Seq({ProjectionErrors(document, sources, document.workflows[v]) :
                                  v \in DOMAIN document.workflows})
          /\ Len(edges) = w - 1 /\ Len(problems) = w - 1
          /\ \A v \in DOMAIN edges :
                /\ edges[v] = WorkflowEdges(document.workflows[v])
                /\ problems[v] = ProjectionErrors(document, sources, document.workflows[v])
                /\ OperationEdges(document, sources, document.workflows[v]) \subseteq between
    /\ at = "done" =>
          /\ graphs[1] = Assembled(Endpoints(sources),
                                   between \cup UNION {SourceLinks(s) : s \in ToSet(sources)})
          /\ graphs[2] = [v \in DOMAIN document.workflows |->
                Assembled({s.stepId : s \in ToSet(document.workflows[v].steps)}, edges[v])]

IInv == Shapes /\ Ordered /\ Verdict /\ Drawn

(* Nothing is said or drawn at the start.                                  *)
LEMMA InitVerdict == Init => Verdict /\ Drawn
<1> SUFFICES ASSUME Init PROVE Verdict /\ Drawn
    OBVIOUS
<1>1. at = "read" /\ level = <<"", <<>>>> /\ edges = <<>> /\ problems = <<>>
    BY DEF Init
<1>2. QED
    BY <1>1 DEF Verdict, Drawn, Judged

(* Every step keeps what was said true.                                    *)
LEMMA NextVerdict == Shapes /\ Verdict /\ [Next]_vars => Verdict'
<1> SUFFICES ASSUME Shapes, Verdict, [Next]_vars PROVE Verdict'
    OBVIOUS
<1>1. CASE Read
    <2>1. at = "read" /\ level' = level /\ at' \in {"order", "refused"}
        BY <1>1 DEF Read, verdict
    <2>2. QED
        BY <2>1 DEF Verdict, Judged
<1>2. CASE Visit \/ Round
    <2>1. at = "order" /\ level' = level /\ at' = "order"
        BY <1>2 DEF Visit, Round, verdict
    <2>2. QED
        BY <2>1 DEF Verdict, Judged
<1>3. CASE Judge
    <2>1. at' = "connect" /\ document' = document /\ order' = order /\ raw' = raw
        BY <1>3 DEF Judge, input
    <2>2. /\ errors' = Semantic \cup
                (({0} \X ReadingErrors(raw)) \cup ({0} \X AddressErrors(document)))
          /\ level' = <<DocumentLevel(document, Semantic),
                        [v \in DOMAIN document.workflows |-> WorkflowLevel(document, Semantic, v)]>>
        BY <1>3 DEF Judge, Semantic
    <2>3. Semantic' = Semantic
        BY <2>1 DEF Semantic
    <2>4. QED
        BY <2>1, <2>2, <2>3 DEF Verdict, Judged
<1>4. CASE Connect \/ Assemble
    <2>1. document' = document /\ order' = order /\ raw' = raw /\ errors' = errors /\ level' = level
          /\ at = "connect" /\ at' \in {"connect", "done", "thrown"}
        BY <1>4 DEF Connect, Assemble, input, verdict, loop
    <2>2. Semantic' = Semantic
        BY <2>1 DEF Semantic
    <2>3. QED
        BY <2>1, <2>2 DEF Verdict, Judged
<1>5. CASE UNCHANGED vars
    <2>1. document' = document /\ order' = order /\ raw' = raw /\ errors' = errors /\ level' = level
          /\ at' = at
        BY <1>5 DEF vars, input, verdict, loop
    <2>2. Semantic' = Semantic
        BY <2>1 DEF Semantic
    <2>3. QED
        BY <2>1, <2>2 DEF Verdict, Judged
<1>6. QED
    BY <1>1, <1>2, <1>3, <1>4, <1>5 DEF Next

(* Another workflow is drawn.                                              *)
LEMMA AppendedIs ==
    ASSUME NEW T, NEW s \in Seq(T), NEW x \in T
    PROVE  /\ Append(s, x) \in Seq(T) /\ Len(Append(s, x)) = Len(s) + 1 /\ Len(s) \in Nat
           /\ DOMAIN s = 1 .. Len(s) /\ DOMAIN Append(s, x) = 1 .. Len(s) + 1
           /\ Append(s, x)[Len(s) + 1] = x /\ \A n \in 1 .. Len(s) : Append(s, x)[n] = s[n]
<1>1. Append(s, x) \in Seq(T) /\ Len(Append(s, x)) = Len(s) + 1 /\ Len(s) \in Nat
    OBVIOUS
<1>2. DOMAIN s = 1 .. Len(s) /\ DOMAIN Append(s, x) = 1 .. Len(Append(s, x))
    BY <1>1
<1>3. Append(s, x)[Len(s) + 1] = x /\ \A n \in 1 .. Len(s) : Append(s, x)[n] = s[n]
    OBVIOUS
<1>4. QED
    BY <1>1, <1>2, <1>3

(* Every step keeps what was drawn true.                                   *)
LEMMA NextDrawn == Shapes /\ Drawn /\ [Next]_vars => Drawn'
<1> SUFFICES ASSUME Shapes, Drawn, [Next]_vars PROVE Drawn'
    OBVIOUS
<1>1. CASE Read \/ Visit \/ Round
    <2>1. at \in {"read", "order"} /\ edges' = edges /\ problems' = problems
          /\ at' \in {"order", "refused"}
        BY <1>1 DEF Read, Visit, Round, shown
    <2>2. QED
        BY <2>1 DEF Drawn, Judged
<1>2. CASE Judge
    <2>1. at = "order" /\ edges' = edges /\ problems' = problems /\ at' = "connect" /\ w' = 1
        BY <1>2 DEF Judge, shown
    <2>2. edges' = <<>> /\ problems' = <<>>
        BY <2>1 DEF Drawn
    <2>3. QED
        BY <2>1, <2>2 DEF Drawn, Judged
<1>3. CASE Connect
    <2>1. CASE at' = "thrown"
        BY <2>1 DEF Drawn, Judged
    <2>2. CASE at' # "thrown"
        <3> DEFINE E == {WorkflowEdges(document.workflows[v]) : v \in DOMAIN document.workflows}
                   Q == {ProjectionErrors(document, sources, document.workflows[v]) :
                            v \in DOMAIN document.workflows}
                   e == WorkflowEdges(document.workflows[w])
                   q == ProjectionErrors(document, sources, document.workflows[w])
                   o == OperationEdges(document, sources, document.workflows[w])
        <3>1. /\ at = "connect" /\ w <= Len(document.workflows)
              /\ document' = document /\ sources' = sources
              /\ edges' = Append(edges, e) /\ problems' = Append(problems, q)
              /\ between' = between \cup o /\ w' = w + 1 /\ at' = at
            BY <1>3, <2>2 DEF Connect, Workflow, input
        <3>2. w \in DOMAIN document.workflows /\ w \in Nat
            BY <3>1, ShapesOfDocument DEF Shapes
        <3>3. e \in E /\ q \in Q
            BY <3>2
        <3>4. edges \in Seq(E) /\ problems \in Seq(Q) /\ Len(edges) = w - 1 /\ Len(problems) = w - 1
            BY <3>1 DEF Drawn, Judged
        <3>5. \A v \in DOMAIN edges :
                /\ edges[v] = WorkflowEdges(document.workflows[v])
                /\ problems[v] = ProjectionErrors(document, sources, document.workflows[v])
                /\ OperationEdges(document, sources, document.workflows[v]) \subseteq between
            BY <3>1 DEF Drawn, Judged
        <3> HIDE DEF E, Q, e, q, o
        <3>6. /\ edges' \in Seq(E) /\ Len(edges') = w /\ DOMAIN edges = 1 .. w - 1
              /\ DOMAIN edges' = 1 .. w /\ edges'[w] = e
              /\ \A v \in 1 .. w - 1 : edges'[v] = edges[v]
            <4>1. (w - 1) + 1 = w
                BY <3>2
            <4>2. QED
                BY <3>1, <3>3, <3>4, <4>1, AppendedIs
        <3>7. /\ problems' \in Seq(Q) /\ Len(problems') = w /\ problems'[w] = q
              /\ \A v \in 1 .. w - 1 : problems'[v] = problems[v]
            <4>1. (w - 1) + 1 = w
                BY <3>2
            <4>2. QED
                BY <3>1, <3>3, <3>4, <4>1, AppendedIs
        <3>8. ASSUME NEW v \in DOMAIN edges'
              PROVE  /\ edges'[v] = WorkflowEdges(document.workflows[v])
                     /\ problems'[v] = ProjectionErrors(document, sources, document.workflows[v])
                     /\ OperationEdges(document, sources, document.workflows[v]) \subseteq between'
            <4>1. CASE v = w
                BY <3>1, <3>6, <3>7, <4>1 DEF e, q, o
            <4>2. CASE v \in 1 .. w - 1
                BY <3>1, <3>5, <3>6, <3>7, <4>2
            <4>3. QED
                BY <3>2, <3>6, <4>1, <4>2
        <3>9. QED
            BY <3>1, <3>2, <3>6, <3>7, <3>8 DEF Drawn, Judged, E, Q
    <2>3. QED
        BY <2>1, <2>2
<1>4. CASE Assemble
    <2>1. /\ at = "connect" /\ at' = "done" /\ document' = document /\ sources' = sources
          /\ edges' = edges /\ problems' = problems /\ between' = between /\ w' = w
        BY <1>4 DEF Assemble, input, loop
    <2>2. graphs' =
         <<Assembled(Endpoints(sources), between \cup UNION {SourceLinks(s) : s \in ToSet(sources)}),
           [v \in DOMAIN document.workflows |->
               Assembled({s.stepId : s \in ToSet(document.workflows[v].steps)}, edges[v])]>>
        BY <1>4 DEF Assemble
    <2>3. QED
        BY <2>1, <2>2 DEF Drawn, Judged
<1>5. CASE UNCHANGED vars
    BY <1>5 DEF vars, input, shown, loop, Drawn, Judged
<1>6. QED
    BY <1>1, <1>2, <1>3, <1>4, <1>5 DEF Next

(* What is kept at every step holds for every document and all sources.    *)
THEOREM InvariantHolds == Spec => []IInv
<1>1. Init => IInv
    BY InitShapes, InitOrdered, InitVerdict DEF IInv
<1>2. IInv /\ [Next]_vars => IInv'
    BY NextShapes, NextOrdered, NextVerdict, NextDrawn DEF IInv
<1>3. QED
    BY <1>1, <1>2, PTL DEF Spec

(* The types and the steps of an order are right.                          *)
LEMMA TypeFollows == ASSUME IInv PROVE TypeOK
<1>1. \A v \in DOMAIN order : ToSet(order[v]) \subseteq StepNames(v) /\ IsInjective(order[v])
    BY SequencesAreInOrder DEF IInv, Ordered, InTurn
<1>2. \A v \in DOMAIN order :
          ToSet(order[v]) \subseteq {s.stepId : s \in ToSet(document.workflows[v].steps)}
    BY <1>1 DEF StepNames, StepsOf
<1>3. DocumentLevel(document, Semantic) \in {"supported", "preserve-only", "invalid"}
    BY DEF DocumentLevel
<1>4. level[1] \in {"", "supported", "preserve-only", "invalid"}
    BY <1>3 DEF IInv, Shapes, Verdict, Judged
<1>5. QED
    BY <1>1, <1>2, <1>4 DEF TypeOK, IInv, Shapes

(* The place of a step in the order.                                       *)
LEMMA PositionIs ==
    ASSUME NEW v, IsInjective(order[v]), NEW n \in DOMAIN order[v]
    PROVE  Position(v, order[v][n]) = n
BY DEF Position, IsInjective

(* When no two steps have the same name a step is the last one of its name.*)
LEMMA OnlyOneOfAName ==
    ASSUME Shape(document), NEW v \in DOMAIN document.workflows, ~RepeatedSteps(StepsOf(v)),
           NEW j \in DOMAIN StepsOf(v)
    PROVE  Max({k \in DOMAIN document.workflows[v].steps :
                   document.workflows[v].steps[k].stepId = StepsOf(v)[j].stepId}) = j
<1> DEFINE same == {k \in DOMAIN document.workflows[v].steps :
                      document.workflows[v].steps[k].stepId = StepsOf(v)[j].stepId}
           keys == [k \in DOMAIN StepsOf(v) |-> StepsOf(v)[k].stepId]
<1>1. Len(StepsOf(v)) \in Nat /\ DOMAIN StepsOf(v) = 1 .. Len(StepsOf(v))
    BY ShapesOfDocument
<1>2. ~ \E a \in DOMAIN keys, b \in DOMAIN keys : a < b /\ keys[a] = keys[b]
    BY DEF RepeatedSteps, Repeated
<1>3. ASSUME NEW k \in DOMAIN StepsOf(v), StepsOf(v)[k].stepId = StepsOf(v)[j].stepId
      PROVE  k = j
    <2>1. keys[k] = keys[j] /\ k \in DOMAIN keys /\ j \in DOMAIN keys
        BY <1>3
    <2>2. ~(k < j) /\ ~(j < k)
        <3> HIDE DEF keys
        <3>1. QED
            BY <1>2, <2>1
    <2>3. QED
        BY <1>1, <2>2
<1>4. same = {j}
    BY <1>3 DEF StepsOf
<1> HIDE DEF same
<1>5. Max(same) = j
    <2>1. j \in Int
        BY <1>1
    <2>2. QED
        BY <1>4, <2>1 DEF Max
<1>6. QED
    BY <1>5 DEF same

(* What a step needs when no other has its name.                           *)
LEMMA NeedsOfStep ==
    ASSUME Shape(document), NEW v \in DOMAIN document.workflows, ~RepeatedSteps(StepsOf(v)),
           NEW j \in DOMAIN StepsOf(v)
    PROVE  Needs(v, StepsOf(v)[j].stepId) =
             {d \in StepsOf(v)[j].dependsOn : IndexOf(document.workflows[v], d) # 0}
             \cup {d \in Implicit(StepsOf(v)[j]) :
                     /\ IndexOf(document.workflows[v], d) # 0
                     /\ d \notin Forward(document.workflows[v], j)}
<1>1. Max({k \in DOMAIN document.workflows[v].steps :
                   document.workflows[v].steps[k].stepId = StepsOf(v)[j].stepId}) = j
    BY OnlyOneOfAName
<1>2. QED
    BY <1>1 DEF Needs, GraphDependencies, StepsOf

(* What a step needs comes before it.                                      *)
LEMMA NeededBefore ==
    ASSUME IInv, NEW v \in DOMAIN order, NEW n \in DOMAIN order[v],
           NEW d \in Needs(v, order[v][n])
    PROVE  d \in ToSet(order[v]) /\ Position(v, d) < n /\ Position(v, d) \in Int
<1>1. InTurn(v)
    BY DEF IInv, Ordered
<1>2. PICK m \in DOMAIN order[v] : m < n /\ order[v][m] = d
    BY <1>1 DEF InTurn
<1>3. Position(v, d) = m
    BY <1>1, <1>2, PositionIs DEF InTurn
<1>4. m \in Int
    BY <1>1 DEF InTurn
<1>5. QED
    BY <1>2, <1>3, <1>4 DEF ToSet

(* What a step asks for is ordered before it.                              *)
LEMMA FirstThingsFirst == ASSUME IInv PROVE AskedForComesFirst
<1>1. SUFFICES ASSUME NEW v \in DOMAIN order, NEW n \in DOMAIN order[v],
                      NEW j \in DOMAIN StepsOf(v), StepsOf(v)[j].stepId = order[v][n],
                      ~RepeatedSteps(StepsOf(v)), NEW d \in StepsOf(v)[j].dependsOn,
                      IndexOf(document.workflows[v], d) # 0
               PROVE  d \in ToSet(order[v]) /\ Position(v, d) < n
    BY DEF AskedForComesFirst
<1>2. d \in Needs(v, order[v][n])
    BY <1>1, NeedsOfStep DEF IInv, Shapes
<1>3. QED
    BY <1>2, NeededBefore

(* What is found wrong with a workflow is among the errors.                *)
LEMMA ErrorsOfWorkflow ==
    ASSUME IInv, Judged, NEW v \in DOMAIN document.workflows,
           NEW code \in WorkflowErrors(document.workflows[v], order[v])
    PROVE  <<v, code>> \in errors
<1>1. <<v, code>> \in Semantic
    BY DEF Semantic, SemanticErrors
<1>2. Semantic \subseteq errors
    BY DEF IInv, Verdict
<1>3. QED
    BY <1>1, <1>2

(* In a workflow without errors no name is missing or there twice, and     *)
(* every step was ordered.                                                 *)
LEMMA WithoutErrors ==
    ASSUME IInv, Judged, NEW v \in DOMAIN document.workflows, ErrorFree(v)
    PROVE  /\ ~RepeatedSteps(StepsOf(v))
           /\ \A j \in DOMAIN StepsOf(v) : /\ Missing(document.workflows[v], j) = {}
                                           /\ StepsOf(v)[j].stepId \in ToSet(order[v])
<1>1. WorkflowErrors(document.workflows[v], order[v]) = {}
    <2>1. ASSUME NEW code \in WorkflowErrors(document.workflows[v], order[v]) PROVE FALSE
        <3>1. <<v, code>> \in errors /\ <<v, code>>[1] = v
            BY ErrorsOfWorkflow
        <3>2. QED
            BY <3>1 DEF ErrorFree
    <2>2. QED
        BY <2>1
<1>2. "1006" \notin WorkflowErrors(document.workflows[v], order[v])
      /\ "1008" \notin WorkflowErrors(document.workflows[v], order[v])
      /\ "1009" \notin WorkflowErrors(document.workflows[v], order[v])
    BY <1>1
<1>3. QED
    BY <1>2 DEF WorkflowErrors, StepsOf

(* A step that is read from is one the reading step depends on.            *)
LEMMA ReadsAreImplicit ==
    ASSUME NEW step, NEW r \in StepReads(step)
    PROVE  r.step \in Implicit(step)
<1>1. ASSUME NEW leaf \in step.body \cup UNION {p.value : p \in ToSet(step.parameters)},
             NEW target, r \in Reads(leaf[2], target)
      PROVE  r.step \in Implicit(step)
    <2>1. PICK use \in Uses(leaf[2]) : r.step = use[1]
        BY <1>1 DEF Reads
    <2>2. use \in References(step)
        BY <2>1 DEF References
    <2>3. QED
        BY <2>1, <2>2 DEF Implicit
<1>2. CASE r \in BodyReads(step)
    <2>1. PICK leaf \in step.body : r \in Reads(leaf[2], <<"request-body", leaf[1]>>)
        BY <1>2 DEF BodyReads
    <2>2. QED
        BY <1>1, <2>1
<1>3. CASE r \in ParameterReads(step)
    <2>1. PICK p \in ToSet(step.parameters) :
                \E leaf \in p.value : r \in Reads(leaf[2], TargetOf(p))
        BY <1>3 DEF ParameterReads
    <2>2. PICK leaf \in p.value : r \in Reads(leaf[2], TargetOf(p))
        BY <2>1
    <2>3. QED
        BY <1>1, <2>2
<1>4. QED
    BY <1>2, <1>3 DEF StepReads

(* An edge of data is drawn for a read of a step.                          *)
LEMMA DataEdgeIs ==
    ASSUME NEW workflow, NEW e \in WorkflowEdges(workflow), e.kind = "data"
    PROVE  \E j \in DOMAIN workflow.steps : \E r \in StepReads(workflow.steps[j]) :
              /\ Mappable(workflow, r) /\ e.from = r.step /\ e.to = workflow.steps[j].stepId
<1>1. e \in DataEdges(workflow)
    BY DEF WorkflowEdges, ControlEdges, DependencyEdges, Edge
<1>2. QED
    BY <1>1 DEF DataEdges, Edge

(* Without errors what is read was written before, or the read was warned  *)
(* of.                                                                     *)
LEMMA WritesFirst == ASSUME IInv PROVE ReadsFollowWrites
<1>1. SUFFICES ASSUME Judged, NEW v \in DOMAIN edges, ErrorFree(v),
                      NEW e \in edges[v], e.kind = "data"
               PROVE  \/ Position(v, e.from) < Position(v, e.to)
                      \/ \E j \in DOMAIN StepsOf(v) :
                            /\ StepsOf(v)[j].stepId = e.to
                            /\ e.from \in Forward(document.workflows[v], j)
    BY DEF ReadsFollowWrites
<1>2. v \in DOMAIN document.workflows /\ v \in DOMAIN order
    <2>1. DOMAIN edges = 1 .. w - 1 /\ w \in 1 .. Len(document.workflows) + 1
        BY <1>1 DEF IInv, Drawn, Shapes
    <2>2. QED
        BY <2>1, ShapesOfDocument DEF IInv, Shapes
<1>3. edges[v] = WorkflowEdges(document.workflows[v])
    BY <1>1 DEF IInv, Drawn
<1>4. PICK j \in DOMAIN StepsOf(v) : \E r \in StepReads(StepsOf(v)[j]) :
            e.from = r.step /\ e.to = StepsOf(v)[j].stepId
    BY <1>1, <1>3, DataEdgeIs DEF StepsOf
<1>5. /\ ~RepeatedSteps(StepsOf(v)) /\ Missing(document.workflows[v], j) = {}
      /\ StepsOf(v)[j].stepId \in ToSet(order[v])
    BY <1>1, <1>2, WithoutErrors
<1>6. CASE e.from \in Forward(document.workflows[v], j)
    BY <1>4, <1>6
<1>7. CASE e.from \notin Forward(document.workflows[v], j)
    <2>1. e.from \in Implicit(StepsOf(v)[j])
        BY <1>4, ReadsAreImplicit
    <2>2. IndexOf(document.workflows[v], e.from) # 0
        BY <1>5, <2>1 DEF Missing, AllDependencies, StepsOf
    <2>3. e.from \in Needs(v, e.to)
        BY <1>2, <1>4, <1>5, <1>7, <2>1, <2>2, NeedsOfStep DEF IInv, Shapes
    <2>4. PICK n \in DOMAIN order[v] : order[v][n] = e.to
        BY <1>4, <1>5 DEF ToSet
    <2>5. Position(v, e.from) < n
        BY <1>2, <2>3, <2>4, NeededBefore
    <2>6. Position(v, e.to) = n
        BY <1>2, <2>4, PositionIs DEF IInv, Ordered, InTurn
    <2>7. QED
        BY <2>5, <2>6
<1>8. QED
    BY <1>6, <1>7

(* The order of the steps that dependency-analysis.ts finds is one in      *)
(* which they can be done, for every document: what a step asks for comes  *)
(* first, and in a workflow without errors what it reads was written       *)
(* before or the read was warned of.                                       *)
THEOREM OrderAlwaysRight == Spec => []OrderIsRight
<1>1. IInv => OrderIsRight
    BY TypeFollows, FirstThingsFirst, WritesFirst DEF OrderIsRight
<1>2. QED
    BY <1>1, InvariantHolds, PTL

(* The steps that following what steps need leads back to.                 *)
Stuck(v) == UNION {S \in SUBSET StepNames(v) : \A x \in S : Needs(v, x) \cap S # {}}

(* No step of them is ever ordered: none of them comes first.              *)
LEMMA StuckIsNotOrdered ==
    ASSUME NEW v, InTurn(v)
    PROVE  ToSet(order[v]) \cap Stuck(v) = {}
<1>1. SUFFICES ASSUME NEW S \in SUBSET StepNames(v), \A x \in S : Needs(v, x) \cap S # {}
               PROVE  \A n \in DOMAIN order[v] : order[v][n] \notin S
    <2>1. ASSUME NEW x \in ToSet(order[v]) PROVE \E n \in DOMAIN order[v] : order[v][n] = x
        BY DEF ToSet
    <2>2. ASSUME NEW x \in Stuck(v)
          PROVE  \E S \in SUBSET StepNames(v) : x \in S /\ \A y \in S : Needs(v, y) \cap S # {}
        BY DEF Stuck
    <2>3. QED
        BY <2>1, <2>2
<1> DEFINE k == Len(order[v])
           P == {n \in 0 .. k : \A m \in 1 .. n : order[v][m] \notin S}
<1>2. k \in Nat /\ DOMAIN order[v] = 1 .. k
    BY DEF InTurn
<1>3. 0 \in P
    BY <1>2
<1>4. ASSUME NEW n \in 1 .. k, n - 1 \in P PROVE n \in P
    <2>1. order[v][n] \notin S
        <3>1. SUFFICES ASSUME order[v][n] \in S PROVE FALSE
            OBVIOUS
        <3>2. PICK d \in Needs(v, order[v][n]) : d \in S
            BY <1>1, <3>1
        <3>3. PICK m \in 1 .. k : m < n /\ order[v][m] = d
            BY <1>2 DEF InTurn
        <3>4. m \in 1 .. n - 1
            BY <3>3
        <3>5. QED
            BY <1>4, <3>2, <3>3, <3>4
    <2>2. \A m \in 1 .. n : m = n \/ m \in 1 .. n - 1
        OBVIOUS
    <2>3. n \in 0 .. k
        OBVIOUS
    <2>4. QED
        BY <1>4, <2>1, <2>2, <2>3
<1> HIDE DEF P
<1>5. \A n \in 0 .. k : n \in P
    BY <1>2, <1>3, <1>4, UpToInduction
<1>6. k \in P
    BY <1>2, <1>5
<1>7. QED
    BY <1>2, <1>6 DEF P

(* What is left when no more step can be ordered is stuck.                 *)
LEMMA LeftIsStuck ==
    ASSUME NEW v, Exhausted(v)
    PROVE  StepNames(v) \ ToSet(order[v]) \subseteq Stuck(v)
<1> DEFINE S == StepNames(v) \ ToSet(order[v])
<1>1. ASSUME NEW x \in S PROVE Needs(v, x) \cap S # {}
    <2>1. ~Ready(v, x)
        BY DEF Exhausted
    <2>2. ~(Needs(v, x) \subseteq ToSet(order[v]))
        BY <2>1 DEF Ready, Needs
    <2>3. QED
        BY <2>2, NeedsAreNames
<1>2. S \in SUBSET StepNames(v)
    OBVIOUS
<1> HIDE DEF S
<1>3. S \subseteq Stuck(v)
    BY <1>1, <1>2 DEF Stuck
<1>4. QED
    BY <1>3 DEF S

(* When nothing more can be ordered, what was ordered is the rest.         *)
LEMMA OrderedIsRest ==
    ASSUME IInv, Judged, NEW v \in DOMAIN order
    PROVE  ToSet(order[v]) = StepNames(v) \ Stuck(v)
<1>1. InTurn(v) /\ Exhausted(v)
    BY DEF IInv, Ordered
<1>2. ToSet(order[v]) \subseteq StepNames(v)
    BY <1>1, SequencesAreInOrder DEF InTurn
<1>3. QED
    BY <1>1, <1>2, StuckIsNotOrdered, LeftIsStuck

(* A cycle is reported when a step was not ordered.                        *)
LEMMA CycleErrorIs ==
    ASSUME IInv, Judged, NEW v \in DOMAIN document.workflows
    PROVE  <<v, "1009">> \in errors <=> ~(StepNames(v) \subseteq ToSet(order[v]))
<1>1. "1009" \in WorkflowErrors(document.workflows[v], order[v])
        <=> \E j \in DOMAIN StepsOf(v) : StepsOf(v)[j].stepId \notin ToSet(order[v])
    BY DEF WorkflowErrors, StepsOf
<1>2. <<v, "1009">> \in errors <=> <<v, "1009">> \in Semantic
    <2>1. v # 0
        BY ShapesOfDocument DEF IInv, Shapes
    <2>2. QED
        BY <2>1 DEF IInv, Verdict
<1>3. <<v, "1009">> \in Semantic <=> "1009" \in WorkflowErrors(document.workflows[v], order[v])
    BY DEF Semantic, SemanticErrors
<1>4. QED
    BY <1>1, <1>2, <1>3 DEF StepNames, ToSet

(* A cycle is reported exactly when there is one.                          *)
LEMMA CyclesAreSaid == ASSUME IInv PROVE CycleIsReported
<1>1. SUFFICES ASSUME Judged, NEW v \in DOMAIN order
               PROVE  /\ <<v, "1009">> \in errors <=> Stuck(v) # {}
                      /\ ToSet(order[v]) = StepNames(v) \ Stuck(v)
    BY DEF CycleIsReported, Judged, Stuck, StepNames, Needs
<1>2. ToSet(order[v]) = StepNames(v) \ Stuck(v)
    BY <1>1, OrderedIsRest
<1>3. Stuck(v) \subseteq StepNames(v)
    BY DEF Stuck
<1>4. v \in DOMAIN document.workflows
    BY DEF IInv, Shapes
<1>5. QED
    BY <1>1, <1>2, <1>3, <1>4, CycleErrorIs

Codes == {"1004", "1005", "1017", "1006", "1007", "1008", "1011", "1009"}

(* The errors that make a document invalid.                                *)
LEMMA SemanticErrorsAre ==
    ASSUME NEW e \in Semantic
    PROVE  e[2] \in Codes
<1>1. ASSUME NEW v, NEW code \in WorkflowErrors(document.workflows[v], order[v])
      PROVE  code \in Codes
    BY DEF WorkflowErrors, Codes
<1>2. QED
    BY <1>1 DEF Semantic, SemanticErrors, Codes

(* An error is one of these, or of how an expression or an address is      *)
(* written.                                                                *)
LEMMA ErrorsAre ==
    ASSUME IInv, Judged, NEW e \in errors
    PROVE  e \in Semantic \/ \E r \in ReadingErrors(raw) \cup AddressErrors(document) : e = <<0, r>>
<1>1. errors = Semantic \cup (({0} \X ReadingErrors(raw)) \cup ({0} \X AddressErrors(document)))
    BY DEF IInv, Verdict
<1> DEFINE A == ReadingErrors(raw)
           B == AddressErrors(document)
<1>2. errors = Semantic \cup (({0} \X A) \cup ({0} \X B))
    BY <1>1
<1> HIDE DEF A, B
<1>3. e \in Semantic \/ \E r \in A \cup B : e = <<0, r>>
    BY <1>2
<1>4. QED
    BY <1>3 DEF A, B

(* A document with an error of the first kind is invalid, and no other.    *)
LEMMA DocumentIsInvalid ==
    ASSUME IInv, Judged
    PROVE  level[1] = "invalid" <=> \E e \in errors : e[2] \notin {"expression", "1013"}
<1>1. level[1] = "invalid" <=> Semantic # {}
    BY DEF IInv, Verdict, DocumentLevel
<1>2. ASSUME NEW e \in Semantic PROVE e \in errors /\ e[2] \notin {"expression", "1013"}
    BY SemanticErrorsAre DEF IInv, Verdict, Codes
<1>3. ASSUME NEW e \in errors, e[2] \notin {"expression", "1013"} PROVE e \in Semantic
    <2>1. e \in Semantic \/ \E r \in ReadingErrors(raw) \cup AddressErrors(document) : e = <<0, r>>
        BY ErrorsAre
    <2>2. \A r \in ReadingErrors(raw) \cup AddressErrors(document) : r \in {"expression", "1013"}
        BY DEF ReadingErrors, AddressErrors
    <2>3. QED
        BY <1>3, <2>1, <2>2
<1>4. QED
    BY <1>1, <1>2, <1>3

(* So is a workflow with an error of its own, if it is the first of its    *)
(* name.                                                                   *)
LEMMA WorkflowIsInvalid ==
    ASSUME IInv, Judged, NEW v \in DOMAIN document.workflows, NEW e \in errors, e[1] = v,
           \A u \in 1 .. v - 1 :
              document.workflows[u].workflowId # document.workflows[v].workflowId
    PROVE  level[2][v] = "invalid"
<1>1. Len(document.workflows) \in Nat /\ DOMAIN document.workflows = 1 .. Len(document.workflows)
    BY ShapesOfDocument DEF IInv, Shapes
<1>2. e \in Semantic
    <2>1. e \in Semantic \/ \E r \in ReadingErrors(raw) \cup AddressErrors(document) : e = <<0, r>>
        BY ErrorsAre
    <2>2. QED
        BY <1>1, <2>1
<1> DEFINE same == {u \in DOMAIN document.workflows :
                      document.workflows[u].workflowId = document.workflows[v].workflowId}
<1>3. v \in same /\ \A u \in same : v <= u /\ u \in Int
    BY <1>1
<1>4. Min(same) = v
    <2> HIDE DEF same
    <2>1. Min(same) \in same /\ \A u \in same : Min(same) <= u
        BY <1>3 DEF Min
    <2>2. QED
        BY <1>3, <2>1
<1>5. BeginsWith(v - 1, e[1] - 1) /\ e[1] > 0
    BY <1>1 DEF BeginsWith
<1>6. WorkflowLevel(document, Semantic, v) = "invalid"
    BY <1>2, <1>4, <1>5 DEF WorkflowLevel
<1>7. QED
    BY <1>6 DEF IInv, Verdict

(* What is wrong makes invalid.                                            *)
LEMMA ErrorsInvalidate == ASSUME IInv PROVE ErrorsMakeInvalid
<1>1. SUFFICES ASSUME Judged PROVE
        /\ level[1] = "invalid" <=> \E e \in errors : e[2] \notin {"expression", "1013"}
        /\ \A v \in DOMAIN level[2] :
              (\E e \in errors : e[1] = v /\ e[2] # "1005") =>
                  \/ level[2][v] = "invalid"
                  \/ \E u \in 1 .. v - 1 :
                        document.workflows[u].workflowId = document.workflows[v].workflowId
    BY DEF ErrorsMakeInvalid
<1>2. DOMAIN level[2] = DOMAIN document.workflows
    BY <1>1 DEF IInv, Verdict
<1>3. QED
    BY <1>1, <1>2, DocumentIsInvalid, WorkflowIsInvalid

(* A cycle is reported exactly when the needs of the steps lead around,    *)
(* the steps that depend on none are ordered all the same, and what is     *)
(* wrong makes the document and its workflow invalid.                      *)
THEOREM ProblemsAlwaysReported == Spec => []ProblemsAreReported
<1>1. IInv => ProblemsAreReported
    BY CyclesAreSaid, ErrorsInvalidate DEF ProblemsAreReported
<1>2. QED
    BY <1>1, InvariantHolds, PTL

(* An edge that is put into a graph stands in it with its name.            *)
LEMMA AssembledHas ==
    ASSUME NEW nodes, NEW drawn, NEW d \in drawn, d.from \in nodes, d.to \in nodes
    PROVE  \E e \in Assembled(nodes, drawn).edges :
              /\ e.kind = d.kind /\ e.from = d.from /\ e.to = d.to /\ e.mapping = d.mapping
              /\ \A c \in drawn : /\ c.kind = d.kind /\ c.from = d.from /\ c.to = d.to
                                  /\ c.mapping = d.mapping /\ c.alias # NoAlias
                                  => c.alias \in e.aliases
<1> DEFINE valid == {e \in drawn : e.from \in nodes /\ e.to \in nodes}
           same == {c \in valid : c.kind = d.kind /\ c.from = d.from /\ c.to = d.to
                                  /\ c.mapping = d.mapping}
           e == [kind |-> d.kind, from |-> d.from, to |-> d.to, mapping |-> d.mapping,
                 aliases |-> {c.alias : c \in same} \ {NoAlias}]
<1>1. d \in valid
    OBVIOUS
<1>2. e \in Assembled(nodes, drawn).edges
    BY <1>1 DEF Assembled
<1>3. ASSUME NEW c \in drawn, c.kind = d.kind, c.from = d.from, c.to = d.to,
             c.mapping = d.mapping, c.alias # NoAlias
      PROVE  c.alias \in e.aliases
    <2>1. c \in same
        BY <1>3
    <2>2. QED
        BY <1>3, <2>1
<1>4. e.kind = d.kind /\ e.from = d.from /\ e.to = d.to /\ e.mapping = d.mapping
    OBVIOUS
<1> HIDE DEF e
<1>5. QED
    BY <1>2, <1>3, <1>4

(* An edge of a graph and its names were put there.                        *)
LEMMA AssembledFrom ==
    ASSUME NEW nodes, NEW drawn, NEW e \in Assembled(nodes, drawn).edges
    PROVE  \E d \in drawn :
              /\ e.kind = d.kind /\ e.from = d.from /\ e.to = d.to /\ e.mapping = d.mapping
              /\ \A a \in e.aliases : \E c \in drawn :
                    /\ c.kind = d.kind /\ c.from = d.from /\ c.to = d.to /\ c.mapping = d.mapping
                    /\ c.alias = a /\ a # NoAlias
<1> DEFINE valid == {d \in drawn : d.from \in nodes /\ d.to \in nodes}
           same(d) == {c \in valid : c.kind = d.kind /\ c.from = d.from /\ c.to = d.to
                                     /\ c.mapping = d.mapping}
<1>1. PICK d \in valid :
            e = [kind |-> d.kind, from |-> d.from, to |-> d.to, mapping |-> d.mapping,
                 aliases |-> {c.alias : c \in same(d)} \ {NoAlias}]
    BY DEF Assembled
<1>2. e.aliases = {c.alias : c \in same(d)} \ {NoAlias}
    BY <1>1
<1>3. \A a \in e.aliases : \E c \in same(d) : c.alias = a /\ a # NoAlias
    BY <1>2
<1>4. e.kind = d.kind /\ e.from = d.from /\ e.to = d.to /\ e.mapping = d.mapping
    BY <1>1
<1>5. QED
    BY <1>3, <1>4

(* What a workflow of a finished graph has been drawn from.                *)
LEMMA GraphIsDrawn ==
    ASSUME IInv, at = "done", NEW v \in DOMAIN edges
    PROVE  /\ v \in DOMAIN document.workflows
           /\ edges[v] = WorkflowEdges(document.workflows[v])
           /\ problems[v] = ProjectionErrors(document, sources, document.workflows[v])
           /\ OperationEdges(document, sources, document.workflows[v]) \subseteq between
           /\ graphs[2][v] = Assembled(StepNames(v), edges[v])
<1>1. Judged /\ DOMAIN edges = 1 .. w - 1 /\ w \in 1 .. Len(document.workflows) + 1
    BY DEF IInv, Drawn, Shapes, Judged
<1>2. v \in DOMAIN document.workflows
    BY <1>1, ShapesOfDocument DEF IInv, Shapes
<1>3. QED
    BY <1>1, <1>2 DEF IInv, Drawn, StepNames, StepsOf

(* A read of a step is shown in the graph of its workflow, or reported.    *)
LEMMA ReadIsShown ==
    ASSUME IInv, at = "done", NEW v \in DOMAIN edges, NEW j \in DOMAIN StepsOf(v),
           NEW q \in StepReads(StepsOf(v)[j])
    PROVE  \/ \E e \in graphs[2][v].edges :
                 /\ e.kind = "data" /\ e.from = q.step /\ e.to = StepsOf(v)[j].stepId
                 /\ <<document.workflows[v].workflowId, q.step, q.output>> \in e.aliases
           \/ <<"read", StepsOf(v)[j].stepId, q.step, q.output>> \in problems[v]
<1> DEFINE workflow == document.workflows[v]
           step == StepsOf(v)[j]
           alias == <<workflow.workflowId, q.step, q.output>>
           d == Edge("data", q.step, step.stepId, ReadMapping(workflow, q), alias)
<1>1. CASE ~Mappable(workflow, q)
    BY <1>1, GraphIsDrawn DEF ProjectionErrors, StepsOf
<1>2. CASE Mappable(workflow, q)
    <2>1. d \in DataEdges(workflow)
        <3> DEFINE made == {Edge("data", read.step, workflow.steps[j].stepId,
                                 ReadMapping(workflow, read),
                                 <<workflow.workflowId, read.step, read.output>>) :
                              read \in {r \in StepReads(workflow.steps[j]) : Mappable(workflow, r)}}
        <3>1. step = workflow.steps[j] /\ j \in DOMAIN workflow.steps
            BY DEF StepsOf
        <3>2. q \in {r \in StepReads(workflow.steps[j]) : Mappable(workflow, r)}
            BY <1>2, <3>1
        <3>3. d \in made
            BY <3>1, <3>2
        <3>4. made \subseteq DataEdges(workflow)
            <4> HIDE DEF d
            <4> QED BY <3>1 DEF DataEdges
        <3> HIDE DEF d, made
        <3>5. QED
            BY <3>3, <3>4
    <2>2. d \in edges[v]
        BY <2>1, GraphIsDrawn DEF WorkflowEdges
    <2>3. step.stepId \in StepNames(v)
        BY DEF StepNames, ToSet
    <2>4. IndexOf(workflow, q.step) # 0
        <3>1. SUFFICES ASSUME IndexOf(workflow, q.step) = 0 PROVE FALSE
            OBVIOUS
        <3>2. Output(workflow, q.step, q.output) = [selector |-> NoSelector, around |-> <<>>]
            BY <3>1 DEF Output
        <3>3. QED
            BY <1>2, <3>2 DEF Mappable
    <2>5. q.step \in StepNames(v)
        BY <2>4 DEF IndexOf, StepNames, ToSet, StepsOf
    <2>6. d.kind = "data" /\ d.from = q.step /\ d.to = step.stepId /\ d.alias = alias
        BY DEF Edge
    <2>7. alias # NoAlias
        BY DEF NoAlias
    <2> HIDE DEF d, alias
    <2>8. PICK e \in Assembled(StepNames(v), edges[v]).edges :
              /\ e.kind = d.kind /\ e.from = d.from /\ e.to = d.to
              /\ d.alias # NoAlias => d.alias \in e.aliases
        BY <2>2, <2>3, <2>5, <2>6, AssembledHas
    <2>9. QED
        BY <2>6, <2>7, <2>8, GraphIsDrawn DEF alias
<1>3. QED
    BY <1>1, <1>2

(* A use of an output is a read.                                           *)
LEMMA UseIsRead ==
    ASSUME NEW template, NEW target, NEW r \in Uses(template)
    PROVE  \E q \in Reads(template, target) : q.step = r[1] /\ q.output = r[2]
<1> DEFINE q == [step |-> r[1], output |-> r[2], target |-> target,
                 around |-> IF template.kind = "template" THEN template.segments ELSE <<>>]
<1>1. q \in Reads(template, target)
    BY DEF Reads
<1>2. q.step = r[1] /\ q.output = r[2]
    OBVIOUS
<1> HIDE DEF q
<1>3. QED
    BY <1>1, <1>2

(* A read at a place that is none is reported.                             *)
LEMMA MisdirectionIsSaid ==
    ASSUME NEW workflow, NEW j \in DOMAIN workflow.steps, Misdirected(workflow.steps[j])
    PROVE  <<"parameter", workflow.steps[j].stepId>> \in ProjectionErrors(document, sources, workflow)
BY DEF ProjectionErrors

(* Every read is shown or reported.                                        *)
LEMMA ReadsAreShown == ASSUME IInv PROVE EveryReadIsShown
<1>1. SUFFICES ASSUME at = "done", NEW v \in DOMAIN edges, NEW j \in DOMAIN StepsOf(v),
                      NEW leaf \in StepsOf(v)[j].body \cup
                                   UNION {p.value : p \in ToSet(StepsOf(v)[j].parameters)},
                      NEW r \in Uses(leaf[2])
               PROVE  \/ \E e \in graphs[2][v].edges :
                            /\ e.kind = "data" /\ e.from = r[1] /\ e.to = StepsOf(v)[j].stepId
                            /\ <<document.workflows[v].workflowId, r[1], r[2]>> \in e.aliases
                      \/ <<"parameter", StepsOf(v)[j].stepId>> \in problems[v]
                      \/ <<"read", StepsOf(v)[j].stepId, r[1], r[2]>> \in problems[v]
    BY DEF EveryReadIsShown
<1> DEFINE step == StepsOf(v)[j]
<1>2. ASSUME NEW q \in StepReads(step), q.step = r[1], q.output = r[2]
      PROVE  \/ \E e \in graphs[2][v].edges :
                   /\ e.kind = "data" /\ e.from = r[1] /\ e.to = StepsOf(v)[j].stepId
                   /\ <<document.workflows[v].workflowId, r[1], r[2]>> \in e.aliases
             \/ <<"read", StepsOf(v)[j].stepId, r[1], r[2]>> \in problems[v]
    BY <1>1, <1>2, ReadIsShown
<1>3. CASE leaf \in step.body
    <2>1. PICK q \in Reads(leaf[2], <<"request-body", leaf[1]>>) : q.step = r[1] /\ q.output = r[2]
        BY <1>1, UseIsRead
    <2>2. q \in StepReads(step)
        BY <1>3, <2>1 DEF StepReads, BodyReads
    <2>3. QED
        BY <1>2, <2>1, <2>2
<1>4. CASE leaf \in UNION {p.value : p \in ToSet(step.parameters)}
    <2>1. PICK p \in ToSet(step.parameters) : leaf \in p.value
        BY <1>4
    <2>2. CASE p.location \in Locations
        <3>1. PICK q \in Reads(leaf[2], TargetOf(p)) : q.step = r[1] /\ q.output = r[2]
            BY <1>1, UseIsRead
        <3>2. q \in StepReads(step)
            BY <2>1, <2>2, <3>1 DEF StepReads, ParameterReads
        <3>3. QED
            BY <1>2, <3>1, <3>2
    <2>3. CASE p.location \notin Locations
        <3>1. Misdirected(step)
            BY <1>1, <2>1, <2>3 DEF Misdirected
        <3>2. <<"parameter", step.stepId>> \in ProjectionErrors(document, sources, document.workflows[v])
            BY <3>1, MisdirectionIsSaid DEF StepsOf
        <3>3. QED
            BY <1>1, <3>2, GraphIsDrawn
    <2>4. QED
        BY <2>2, <2>3
<1>5. QED
    BY <1>1, <1>3, <1>4

(* What is found among some of the sources is an operation of one of them. *)
LEMMA FoundIs ==
    ASSUME NEW among \in SUBSET DOMAIN sources, NEW field, NEW value,
           Found(sources, among, field, value).status = "resolved"
    PROVE  \E n \in DOMAIN sources : \E o \in sources[n].document.operations :
              /\ Found(sources, among, field, value).name = sources[n].name
              /\ Found(sources, among, field, value).operation = o.id
<1> DEFINE candidates == UNION {{<<n, o>> : o \in {p \in sources[n].document.operations :
                                                    p[field] = value}} : n \in among}
           c == CHOOSE x \in candidates : TRUE
           found == Found(sources, among, field, value)
<1>1. candidates # {} /\ ~(Cardinality(candidates) > 1)
    <2> DEFINE one == [status |-> "resolved", name |-> sources[c[1]].name, operation |-> c[2].id]
    <2>5. found = CASE candidates = {} -> Unbound("missing")
                    [] Cardinality(candidates) > 1 -> Unbound("ambiguous")
                    [] OTHER -> one
        BY DEF Found
    <2>6. Cardinality({}) = 0
        BY FS_EmptySet
    <2>7. found.status = "resolved"
        OBVIOUS
    <2> HIDE DEF candidates, found, one
    <2>1. candidates = {} => found = Unbound("missing")
        BY <2>5, <2>6
    <2>2. candidates # {} /\ Cardinality(candidates) > 1 => found = Unbound("ambiguous")
        BY <2>5
    <2>3. Unbound("missing").status # "resolved" /\ Unbound("ambiguous").status # "resolved"
        BY DEF Unbound
    <2>4. QED
        BY <2>1, <2>2, <2>3, <2>7
<1>2. found = [status |-> "resolved", name |-> sources[c[1]].name, operation |-> c[2].id]
    BY <1>1 DEF Found
<1>3. c \in candidates
    BY <1>1
<1>4. PICK n \in among : \E o \in sources[n].document.operations : c = <<n, o>>
    <2> HIDE DEF c
    <2> QED BY <1>3
<1>5. PICK o \in sources[n].document.operations : c = <<n, o>>
    BY <1>4
<1> HIDE DEF c
<1>6. c[1] = n /\ c[2] = o
    BY <1>5
<1>7. found.name = sources[n].name /\ found.operation = o.id
    BY <1>2, <1>6
<1>8. QED
    BY <1>7

(* So is what a target is resolved to.                                     *)
LEMMA ResolutionIs ==
    ASSUME NEW target, Resolution(document, sources, target).status = "resolved"
    PROVE  \E n \in DOMAIN sources : \E o \in sources[n].document.operations :
              /\ Resolution(document, sources, target).name = sources[n].name
              /\ Resolution(document, sources, target).operation = o.id
<1>1. Available(document, sources) \in SUBSET DOMAIN sources
    BY DEF Available
<1>2. \A name : OfName(sources, Available(document, sources), name) \in SUBSET DOMAIN sources
    BY <1>1 DEF OfName
<1>3. Unbound("missing").status # "resolved" /\ Unbound("preserve-only").status # "resolved"
    BY DEF Unbound
<1>4. \E among \in SUBSET DOMAIN sources : \E field, value :
         Resolution(document, sources, target) = Found(sources, among, field, value)
    BY <1>1, <1>2, <1>3 DEF Resolution
<1>5. QED
    BY <1>4, FoundIs

(* A step that has an operation has one of those that are shown.           *)
LEMMA BindingIsEndpoint ==
    ASSUME IInv, NEW workflowId, NEW stepId,
           Binding(document, sources, workflowId, stepId) # Absent
    PROVE  Binding(document, sources, workflowId, stepId) \in Endpoints(sources)
<1> DEFINE found == StepResolution(document, sources, workflowId, stepId)
           named == {n \in DOMAIN sources : sources[n].name = found.name}
           c == CHOOSE n \in named : TRUE
<1>1. /\ found.status = "resolved" /\ Cardinality(named) = 1
      /\ Binding(document, sources, workflowId, stepId) = <<sources[c].id, found.operation>>
    BY DEF Binding
<1>2. PICK n \in DOMAIN sources : \E o \in sources[n].document.operations :
            found.name = sources[n].name /\ found.operation = o.id
    <2>1. found = Unbound("missing") \/ \E t : found = Resolution(document, sources, t)
        BY DEF StepResolution
    <2>2. Unbound("missing").status # "resolved"
        BY DEF Unbound
    <2> HIDE DEF found
    <2>3. QED
        BY <1>1, <2>1, <2>2, ResolutionIs
<1>3. PICK o \in sources[n].document.operations : found.operation = o.id
    BY <1>2
<1>4. n \in named
    BY <1>2
<1>5. c = n
    <2>1. Len(sources) \in Nat /\ DOMAIN sources = 1 .. Len(sources)
        BY InputsAssumption, OrderIsSequence DEF IInv, Shapes
    <2>2. IsFiniteSet(DOMAIN sources) /\ named \subseteq DOMAIN sources
        BY <2>1, FS_Interval
    <2>3. IsFiniteSet(named)
        BY <2>2, FS_Subset
    <2>4. c \in named
        BY <1>4
    <2> HIDE DEF named, c
    <2>5. QED
        BY <1>1, <1>4, <2>3, <2>4, AtMostOne
<1>6. <<sources[n].id, o.id>> \in Endpoints(sources)
    <2>1. sources[n] \in ToSet(sources)
        BY DEF ToSet
    <2>2. QED
        BY <2>1 DEF Endpoints
<1>7. QED
    BY <1>1, <1>3, <1>5, <1>6

(* The edge between the operations of the steps that an edge is between.   *)
LEMMA OperationEdgeIs ==
    ASSUME NEW workflow, NEW d \in WorkflowEdges(workflow),
           Binding(document, sources, workflow.workflowId, d.from) # Absent,
           Binding(document, sources, workflow.workflowId, d.to) # Absent
    PROVE  Edge(d.kind, Binding(document, sources, workflow.workflowId, d.from),
                Binding(document, sources, workflow.workflowId, d.to), d.mapping, d.alias)
              \in OperationEdges(document, sources, workflow)
BY DEF OperationEdges

(* The two graphs agree.                                                   *)
LEMMA BothGraphsAgree == ASSUME IInv PROVE GraphsAgree
<1> DEFINE bound(v, stepId) ==
             Binding(document, sources, document.workflows[v].workflowId, stepId)
<1>1. SUFFICES ASSUME at = "done", NEW v \in DOMAIN edges, NEW e \in graphs[2][v].edges,
                      bound(v, e.from) # Absent, bound(v, e.to) # Absent
               PROVE  \E g \in graphs[1].edges :
                         /\ g.kind = e.kind /\ g.mapping = e.mapping
                         /\ g.from = bound(v, e.from) /\ g.to = bound(v, e.to)
                         /\ e.aliases \subseteq g.aliases
    BY DEF GraphsAgree
<1> DEFINE from == bound(v, e.from)
           to == bound(v, e.to)
           drawn == between \cup UNION {SourceLinks(s) : s \in ToSet(sources)}
<1>2. PICK d \in edges[v] :
              /\ e.kind = d.kind /\ e.from = d.from /\ e.to = d.to /\ e.mapping = d.mapping
              /\ \A a \in e.aliases : \E c \in edges[v] :
                    /\ c.kind = d.kind /\ c.from = d.from /\ c.to = d.to /\ c.mapping = d.mapping
                    /\ c.alias = a /\ a # NoAlias
    BY <1>1, GraphIsDrawn, AssembledFrom
<1>3. \A c \in edges[v] : c.from = d.from /\ c.to = d.to =>
         Edge(c.kind, from, to, c.mapping, c.alias) \in drawn
    BY <1>1, <1>2, GraphIsDrawn, OperationEdgeIs
<1>4. from \in Endpoints(sources) /\ to \in Endpoints(sources)
    BY <1>1, BindingIsEndpoint
<1>5. graphs[1] = Assembled(Endpoints(sources), drawn)
    BY <1>1 DEF IInv, Drawn
<1> HIDE DEF from, to, drawn
<1> DEFINE f == Edge(d.kind, from, to, d.mapping, d.alias)
<1>6. f \in drawn /\ f.from = from /\ f.to = to /\ f.kind = d.kind /\ f.mapping = d.mapping
    BY <1>3 DEF Edge
<1> HIDE DEF f
<1>7. PICK g \in graphs[1].edges :
              /\ g.kind = f.kind /\ g.from = f.from /\ g.to = f.to /\ g.mapping = f.mapping
              /\ \A c \in drawn : /\ c.kind = f.kind /\ c.from = f.from /\ c.to = f.to
                                  /\ c.mapping = f.mapping /\ c.alias # NoAlias
                                  => c.alias \in g.aliases
    BY <1>4, <1>5, <1>6, AssembledHas
<1>8. ASSUME NEW a \in e.aliases PROVE a \in g.aliases
    <2>1. PICK c \in edges[v] :
                    /\ c.kind = d.kind /\ c.from = d.from /\ c.to = d.to /\ c.mapping = d.mapping
                    /\ c.alias = a /\ a # NoAlias
        BY <1>2
    <2> DEFINE h == Edge(c.kind, from, to, c.mapping, c.alias)
    <2>2. /\ h \in drawn /\ h.kind = f.kind /\ h.from = f.from /\ h.to = f.to
          /\ h.mapping = f.mapping /\ h.alias = a
        BY <1>3, <1>6, <2>1 DEF Edge
    <2> HIDE DEF h
    <2>3. QED
        BY <1>7, <2>1, <2>2
<1>9. QED
    BY <1>2, <1>6, <1>7, <1>8 DEF from, to

(* Every output that is read is shown or reported, and the graph of the    *)
(* operations has what the graphs of the workflows have between two steps  *)
(* that call an operation.                                                 *)
THEOREM GraphsAlwaysWhole == Spec => []GraphsAreWhole
<1>1. IInv => GraphsAreWhole
    BY ReadsAreShown, BothGraphsAgree DEF GraphsAreWhole
<1>2. QED
    BY <1>1, InvariantHolds, PTL
====
